------------------------- MODULE ConfigStoreProofs -------------------------
(***************************************************************************)
(* Proofs about ConfigStore for any number of names, contents, threads and *)
(* writers: the inductive invariant StoreIInv, and from it what a run uses, *)
(* what an acknowledgement is worth and what the audit log says.           *)
(***************************************************************************)
EXTENDS ConfigStore, TLAPS

----------------------------------------------------------------------------
(* The inductive invariant. *)

StoreTypes ==
    /\ files \in [Names -> Contents \cup {None}]
    /\ op \in [Threads -> Operations \cup {None}]
    /\ pinned \in Identities \cup {None}
    /\ acked \in [Names -> Contents \cup {None, Unsure}]
    /\ edits \in Nat

(* No custom file has the name of a builtin one. *)
BuiltinsHaveNoFile == \A n \in Builtins : files[n] = None

(* Two operations that run side by side reserve different names. *)
ReservedNamesAreDisjoint ==
    \A t, u \in Threads :
      t # u /\ op[t] # None /\ op[u] # None => ConflictNames(op[t]) \cap ConflictNames(op[u]) = {}

(* An operation past its checks writes to no builtin name, and what it read is still there
   unless somebody else wrote. *)
CheckedIsCurrent(o) ==
    o.at # "check" =>
        /\ o.name \notin Builtins
        /\ o.kind = "rename" => o.new \notin Builtins /\ o.new # o.name
        /\ o.touched \/ files[o.name] = o.before

(* An operation about to replace a file has written its audit line. *)
ReplaceIsLogged(o) == o.at = "replace" => o.logged = "ok"

OperationsAreSound ==
    \A t \in Threads : op[t] # None => CheckedIsCurrent(op[t]) /\ ReplaceIsLogged(op[t])

(* From the lock on, the pinned file cannot be replaced. *)
LockIsOnPinned == run \in {"locked", "running"} => pinned # None /\ lock = pinned.name

(* An acknowledgement and the change it reports are one step. *)
AcknowledgedHolds == \A n \in Names : acked[n] # Unsure => files[n] = acked[n]

StoreIInv ==
    /\ StoreTypes /\ BuiltinsHaveNoFile /\ ReservedNamesAreDisjoint /\ OperationsAreSound
    /\ LockIsOnPinned /\ RunUsesPinned /\ AcknowledgedHolds

----------------------------------------------------------------------------
(* StoreIInv holds initially and every action preserves it. *)

LEMMA StoreInit == Init => StoreIInv
  BY StoreConstants DEF Init, StoreIInv, StoreTypes, BuiltinsHaveNoFile, ReservedNamesAreDisjoint,
     OperationsAreSound, LockIsOnPinned, RunUsesPinned, AcknowledgedHolds, Unsure

(* A step that leaves the files alone and takes one thread's operation to a sound state
   keeps what the invariant says of operations. *)
LEMMA OneThread ==
    ASSUME StoreIInv, NEW t \in Threads, NEW x \in Operations \cup {None},
           op' = [op EXCEPT ![t] = x], UNCHANGED files,
           x # None => /\ CheckedIsCurrent(x) /\ ReplaceIsLogged(x)
                       /\ \A u \in Threads \ {t} :
                            op[u] # None => ConflictNames(op[u]) \cap ConflictNames(x) = {}
    PROVE  /\ op' \in [Threads -> Operations \cup {None}]
           /\ ReservedNamesAreDisjoint' /\ OperationsAreSound' /\ BuiltinsHaveNoFile'
  <1>1. op \in [Threads -> Operations \cup {None}]
    BY DEF StoreIInv, StoreTypes
  <1>2. \A u \in Threads : op'[u] = IF u = t THEN x ELSE op[u]
    BY <1>1
  <1>3. op' \in [Threads -> Operations \cup {None}]
    BY <1>1
  <1>4. ReservedNamesAreDisjoint'
    BY <1>2 DEF StoreIInv, ReservedNamesAreDisjoint
  <1>5. OperationsAreSound'
    BY <1>2 DEF StoreIInv, OperationsAreSound, CheckedIsCurrent, ReplaceIsLogged
  <1>6. QED
    BY <1>3, <1>4, <1>5 DEF StoreIInv, BuiltinsHaveNoFile

(* The same when the thread's operation keeps its kind and names. *)
LEMMA SameNames ==
    ASSUME StoreIInv, NEW t \in Threads, op[t] # None, NEW x \in Operations,
           x.kind = op[t].kind, x.name = op[t].name, x.new = op[t].new
    PROVE  /\ ConflictNames(x) = ConflictNames(op[t])
           /\ \A u \in Threads \ {t} :
                op[u] # None => ConflictNames(op[u]) \cap ConflictNames(x) = {}
  BY DEF StoreIInv, ReservedNamesAreDisjoint, ConflictNames

LEMMA AcceptInv ==
    ASSUME StoreIInv, NEW t \in Threads, NEW o \in Requests, Accept(t, o)
    PROVE  StoreIInv'
  <1>1. o \in Operations /\ o.at = "check"
    BY DEF Requests, Operations, Phases
  <1>2. \A u \in Threads \ {t} : op[u] # None => ConflictNames(op[u]) \cap ConflictNames(o) = {}
    BY DEF Accept, Busy
  <1>3. /\ op' \in [Threads -> Operations \cup {None}]
        /\ ReservedNamesAreDisjoint' /\ OperationsAreSound' /\ BuiltinsHaveNoFile'
    BY <1>1, <1>2, OneThread DEF Accept, CheckedIsCurrent, ReplaceIsLogged
  <1>4. QED
    BY <1>3 DEF Accept, runVars, StoreIInv, StoreTypes, LockIsOnPinned, RunUsesPinned,
         AcknowledgedHolds

(* An operation that ends keeps the invariant if what it acknowledges is there. *)
LEMMA EndsInv ==
    ASSUME StoreIInv, NEW t \in Threads, op[t] # None, Ends(t), UNCHANGED <<files, edits, runVars>>,
           UNCHANGED acked \/ (Acknowledge(op[t]) /\ op[t].kind = "edit"
                                /\ files[op[t].name] = op[t].content)
    PROVE  StoreIInv'
  <1>1. /\ op' \in [Threads -> Operations \cup {None}]
        /\ ReservedNamesAreDisjoint' /\ OperationsAreSound' /\ BuiltinsHaveNoFile'
    BY OneThread DEF Ends
  <1>2. /\ acked' \in [Names -> Contents \cup {None, Unsure}]
        /\ AcknowledgedHolds'
    <2>1. CASE UNCHANGED acked
      BY <2>1 DEF StoreIInv, StoreTypes, AcknowledgedHolds
    <2>2. CASE Acknowledge(op[t]) /\ op[t].kind = "edit" /\ files[op[t].name] = op[t].content
      <3>1. op[t] \in Operations
        BY DEF StoreIInv, StoreTypes
      <3>2. \A n \in Names : acked'[n] = IF n = op[t].name
                                         THEN (IF op[t].touched THEN Unsure ELSE op[t].content)
                                         ELSE acked[n]
        BY <2>2, <3>1 DEF Acknowledge, ConflictNames, Receipt, Operations
      <3>3. acked' \in [Names -> Contents \cup {None, Unsure}]
        BY <2>2, <3>1, <3>2 DEF Acknowledge, StoreIInv, StoreTypes, Operations
      <3>4. AcknowledgedHolds'
        BY <2>2, <3>2 DEF StoreIInv, AcknowledgedHolds
      <3>5. QED
        BY <3>3, <3>4
    <2>3. QED
      BY <2>1, <2>2
  <1>3. QED
    BY <1>1, <1>2 DEF runVars, StoreIInv, StoreTypes, LockIsOnPinned, RunUsesPinned

(* An operation that goes on with the same names keeps it if its new state is sound. *)
LEMMA GoesOnInv ==
    ASSUME StoreIInv, NEW t \in Threads, op[t] # None, NEW x \in Operations,
           op' = [op EXCEPT ![t] = x], UNCHANGED <<files, acked, edits, runVars>>,
           x.kind = op[t].kind, x.name = op[t].name, x.new = op[t].new,
           CheckedIsCurrent(x), ReplaceIsLogged(x)
    PROVE  StoreIInv'
  <1>1. /\ op' \in [Threads -> Operations \cup {None}]
        /\ ReservedNamesAreDisjoint' /\ OperationsAreSound' /\ BuiltinsHaveNoFile'
    BY SameNames, OneThread
  <1>2. QED
    BY <1>1 DEF runVars, StoreIInv, StoreTypes, LockIsOnPinned, RunUsesPinned, AcknowledgedHolds

LEMMA CheckInv ==
    ASSUME StoreIInv, NEW t \in Threads, op[t] # None, Check(t)
    PROVE  StoreIInv'
  <1> DEFINE o == op[t]
  <1>1. o \in Operations /\ o.at = "check"
    BY DEF StoreIInv, StoreTypes, Check
  <1>2. CASE Refused(o)
    BY <1>2, EndsInv DEF Check
  <1>3. CASE ~Refused(o) /\ Unchanged(o)
    BY <1>3, EndsInv DEF Check, Unchanged
  <1>4. CASE ~Refused(o) /\ ~Unchanged(o)
    <2> DEFINE x == [o EXCEPT !.before = files[o.name],
                              !.at = IF o.kind \in {"create", "edit"} THEN "stage" ELSE "audit"]
    <2>1. op' = [op EXCEPT ![t] = x] /\ UNCHANGED <<files, acked, edits, runVars>>
      BY <1>4 DEF Check, StoreIInv, StoreTypes
    <2>2. files[o.name] \in Contents \cup {None}
      BY <1>1 DEF StoreIInv, StoreTypes, Operations
    <2>3. /\ x \in Operations /\ x.kind = o.kind /\ x.name = o.name /\ x.new = o.new
          /\ x.before = files[o.name] /\ x.at \in {"stage", "audit"}
      BY <1>1, <2>2 DEF Operations, Phases
    <2>4. o.name \notin Builtins /\ (o.kind = "rename" => o.new \notin Builtins /\ o.new # o.name)
      BY <1>4 DEF Refused, StoreIInv, BuiltinsHaveNoFile
    <2>5. CheckedIsCurrent(x) /\ ReplaceIsLogged(x)
      BY <2>3, <2>4 DEF CheckedIsCurrent, ReplaceIsLogged
    <2> HIDE DEF x
    <2>6. QED
      BY <2>1, <2>3, <2>5, GoesOnInv
  <1>5. QED
    BY <1>2, <1>3, <1>4

LEMMA StageAuditInv ==
    ASSUME StoreIInv, NEW t \in Threads, op[t] # None, Stage(t) \/ Audit(t)
    PROVE  StoreIInv'
  <1> DEFINE o == op[t]
  <1>1. o \in Operations /\ CheckedIsCurrent(o)
    BY DEF StoreIInv, StoreTypes, OperationsAreSound
  <1>2. UNCHANGED <<files, acked, edits, runVars>>
    BY DEF Stage, Audit
  <1>3. CASE Ends(t)
    BY <1>2, <1>3, EndsInv
  <1>4. CASE Stage(t) /\ Step(t, "audit")
    <2> DEFINE x == [o EXCEPT !.at = "audit"]
    <2>1. op' = [op EXCEPT ![t] = x]
      BY <1>4 DEF Step, StoreIInv, StoreTypes
    <2>2. x \in Operations /\ x.kind = o.kind /\ x.name = o.name /\ x.new = o.new
      BY <1>1 DEF Operations, Phases
    <2>3. CheckedIsCurrent(x) /\ ReplaceIsLogged(x)
      BY <1>1, <1>4 DEF CheckedIsCurrent, ReplaceIsLogged, Stage, Operations
    <2> HIDE DEF x
    <2>4. QED
      BY <1>2, <2>1, <2>2, <2>3, GoesOnInv
  <1>5. CASE Audit(t) /\ op' = [op EXCEPT ![t].at = "replace", ![t].logged = "ok"]
    <2> DEFINE x == [o EXCEPT !.at = "replace", !.logged = "ok"]
    <2>1. op' = [op EXCEPT ![t] = x]
      BY <1>5 DEF StoreIInv, StoreTypes
    <2>2. x \in Operations /\ x.kind = o.kind /\ x.name = o.name /\ x.new = o.new
      BY <1>1 DEF Operations, Phases
    <2>3. CheckedIsCurrent(x) /\ ReplaceIsLogged(x)
      BY <1>1, <1>5 DEF CheckedIsCurrent, ReplaceIsLogged, Audit, Operations
    <2> HIDE DEF x
    <2>4. QED
      BY <1>2, <2>1, <2>2, <2>3, GoesOnInv
  <1>6. QED
    BY <1>3, <1>4, <1>5 DEF Stage, Audit

(* What a replacement does to the files: its own names change, nothing else. *)
LEMMA AfterFacts ==
    ASSUME StoreTypes, NEW o \in Operations, CheckedIsCurrent(o), o.at = "replace"
    PROVE  /\ After(o) \in [Names -> Contents \cup {None}]
           /\ \A n \in Names \ ConflictNames(o) : After(o)[n] = files[n]
           /\ After(o)[o.name] = IF o.kind \in {"create", "edit"} THEN o.content ELSE None
           /\ o.kind = "rename" => After(o)[o.new] = files[o.name]
  <1>1. o.name \in Names /\ o.new \in Names /\ o.content \in Contents
    BY DEF Operations
  <1>2. o.kind = "rename" => o.new # o.name
    BY DEF CheckedIsCurrent
  <1>3. \A n \in Names :
          After(o)[n] = IF o.kind = "rename" /\ n = o.new THEN files[o.name]
                        ELSE IF n = o.name
                        THEN IF o.kind \in {"create", "edit"} THEN o.content ELSE None
                        ELSE files[n]
    BY <1>2 DEF After
  <1>4. After(o) = [n \in Names |-> After(o)[n]]
    BY DEF After
  <1>5. After(o) \in [Names -> Contents \cup {None}]
    BY <1>1, <1>3, <1>4 DEF StoreTypes
  <1>6. QED
    BY <1>1, <1>2, <1>3, <1>5 DEF ConflictNames

LEMMA ReplaceInv ==
    ASSUME StoreIInv, NEW t \in Threads, op[t] # None, Replace(t)
    PROVE  StoreIInv'
  <1> DEFINE o == op[t]
  <1>1. /\ o \in Operations /\ CheckedIsCurrent(o) /\ o.at = "replace"
        /\ o.name \notin Builtins /\ (o.kind = "rename" => o.new \notin Builtins)
    BY DEF StoreIInv, StoreTypes, OperationsAreSound, Replace, CheckedIsCurrent
  <1>2. /\ files' \in [Names -> Contents \cup {None}]
        /\ \A n \in Names \ ConflictNames(o) : files'[n] = files[n]
        /\ files'[o.name] = IF o.kind \in {"create", "edit"} THEN o.content ELSE None
        /\ o.kind = "rename" => files'[o.new] = files[o.name]
    BY <1>1, AfterFacts DEF Replace, StoreIInv
  <1>3. \A u \in Threads : op'[u] = IF u = t THEN None ELSE op[u]
    BY DEF Replace, Ends, StoreIInv, StoreTypes
  <1>4. op' \in [Threads -> Operations \cup {None}]
    BY DEF Replace, Ends, StoreIInv, StoreTypes
  <1>5. BuiltinsHaveNoFile'
    BY <1>1, <1>2, StoreConstants DEF StoreIInv, BuiltinsHaveNoFile, ConflictNames
  <1>6. ReservedNamesAreDisjoint'
    BY <1>3 DEF StoreIInv, ReservedNamesAreDisjoint
  <1>7. OperationsAreSound'
    <2> SUFFICES ASSUME NEW u \in Threads, op'[u] # None
                 PROVE  (CheckedIsCurrent(op[u]) /\ ReplaceIsLogged(op[u]))'
      BY DEF OperationsAreSound
    <2>1. /\ u # t /\ op'[u] = op[u] /\ op[u] \in Operations
          /\ CheckedIsCurrent(op[u]) /\ ReplaceIsLogged(op[u])
          /\ ConflictNames(op[u]) \cap ConflictNames(o) = {}
      BY <1>3, <1>4 DEF StoreIInv, StoreTypes, OperationsAreSound, ReservedNamesAreDisjoint
    <2>2. op[u].name \in Names \ ConflictNames(o)
      BY <2>1 DEF ConflictNames, Operations
    <2>3. files'[op[u].name] = files[op[u].name]
      BY <1>2, <2>2
    <2>4. QED
      BY <2>1, <2>3 DEF CheckedIsCurrent, ReplaceIsLogged
  <1>8. LockIsOnPinned' /\ pinned' \in Identities \cup {None}
    BY DEF Replace, StoreIInv, StoreTypes, LockIsOnPinned
  <1>9. RunUsesPinned'
    <2> SUFFICES ASSUME run = "running"
                 PROVE  files'[pinned.name] = pinned.content /\ active' = pinned.name
      BY DEF Replace, RunUsesPinned
    <2>1. /\ pinned \in Identities /\ lock = pinned.name
          /\ files[pinned.name] = pinned.content /\ active = pinned.name
      BY DEF StoreIInv, StoreTypes, LockIsOnPinned, RunUsesPinned
    <2>2. pinned.name \in Names \ ConflictNames(o)
      BY <2>1 DEF Replace, Identities
    <2>3. QED
      BY <1>2, <2>1, <2>2 DEF Replace, ConflictNames
  <1>10. /\ acked' \in [Names -> Contents \cup {None, Unsure}]
         /\ AcknowledgedHolds'
    <2>1. \A n \in Names : acked'[n] = IF n \in ConflictNames(o) THEN Receipt(o, n) ELSE acked[n]
      BY DEF Replace, Acknowledge
    <2>2. \A n \in ConflictNames(o) :
            /\ Receipt(o, n) \in Contents \cup {None, Unsure}
            /\ Receipt(o, n) # Unsure => files'[n] = Receipt(o, n)
      BY <1>1, <1>2 DEF Receipt, ConflictNames, CheckedIsCurrent, Operations, Kinds
    <2>3. acked' = [n \in Names |-> acked'[n]]
      BY DEF Replace, Acknowledge
    <2>4. QED
      BY <1>2, <2>1, <2>2, <2>3 DEF StoreIInv, StoreTypes, AcknowledgedHolds
  <1>11. QED
    BY <1>2, <1>4, <1>5, <1>6, <1>7, <1>8, <1>9, <1>10 DEF Replace, StoreIInv, StoreTypes

LEMMA ReplaceFailsInv ==
    ASSUME StoreIInv, NEW t \in Threads, op[t] # None, ReplaceFails(t)
    PROVE  StoreIInv'
  BY EndsInv DEF ReplaceFails

(* The lifecycle operations leave the store alone. *)
LEMMA LifecycleInv ==
    ASSUME StoreIInv,
           \/ \E n \in Names \ Builtins : LoadConfig(n)
           \/ StartLocks \/ RestartRefused \/ StartHashes \/ Restart \/ Stop
    PROVE  StoreIInv'
  <1>1. /\ files' = files /\ op' = op /\ acked' = acked /\ edits' = edits
        /\ BuiltinsHaveNoFile' /\ ReservedNamesAreDisjoint' /\ OperationsAreSound'
        /\ AcknowledgedHolds'
    BY DEF LoadConfig, StartLocks, RestartRefused, StartHashes, Restart, Stop, storeVars,
         StoreIInv, BuiltinsHaveNoFile, ReservedNamesAreDisjoint, OperationsAreSound,
         CheckedIsCurrent, ReplaceIsLogged, AcknowledgedHolds
  <1>2. pinned' \in Identities \cup {None} /\ LockIsOnPinned' /\ RunUsesPinned'
    <2>1. ASSUME NEW n \in Names \ Builtins, LoadConfig(n)
          PROVE  pinned' \in Identities \cup {None} /\ LockIsOnPinned' /\ RunUsesPinned'
      BY <2>1 DEF LoadConfig, StoreIInv, StoreTypes, Identities, LockIsOnPinned, RunUsesPinned
    <2>2. CASE StartLocks
      BY <2>2 DEF StartLocks, ActivityLock, StoreIInv, StoreTypes, LockIsOnPinned, RunUsesPinned
    <2>3. CASE StartHashes
      BY <1>1, <2>3 DEF StartHashes, StoreIInv, StoreTypes, LockIsOnPinned, RunUsesPinned
    <2>4. CASE RestartRefused \/ Restart \/ Stop
      BY <2>4 DEF RestartRefused, Restart, Stop, StoreIInv, StoreTypes, LockIsOnPinned,
           RunUsesPinned
    <2>5. QED
      BY <2>1, <2>2, <2>3, <2>4
  <1>3. QED
    BY <1>1, <1>2 DEF StoreIInv, StoreTypes

LEMMA CrashInv ==
    ASSUME StoreIInv, Crash
    PROVE  StoreIInv'
  <1>1. /\ files' = files /\ run' = "none" /\ pinned' = None /\ edits' = edits
        /\ op' = [t \in Threads |-> None]
        /\ \A n \in Names : acked'[n] = acked[n] \/ acked'[n] = Unsure
        /\ acked' = [n \in Names |-> acked'[n]]
    BY DEF Crash
  <1>2. acked' \in [Names -> Contents \cup {None, Unsure}] /\ AcknowledgedHolds'
    BY <1>1 DEF StoreIInv, StoreTypes, AcknowledgedHolds
  <1>3. QED
    BY <1>1, <1>2 DEF StoreIInv, StoreTypes, BuiltinsHaveNoFile, ReservedNamesAreDisjoint,
         OperationsAreSound, LockIsOnPinned, RunUsesPinned

LEMMA ExternalWriteInv ==
    ASSUME StoreIInv, NEW n \in Names \ Builtins, NEW c \in Contents \cup {None},
           ExternalWrite(n, c)
    PROVE  StoreIInv'
  <1>1. /\ files' = [files EXCEPT ![n] = c] /\ lock # n
        /\ acked' = [acked EXCEPT ![n] = Unsure]
        /\ UNCHANGED <<pinned, run, lock, active>>
        /\ op' = [t \in Threads |-> IF op[t] # None /\ n \in ConflictNames(op[t])
                                    THEN [op[t] EXCEPT !.touched = TRUE] ELSE op[t]]
    BY DEF ExternalWrite, runVars, Busy
  <1>2. /\ files' \in [Names -> Contents \cup {None}]
        /\ acked' \in [Names -> Contents \cup {None, Unsure}]
        /\ BuiltinsHaveNoFile' /\ AcknowledgedHolds'
    BY <1>1, StoreConstants DEF StoreIInv, StoreTypes, BuiltinsHaveNoFile, AcknowledgedHolds
  <1>3. \A t \in Threads :
          IF op[t] = None THEN op'[t] = None
          ELSE /\ op'[t] \in Operations /\ op[t] \in Operations
               /\ \A k \in {"kind", "name", "new", "at", "before", "logged"} : op'[t][k] = op[t][k]
               /\ op'[t].touched \/ (n # op[t].name /\ op'[t].touched = op[t].touched)
    <2> SUFFICES ASSUME NEW t \in Threads, op[t] # None
                 PROVE  /\ op'[t] \in Operations /\ op[t] \in Operations
                        /\ \A k \in {"kind", "name", "new", "at", "before", "logged"} :
                             op'[t][k] = op[t][k]
                        /\ op'[t].touched \/ (n # op[t].name /\ op'[t].touched = op[t].touched)
      BY <1>1
    <2>1. op[t] \in Operations
      BY DEF StoreIInv, StoreTypes
    <2>2. CASE n \in ConflictNames(op[t])
      <3>1. op'[t] = [op[t] EXCEPT !.touched = TRUE]
        BY <1>1, <2>2
      <3>2. TRUE \in BOOLEAN
        BY Zenon
      <3>3. QED
        BY <2>1, <3>1, <3>2 DEF Operations
    <2>3. CASE n \notin ConflictNames(op[t])
      BY <1>1, <2>1, <2>3 DEF ConflictNames
    <2>4. QED
      BY <2>2, <2>3
  <1>4. op' \in [Threads -> Operations \cup {None}]
    BY <1>1, <1>3
  <1>5. \A t \in Threads : op[t] # None => /\ op'[t].kind = op[t].kind
                                           /\ op'[t].name = op[t].name
                                           /\ op'[t].new = op[t].new
                                           /\ op'[t].at = op[t].at
                                           /\ op'[t].before = op[t].before
                                           /\ op'[t].logged = op[t].logged
    BY <1>3
  <1>6. ReservedNamesAreDisjoint'
    <2>1. \A t \in Threads : op'[t] # None =>
            op[t] # None /\ ConflictNames(op'[t]) = ConflictNames(op[t])
      BY <1>3, <1>5 DEF ConflictNames
    <2>2. QED
      BY <2>1 DEF StoreIInv, ReservedNamesAreDisjoint
  <1>7. OperationsAreSound'
    <2> SUFFICES ASSUME NEW t \in Threads, op'[t] # None
                 PROVE  (CheckedIsCurrent(op[t]) /\ ReplaceIsLogged(op[t]))'
      BY DEF OperationsAreSound
    <2>1. /\ op[t] # None /\ op[t] \in Operations
          /\ CheckedIsCurrent(op[t]) /\ ReplaceIsLogged(op[t])
      BY <1>3 DEF StoreIInv, OperationsAreSound
    <2>2. op'[t].touched \/ (files'[op[t].name] = files[op[t].name] /\ op'[t].touched = op[t].touched)
      <3>1. op[t].name \in Names
        BY <2>1 DEF Operations
      <3>2. op[t].name # n => files'[op[t].name] = files[op[t].name]
        BY <1>1, <3>1 DEF StoreIInv, StoreTypes
      <3>3. QED
        BY <1>3, <2>1, <3>2
    <2>3. QED
      BY <1>5, <2>1, <2>2 DEF CheckedIsCurrent, ReplaceIsLogged
  <1>8. pinned' \in Identities \cup {None} /\ LockIsOnPinned' /\ RunUsesPinned'
    BY <1>1 DEF StoreIInv, StoreTypes, LockIsOnPinned, RunUsesPinned
  <1>9. QED
    BY <1>2, <1>4, <1>6, <1>7, <1>8 DEF ExternalWrite, StoreIInv, StoreTypes

LEMMA StoreNext == StoreIInv /\ [Next]_vars => StoreIInv'
  <1> SUFFICES ASSUME StoreIInv, [Next]_vars PROVE StoreIInv'
    OBVIOUS
  <1>1. ASSUME NEW t \in Threads,
               \/ \E o \in Requests : Sensible(o) /\ Accept(t, o)
               \/ op[t] # None /\ (Check(t) \/ Stage(t) \/ Audit(t) \/ Replace(t) \/ ReplaceFails(t))
        PROVE  StoreIInv'
    BY <1>1, AcceptInv, CheckInv, StageAuditInv, ReplaceInv, ReplaceFailsInv
  <1>2. CASE \/ \E n \in Names \ Builtins : LoadConfig(n)
             \/ StartLocks \/ RestartRefused \/ StartHashes \/ Restart \/ Stop
    BY <1>2, LifecycleInv
  <1>3. CASE Crash
    BY <1>3, CrashInv
  <1>4. ASSUME NEW n \in Names \ Builtins, NEW c \in Contents \cup {None}, ExternalWrite(n, c)
        PROVE  StoreIInv'
    BY <1>4, ExternalWriteInv
  <1>5. CASE UNCHANGED vars
    BY <1>5 DEF vars, StoreIInv, StoreTypes, BuiltinsHaveNoFile, ReservedNamesAreDisjoint,
         OperationsAreSound, CheckedIsCurrent, ReplaceIsLogged, LockIsOnPinned, RunUsesPinned,
         AcknowledgedHolds
  <1>6. QED
    BY <1>1, <1>2, <1>3, <1>4, <1>5 DEF Next

(* The inductive invariant of the store, its operations and the activity lock. *)
THEOREM StoreInductive == Spec => []StoreIInv
  BY StoreInit, StoreNext, PTL DEF Spec

----------------------------------------------------------------------------
(* The properties. *)

(* A run uses, byte for byte, the configuration that load_config pinned: start() hashes the
   file under the activity lock, and nobody replaces a locked file. *)
THEOREM PinnedRun == Spec => []RunUsesPinned
  <1>1. StoreIInv => RunUsesPinned
    BY DEF StoreIInv
  <1>2. QED
    BY <1>1, StoreInductive, PTL

(* What an operation reported as done is there, until the next operation on that name or a
   write from outside. *)
THEOREM Acknowledged == Spec => []AcknowledgedIsThere
  <1>1. StoreIInv => AcknowledgedIsThere
    BY DEF StoreIInv, AcknowledgedHolds, AcknowledgedIsThere
  <1>2. QED
    BY <1>1, StoreInductive, PTL

(* A custom file never takes the name of a builtin configuration. *)
THEOREM BuiltinNames == Spec => []BuiltinsHaveNoFile
  <1>1. StoreIInv => BuiltinsHaveNoFile
    BY DEF StoreIInv
  <1>2. QED
    BY <1>1, StoreInductive, PTL

(* The store changes a file only after an audit line that tells the content before and
   after as they are, and never makes or renames one to the name of a builtin
   configuration. *)
THEOREM Audited == Spec => AuditFirst
  <1> DEFINE Logged == files' # files => edits' # edits \/ \E t \in Threads : AuditedChange(t)
  <1>1. StoreIInv /\ [Next]_vars => Logged
    <2> SUFFICES ASSUME StoreIInv, [Next]_vars, files' # files, edits' = edits
                 PROVE  \E t \in Threads : AuditedChange(t)
      OBVIOUS
    <2>1. ~\E n \in Names \ Builtins, c \in Contents \cup {None} : ExternalWrite(n, c)
      <3>1. ASSUME NEW n, NEW c, ExternalWrite(n, c) PROVE FALSE
        BY <3>1 DEF ExternalWrite, StoreIInv, StoreTypes
      <3>2. QED
        BY <3>1
    <2>2. PICK t \in Threads : op[t] # None /\ Replace(t)
      BY <2>1 DEF Next, vars, Accept, Check, Stage, Audit, ReplaceFails, LoadConfig, StartLocks,
           RestartRefused, StartHashes, Restart, Stop, Crash, storeVars
    <2> DEFINE o == op[t]
    <2>3. /\ o \in Operations /\ CheckedIsCurrent(o) /\ o.logged = "ok"
          /\ o.at = "replace" /\ files' = After(o)
      BY <2>2 DEF Replace, StoreIInv, StoreTypes, OperationsAreSound, ReplaceIsLogged
    <2>4. \A n \in Builtins : files'[n] = None
      BY StoreNext DEF StoreIInv, BuiltinsHaveNoFile
    <2>5. AuditedChange(t)
      BY <2>2, <2>3, <2>4 DEF AuditedChange, CheckedIsCurrent
    <2>6. QED
      BY <2>5
  <1>2. QED
    BY <1>1, StoreInductive, PTL DEF AuditFirst, Spec
=============================================================================
