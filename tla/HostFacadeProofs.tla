-------------------------- MODULE HostFacadeProofs --------------------------
(***************************************************************************)
(* Proofs about HostFacade for any number of facade processes, commands,   *)
(* crashes and changes of the guest: the inductive invariant HostIInv, and *)
(* from it that the executor never has the scripts of two sequences, and   *)
(* that a 'pass' is told of a guest that nobody else has changed.          *)
(***************************************************************************)
EXTENDS HostFacade, TLAPS

----------------------------------------------------------------------------
(* The inductive invariant. *)

(* Before the matrix was sent; after it was answered; and the whole run. *)
Unsent == {"status", "declare", "identity", "identified", "matrix"}
Answered == {"guest", "post", "write", "complete"}
Finals == {"final", "send", "await"}
Failed == {"unprobed", "unprobed_written"}
Owning == {"again", "create", "run", "probed"} \cup Unsent \cup Answered \cup Failed
Places == {"idle", "look", "target", "reuse", "reused"} \cup Owning \cup Finals

HostTypes ==
    /\ HTypeOK
    /\ at \in [Facades -> Places]
    /\ under \in [Facades -> Nat] /\ scope \in Nat
    /\ guestOk \in [Facades -> BOOLEAN] /\ unsure \in [Facades -> BOOLEAN]
    /\ consistent \in [Facades -> {"yes", "no", "unknown"}]
    /\ doc \in [Facades -> Docs \cup {None}] /\ answer \in [Facades -> {"pass", None}]
    /\ guest \in [run : Nat, ver : Nat, healthy : BOOLEAN]
    /\ late \subseteq [cmd : Commands, of : Statuses]
    /\ touched \in [Commands -> BOOLEAN] /\ sent \in [Commands -> {0, 1}]

(* A facade at work has the lock of its command; one that runs a verification has the
   target's as well. *)
Locked(f) ==
    /\ at[f] = "idle" <=> cmd[f] = None
    /\ at[f] # "idle" => lock[cmd[f]] = f /\ answer[f] = None
    /\ at[f] \in Owning \/ (at[f] \in Finals /\ ~Reusing(f)) => targetLock = f

(* The record of a facade's command is where the facade is. *)
RecordFollows(f) ==
    LET r == Mine(f) IN
    /\ at[f] \in {"look", "target", "again"} => r = None
    /\ at[f] = "create" => r # None /\ r.stage = "partial" /\ ~r.started /\ r.bind = None
    /\ at[f] = "run" => r # None /\ r.stage = "prepared" /\ ~r.started /\ r.bind = None
    /\ at[f] \in {"status", "declare"} => r # None /\ r.stage = "running" /\ ~r.started
    /\ at[f] \in {"identity", "identified", "matrix", "probed"} \cup Answered =>
         r # None /\ r.stage = "running" /\ r.started
    /\ at[f] \in Finals =>
         r # None /\ (r.stage = "completed" \/ (r.stage = "running" /\ r.started))
    /\ at[f] \in Failed => r # None /\ r.stage = "failed" /\ ~r.started
    /\ at[f] \in {"reuse", "reused"} => r # None /\ r.stage = "completed"
    /\ at[f] = "complete" => result[cmd[f]] = doc[f] /\ doc[f] # None
    /\ at[f] = "unprobed_written" => result[cmd[f]] = "error"

(* A matrix is sent once: not before a facade gets there, not without a record. *)
SentFollows(f) ==
    at[f] \in {"create", "run"} \cup Unsent => sent[cmd[f]] = 0

(* Scripts that were answered are not running. *)
AnsweredFollows(f) ==
    /\ at[f] \in {"matrix", "probed"} => Script(f, "identity") \notin remote
    /\ at[f] \in Answered \cup Finals => \A s \in Sequence : s.cmd # cmd[f]

(* The guest's status b is a later one than a. *)
Later(b, a) == b.run > a.run \/ (b.run = a.run /\ b.ver > a.ver)

(* The guest was at s and is now at g; if somebody else changed it since the first reading of
   the command, it is past s. *)
Anchored(g, changed, s) ==
    /\ g = s \/ Later(g, s)
    /\ changed => Later(g, s)

(* What a facade compares with is the guest as its verification left it. *)
Current(f) ==
    LET mayPass == guestOk[f] \/ (Reusing(f) /\ result[cmd[f]] = "pass") IN
    /\ guestOk[f] => at[f] \in {"post", "write", "complete", "reused"} \cup Finals
    /\ at[f] \in {"declare", "identity", "identified", "matrix", "probed", "guest"} =>
         seen[f] # None /\ Anchored(Status(guest), touched[cmd[f]], seen[f])
    /\ at[f] = "post" => seen[f] # None
    /\ at[f] = "post" /\ guestOk[f] =>
         Anchored(Status(guest), touched[cmd[f]], [seen[f] EXCEPT !.ver = @ + 1])
    /\ at[f] \in Finals \cup {"write", "complete"} => seen[f] # None
    /\ at[f] \in Finals \cup {"write", "complete"} /\ mayPass =>
         Anchored(Status(guest), touched[cmd[f]], seen[f])
    /\ at[f] \in {"send", "await"} /\ mayPass => ~unsure[f]
    /\ at[f] \in {"write", "complete"} /\ guestOk[f] /\ consistent[f] = "yes" => ~unsure[f]
    /\ at[f] = "complete" /\ doc[f] = "pass" => guestOk[f] /\ consistent[f] = "yes"
    /\ at[f] = "reused" /\ consistent[f] = "yes" /\ result[cmd[f]] = "pass" => ~unsure[f]

FacadeInv(f) ==
    Locked(f) /\ RecordFollows(f) /\ SentFollows(f) /\ AnsweredFollows(f) /\ Current(f)

(* One record holds the target, and none while the next one is being written. *)
TargetHeldOnce ==
    /\ \A c, d \in Commands : Blocks(c) /\ Blocks(d) => c = d
    /\ \A f \in Facades : at[f] = "create" => \A c \in Commands : ~Blocks(c)

(* A script of a sequence belongs to a record that says so and is not completed. *)
SequenceIsRecorded ==
    \A s \in Sequence : /\ record[s.cmd] # None /\ record[s.cmd].started
                        /\ record[s.cmd].stage \in {"running", "failed"}

(* Nothing was sent for a command without a record. *)
SentIsRecorded == \A c \in Commands : record[c] = None => sent[c] = 0

(* A 'pass' that may be reused is bound to the guest as the verification left it. *)
BindingIsAnchored ==
    \A c \in Commands :
      record[c] # None /\ record[c].stage = "completed" /\ record[c].bind # None
        /\ result[c] = "pass" => Anchored(Status(guest), touched[c], record[c].bind)

Ledger ==
    /\ CompletedHasResult /\ TargetHeldOnce /\ SequenceIsRecorded /\ SentIsRecorded
    /\ BindingIsAnchored

HostIInv ==
    /\ HostTypes /\ Ledger /\ PassIsCurrent
    /\ \A f \in Facades : FacadeInv(f)

----------------------------------------------------------------------------
(* Steps of one facade leave the others alone. *)

(* The guest stays as it is for a command, or is at a later status. *)
GuestMovesOn(c) ==
    \/ Status(guest)' = Status(guest) /\ (touched'[c] => touched[c])
    \/ Later(Status(guest)', Status(guest))

(* A step of f on command c. *)
Alone(f, c) ==
    /\ lock[c] \in {f, None}
    /\ \A g \in Facades \ {f} :
         /\ at'[g] = at[g] /\ cmd'[g] = cmd[g] /\ seen'[g] = seen[g] /\ guestOk'[g] = guestOk[g]
         /\ consistent'[g] = consistent[g] /\ doc'[g] = doc[g] /\ answer'[g] = answer[g]
         /\ unsure'[g] = unsure[g]
    /\ \A d \in Commands \ {c} :
         /\ record'[d] = record[d] /\ result'[d] = result[d] /\ sent'[d] = sent[d]
         /\ lock'[d] = lock[d] \/ lock[d] = f
         /\ GuestMovesOn(d)
    /\ targetLock' = targetLock \/ targetLock \in {f, None}
    /\ \A s \in remote' \ remote : s.cmd = c

(* An anchor holds while the guest moves on. *)
LEMMA AnchorHolds ==
    ASSUME NEW s \in Statuses, NEW a \in Statuses, NEW b \in Statuses, NEW t, NEW u,
           Anchored(a, t, s), (b = a /\ (u => t)) \/ Later(b, a)
    PROVE  Anchored(b, u, s)
  <1>1. CASE b = a /\ (u => t)
    BY <1>1 DEF Anchored
  <1>2. CASE Later(b, a)
    BY <1>2 DEF Anchored, Later, Statuses
  <1>3. QED
    BY <1>1, <1>2

(* A step that touches neither a facade nor what belongs to its command. *)
Untouched(g) ==
    /\ at'[g] = at[g] /\ cmd'[g] = cmd[g] /\ seen'[g] = seen[g] /\ guestOk'[g] = guestOk[g]
    /\ consistent'[g] = consistent[g] /\ doc'[g] = doc[g] /\ answer'[g] = answer[g]
    /\ unsure'[g] = unsure[g]
    /\ at[g] # "idle" =>
         /\ record'[cmd[g]] = record[cmd[g]] /\ result'[cmd[g]] = result[cmd[g]]
         /\ sent'[cmd[g]] = sent[cmd[g]] /\ lock'[cmd[g]] = lock[cmd[g]]
         /\ GuestMovesOn(cmd[g])
         /\ targetLock = g => targetLock' = g
         /\ \A s \in remote' : s.cmd = cmd[g] => s \in remote

LEMMA UntouchedInv ==
    ASSUME HostIInv, HostTypes', NEW g \in Facades, Untouched(g)
    PROVE  FacadeInv(g)'
  <1>1. /\ at'[g] = at[g] /\ cmd'[g] = cmd[g] /\ seen'[g] = seen[g] /\ guestOk'[g] = guestOk[g]
        /\ consistent'[g] = consistent[g] /\ doc'[g] = doc[g] /\ answer'[g] = answer[g]
        /\ unsure'[g] = unsure[g]
    BY DEF Untouched
  <1>2. FacadeInv(g) /\ at[g] \in Places
    BY DEF HostIInv, HostTypes
  <1>3. CASE at[g] = "idle"
    BY <1>1, <1>2, <1>3 DEF FacadeInv, Locked, RecordFollows, SentFollows, AnsweredFollows,
         Current, Owning, Unsent, Answered, Finals, Failed
  <1>4. CASE at[g] # "idle"
    <2>1. /\ record'[cmd[g]] = record[cmd[g]] /\ result'[cmd[g]] = result[cmd[g]]
          /\ sent'[cmd[g]] = sent[cmd[g]] /\ lock'[cmd[g]] = lock[cmd[g]]
          /\ GuestMovesOn(cmd[g]) /\ (targetLock = g => targetLock' = g)
          /\ \A s \in remote' : s.cmd = cmd[g] => s \in remote
      BY <1>4 DEF Untouched
    <2>2. Locked(g)'
      BY <1>1, <1>2, <1>4, <2>1 DEF FacadeInv, Locked, Reusing, Mine
    <2>3. RecordFollows(g)' /\ SentFollows(g)'
      BY <1>1, <1>2, <2>1 DEF FacadeInv, RecordFollows, SentFollows, Mine
    <2>4. AnsweredFollows(g)'
      BY <1>1, <1>2, <2>1 DEF FacadeInv, AnsweredFollows, Script, Sequence
    <2>5. ASSUME NEW x \in Statuses, Anchored(Status(guest), touched[cmd[g]], x)
          PROVE  Anchored(Status(guest)', touched'[cmd[g]], x)
      <3>1. Status(guest) \in Statuses /\ Status(guest)' \in Statuses
        BY DEF HostIInv, HostTypes, Status, Statuses
      <3>2. QED
        BY <2>1, <2>5, <3>1, AnchorHolds DEF GuestMovesOn
    <2>6. seen[g] # None => seen[g] \in Statuses /\ [seen[g] EXCEPT !.ver = @ + 1] \in Statuses
      <3>1. seen[g] \in Statuses \cup {None}
        BY DEF HostIInv, HostTypes, HTypeOK
      <3>2. \A x \in Statuses : [x EXCEPT !.ver = @ + 1] \in Statuses
        BY DEF Statuses
      <3>3. QED
        BY <3>1, <3>2
    <2>7. Current(g)'
      BY <1>1, <1>2, <2>1, <2>5, <2>6 DEF FacadeInv, Current, Reusing, Mine
    <2>8. QED
      BY <2>2, <2>3, <2>4, <2>7 DEF FacadeInv
  <1>5. QED
    BY <1>3, <1>4

LEMMA OthersKeep ==
    ASSUME HostIInv, HostTypes', NEW f \in Facades, NEW c \in Commands, Alone(f, c)
    PROVE  \A g \in Facades \ {f} : FacadeInv(g)'
  <1> SUFFICES ASSUME NEW g \in Facades \ {f} PROVE FacadeInv(g)'
    OBVIOUS
  <1>1. CASE at[g] = "idle"
    <2>1. Untouched(g)
      BY <1>1 DEF Alone, Untouched
    <2>2. QED
      BY <2>1, UntouchedInv
  <1>2. CASE at[g] # "idle"
    <2>1. cmd[g] \in Commands /\ lock[cmd[g]] = g /\ g # f /\ g # None
      BY <1>2, HostConstants DEF HostIInv, HostTypes, HTypeOK, FacadeInv, Locked
    <2>2. cmd[g] \in Commands \ {c}
      BY <2>1 DEF Alone
    <2>3. Untouched(g)
      BY <2>1, <2>2 DEF Alone, Untouched
    <2>4. QED
      BY <2>3, UntouchedInv
  <1>3. QED
    BY <1>1, <1>2

(* A step of one facade keeps the invariant if it keeps the ledger's and the facade's own. *)
LEMMA OwnStep ==
    ASSUME HostIInv, HostTypes', NEW f \in Facades, NEW c \in Commands, Alone(f, c), Ledger',
           FacadeInv(f)', answer'[f] = "pass" => ~unsure'[f]
    PROVE  HostIInv'
  <1>1. \A g \in Facades : FacadeInv(g)'
    BY OthersKeep
  <1>2. PassIsCurrent'
    BY DEF HostIInv, PassIsCurrent, Alone
  <1>3. QED
    BY <1>1, <1>2 DEF HostIInv

(* A step that writes neither file keeps what the ledger's invariant says; scripts of a
   sequence may be sent for a record that says so. *)
LEMMA LedgerKept ==
    ASSUME HostIInv, HostTypes', UNCHANGED <<record, result>>,
           \A c \in Commands : GuestMovesOn(c),
           \A c \in Commands : record[c] = None => sent'[c] = sent[c],
           \A g \in Facades : at'[g] = "create" => at[g] = "create",
           \A s \in remote' \ remote :
             \/ s.kind = "final"
             \/ /\ record[s.cmd] # None /\ record[s.cmd].started
                /\ record[s.cmd].stage \in {"running", "failed"}
    PROVE  Ledger'
  <1>1. CompletedHasResult' /\ TargetHeldOnce' /\ SentIsRecorded'
    BY DEF HostIInv, Ledger, CompletedHasResult, TargetHeldOnce, SentIsRecorded, Blocks
  <1>2. SequenceIsRecorded'
    BY DEF HostIInv, Ledger, SequenceIsRecorded, Sequence
  <1>3. BindingIsAnchored'
    <2> SUFFICES ASSUME NEW c \in Commands, record[c] # None, record[c].stage = "completed",
                        record[c].bind # None, result[c] = "pass"
                 PROVE  Anchored(Status(guest)', touched'[c], record[c].bind)
      BY DEF BindingIsAnchored
    <2>1. Anchored(Status(guest), touched[c], record[c].bind) /\ GuestMovesOn(c)
      BY DEF HostIInv, Ledger, BindingIsAnchored
    <2>2. /\ Status(guest) \in Statuses /\ Status(guest)' \in Statuses
          /\ record[c].bind \in Statuses
      BY DEF HostIInv, HostTypes, HTypeOK, Records, Status, Statuses
    <2>3. QED
      BY <2>1, <2>2, AnchorHolds DEF GuestMovesOn
  <1>4. QED
    BY <1>1, <1>2, <1>3 DEF Ledger

(* A facade that has the target writes the record r of its command. *)
SoundWrite(f, c, r) ==
    /\ r # None /\ r.stage \notin {"partial", "completed"} => Blocks(c) \/ at[f] = "create"
    /\ \A s \in Sequence : s.cmd = c => /\ r # None /\ r.started
                                        /\ r.stage \in {"running", "failed"}
    /\ r = None => sent[c] = 0
    /\ r # None /\ r.stage = "completed" =>
         /\ result[c] # None
         /\ r.bind # None /\ result[c] = "pass" => Anchored(Status(guest), touched[c], r.bind)

LEMMA LedgerWritten ==
    ASSUME HostIInv, HostTypes', NEW f \in Facades, at[f] \in Owning, NEW c \in Commands,
           c = cmd[f], SoundWrite(f, c, record'[c]),
           \A d \in Commands \ {c} : record'[d] = record[d],
           UNCHANGED <<result, remote, guest, touched, sent>>,
           \A g \in Facades \ {f} : at'[g] = at[g],
           at'[f] = "create" => /\ record'[c] # None /\ record'[c].stage = "partial"
                                /\ \A d \in Commands : ~Blocks(d)
    PROVE  Ledger'
  <1>1. \A d \in Commands \ {c} : record'[d] = record[d]
    OBVIOUS
  <1>2. targetLock = f /\ f # None
    BY HostConstants DEF HostIInv, FacadeInv, Locked
  <1>3. /\ \A d \in Commands \ {c} : Blocks(d)' <=> Blocks(d)
        /\ Blocks(c)' => Blocks(c) \/ at[f] = "create"
        /\ at'[f] = "create" => \A d \in Commands : ~Blocks(d)'
    BY <1>1 DEF Blocks, SoundWrite
  <1>4. CompletedHasResult' /\ SentIsRecorded'
    BY <1>1 DEF HostIInv, Ledger, CompletedHasResult, SentIsRecorded, SoundWrite
  <1>5. TargetHeldOnce'
    <2>1. ASSUME NEW d \in Commands, NEW e \in Commands, Blocks(d)', Blocks(e)'
          PROVE  d = e
      BY <1>3, <2>1 DEF HostIInv, Ledger, TargetHeldOnce
    <2>2. ASSUME NEW g \in Facades, at'[g] = "create", NEW d \in Commands
          PROVE  ~Blocks(d)'
      <3>1. CASE g = f
        BY <1>3, <2>2, <3>1
      <3>2. CASE g # f
        <4>1. at[g] = "create" /\ targetLock = g
          BY <2>2, <3>2 DEF HostIInv, FacadeInv, Locked, Owning
        <4>2. QED
          BY <1>2, <3>2, <4>1
      <3>3. QED
        BY <3>1, <3>2
    <2>3. QED
      BY <2>1, <2>2 DEF TargetHeldOnce
  <1>6. SequenceIsRecorded'
    <2> SUFFICES ASSUME NEW s \in Sequence
                 PROVE  /\ record'[s.cmd] # None /\ record'[s.cmd].started
                        /\ record'[s.cmd].stage \in {"running", "failed"}
      BY DEF SequenceIsRecorded, Sequence
    <2>1. s.cmd \in Commands
      BY DEF Sequence, HostIInv, HostTypes, HTypeOK
    <2>2. QED
      BY <1>1, <2>1 DEF HostIInv, Ledger, SequenceIsRecorded, SoundWrite
  <1>7. BindingIsAnchored'
    BY <1>1 DEF HostIInv, Ledger, BindingIsAnchored, SoundWrite
  <1>8. QED
    BY <1>4, <1>5, <1>6, <1>7 DEF Ledger

----------------------------------------------------------------------------
(* The end of a call. *)

LEMMA ReturnFacts ==
    ASSUME HostTypes, NEW f \in Facades, NEW v, Return(f, v)
    PROVE  /\ at' \in [Facades -> Places] /\ cmd' \in [Facades -> Commands \cup {None}]
           /\ under' \in [Facades -> Nat] /\ seen' \in [Facades -> Statuses \cup {None}]
           /\ guestOk' \in [Facades -> BOOLEAN] /\ unsure' \in [Facades -> BOOLEAN]
           /\ consistent' \in [Facades -> {"yes", "no", "unknown"}]
           /\ doc' \in [Facades -> Docs \cup {None}] /\ answer' \in [Facades -> {"pass", None}]
           /\ lock' \in [Commands -> Facades \cup {None}] /\ targetLock' \in Facades \cup {None}
           /\ at'[f] = "idle" /\ cmd'[f] = None /\ ~guestOk'[f]
           /\ answer'[f] = "pass" /\ unsure'[f] => v = "pass" /\ unsure[f]
           /\ \A g \in Facades \ {f} :
                /\ at'[g] = at[g] /\ cmd'[g] = cmd[g] /\ seen'[g] = seen[g]
                /\ guestOk'[g] = guestOk[g] /\ consistent'[g] = consistent[g]
                /\ doc'[g] = doc[g] /\ answer'[g] = answer[g] /\ unsure'[g] = unsure[g]
           /\ \A d \in Commands : lock'[d] = lock[d] \/ lock[d] = f
           /\ targetLock' = targetLock \/ targetLock = f
  <1>1. Told(v) \in {"pass", None}
    BY DEF Told
  <1>2. /\ at' \in [Facades -> Places] /\ cmd' \in [Facades -> Commands \cup {None}]
        /\ under' \in [Facades -> Nat] /\ seen' \in [Facades -> Statuses \cup {None}]
        /\ consistent' \in [Facades -> {"yes", "no", "unknown"}]
        /\ doc' \in [Facades -> Docs \cup {None}] /\ answer' \in [Facades -> {"pass", None}]
    BY <1>1 DEF HostTypes, HTypeOK, Return, Places
  <1>3. guestOk' \in [Facades -> BOOLEAN] /\ unsure' \in [Facades -> BOOLEAN]
    BY DEF HostTypes, Return
  <1>4. lock' \in [Commands -> Facades \cup {None}] /\ targetLock' \in Facades \cup {None}
    BY DEF HostTypes, HTypeOK, Return
  <1>5. /\ at'[f] = "idle" /\ cmd'[f] = None /\ ~guestOk'[f]
        /\ answer'[f] = "pass" /\ unsure'[f] => v = "pass" /\ unsure[f]
    BY DEF HostTypes, HTypeOK, Return
  <1>6. QED
    BY <1>2, <1>3, <1>4, <1>5 DEF HostTypes, HTypeOK, Return

(* Nothing is asked of an idle facade. *)
LEMMA IdleInv ==
    ASSUME NEW f \in Facades, at'[f] = "idle", cmd'[f] = None, ~guestOk'[f]
    PROVE  FacadeInv(f)'
  BY DEF FacadeInv, Locked, RecordFollows, SentFollows, AnsweredFollows, Current, Owning, Unsent,
     Answered, Finals, Failed

(* A call that ends without writing. *)
LEMMA ReturnInv ==
    ASSUME HostIInv, NEW f \in Facades, at[f] # "idle", NEW v, Return(f, v),
           v = "pass" => ~unsure[f], UNCHANGED <<disk, remote, world, sent>>
    PROVE  HostIInv'
  <1> DEFINE c == cmd[f]
  <1>1. c \in Commands /\ lock[c] = f
    BY DEF HostIInv, HostTypes, HTypeOK, FacadeInv, Locked
  <1>2. HostTypes'
    BY ReturnFacts DEF HostIInv, HostTypes, HTypeOK, disk, world
  <1>3. /\ at'[f] = "idle" /\ cmd'[f] = None /\ ~guestOk'[f]
        /\ answer'[f] = "pass" => ~unsure'[f]
    BY ReturnFacts DEF HostIInv
  <1>4. Alone(f, c)
    BY <1>1, ReturnFacts DEF HostIInv, Alone, GuestMovesOn, disk, world
  <1>5. Ledger'
    BY <1>2, <1>3, ReturnFacts, LedgerKept DEF HostIInv, GuestMovesOn, disk, world
  <1>6. FacadeInv(f)'
    BY <1>3, IdleInv
  <1>7. QED
    BY <1>1, <1>2, <1>3, <1>4, <1>5, <1>6, OwnStep

(* A call that ends with a last write to its record. *)
LEMMA ReturnWritesInv ==
    ASSUME HostIInv, NEW f \in Facades, at[f] \in Owning, NEW c \in Commands, c = cmd[f],
           NEW v, Return(f, v), v = "pass" => ~unsure[f],
           UNCHANGED <<result, remote, world, sent>>,
           record' \in [Commands -> Records \cup {None}],
           \A d \in Commands \ {c} : record'[d] = record[d],
           SoundWrite(f, c, record'[c])
    PROVE  HostIInv'
  <1>1. at[f] # "idle" /\ lock[c] = f
    BY DEF HostIInv, FacadeInv, Locked, Owning, Unsent, Answered, Failed
  <1>2. HostTypes'
    BY ReturnFacts DEF HostIInv, HostTypes, HTypeOK, world
  <1>3. /\ at'[f] = "idle" /\ cmd'[f] = None /\ ~guestOk'[f]
        /\ answer'[f] = "pass" => ~unsure'[f]
    BY ReturnFacts DEF HostIInv
  <1>4. Alone(f, c)
    BY <1>1, ReturnFacts DEF HostIInv, Alone, GuestMovesOn, world
  <1>5. Ledger'
    <2>1. UNCHANGED <<result, remote, guest, touched, sent>>
      BY DEF world
    <2>2. \A g \in Facades \ {f} : at'[g] = at[g]
      BY <1>4 DEF Alone
    <2>3. QED
      BY <1>2, <1>3, <2>1, <2>2, LedgerWritten
  <1>6. FacadeInv(f)'
    BY <1>3, IdleInv
  <1>7. QED
    BY <1>2, <1>3, <1>4, <1>5, <1>6, OwnStep

----------------------------------------------------------------------------
(* HostIInv holds initially and every action preserves it. *)

LEMMA HostInit == Init => HostIInv
  <1> SUFFICES ASSUME Init PROVE HostIInv
    OBVIOUS
  <1>1. HostTypes
    BY DEF Init, HostTypes, HTypeOK, Places, Statuses
  <1>2. Ledger /\ PassIsCurrent
    BY HostConstants DEF Init, Ledger, CompletedHasResult, TargetHeldOnce, SequenceIsRecorded,
         SentIsRecorded, BindingIsAnchored, PassIsCurrent, Blocks, Sequence, Docs
  <1>3. \A f \in Facades : FacadeInv(f)
    BY DEF Init, FacadeInv, Locked, RecordFollows, SentFollows, AnsweredFollows, Current, Owning,
         Unsent, Answered, Finals, Failed
  <1>4. QED
    BY <1>1, <1>2, <1>3 DEF HostIInv

LEMMA VerifyInv ==
    ASSUME HostIInv, NEW f \in Facades, NEW c \in Commands, Verify(f, c)
    PROVE  HostIInv'
  <1>1. /\ at[f] = "idle" /\ cmd[f] = None /\ ~guestOk[f]
        /\ UNCHANGED <<disk, targetLock, seen, guestOk, consistent, doc, remote, world, sent>>
        /\ unsure' = [unsure EXCEPT ![f] = FALSE]
    BY DEF Verify, HostIInv, FacadeInv, Locked, Current, Finals
  <1>2. CASE /\ \E v \in {"busy", "error", "pending"} : answer' = [answer EXCEPT ![f] = Told(v)]
             /\ UNCHANGED <<at, cmd, under, lock>>
    <2>1. HostTypes'
      BY <1>1, <1>2 DEF HostIInv, HostTypes, HTypeOK, Told, disk, world
    <2>2. Ledger'
      BY <1>1, <1>2, <2>1, LedgerKept DEF HostIInv, GuestMovesOn, disk, world
    <2>3. PassIsCurrent'
      BY <1>1, <1>2 DEF HostIInv, HostTypes, PassIsCurrent, Told
    <2>4. ASSUME NEW g \in Facades PROVE FacadeInv(g)'
      <3>1. CASE g = f
        BY <1>1, <1>2, <3>1, IdleInv
      <3>2. CASE g # f
        <4>1. FacadeInv(g) /\ answer'[g] = answer[g] /\ unsure'[g] = unsure[g]
          BY <1>1, <1>2, <3>2 DEF HostIInv, HostTypes
        <4>2. QED
          BY <1>1, <1>2, <4>1 DEF FacadeInv, Locked, RecordFollows, SentFollows, AnsweredFollows,
               Current, Mine, Reusing, Script, Sequence, disk, world
      <3>3. QED
        BY <3>1, <3>2
    <2>5. QED
      BY <2>1, <2>2, <2>3, <2>4 DEF HostIInv
  <1>3. CASE /\ lock[c] = None
             /\ record[c] # None => record[c].stage = "completed" /\ record[c].scope = scope
             /\ lock' = [lock EXCEPT ![c] = f] /\ cmd' = [cmd EXCEPT ![f] = c]
             /\ under' = [under EXCEPT ![f] = scope] /\ answer' = [answer EXCEPT ![f] = None]
             /\ Goto(f, IF record[c] = None THEN "look" ELSE "reuse")
    <2>1. HostTypes'
      BY <1>1, <1>3 DEF HostIInv, HostTypes, HTypeOK, Places, Goto, disk, world
    <2>2. Alone(f, c)
      BY <1>1, <1>3 DEF HostIInv, HostTypes, HTypeOK, Alone, GuestMovesOn, Goto, disk, world
    <2>3. /\ at'[f] = IF record[c] = None THEN "look" ELSE "reuse"
          /\ cmd'[f] = c /\ lock'[c] = f /\ answer'[f] = None /\ c # None
          /\ \A g \in Facades \ {f} : at'[g] = at[g]
      BY <1>3, HostConstants DEF HostIInv, HostTypes, HTypeOK, Goto
    <2>4. Ledger'
      BY <1>1, <2>1, <2>3, LedgerKept DEF HostIInv, GuestMovesOn, disk, world
    <2>5. FacadeInv(f)'
      BY <1>1, <1>3, <2>3 DEF FacadeInv, Locked, RecordFollows, SentFollows, AnsweredFollows, Current,
           Mine, Owning, Unsent, Answered, Finals, Failed, disk
    <2>6. QED
      BY <2>1, <2>2, <2>3, <2>4, <2>5, OwnStep, HostConstants DEF Docs
  <1>4. QED
    BY <1>2, <1>3 DEF Verify

(* A facade goes on without writing to the ledger. *)
LEMMA OnwardInv ==
    ASSUME HostIInv, HostTypes', NEW f \in Facades, at[f] # "idle", at'[f] # "create",
           UNCHANGED <<record, result, lock, cmd, answer>>,
           targetLock' = targetLock \/ targetLock = None,
           \A g \in Facades \ {f} :
             /\ at'[g] = at[g] /\ seen'[g] = seen[g] /\ guestOk'[g] = guestOk[g]
             /\ consistent'[g] = consistent[g] /\ doc'[g] = doc[g] /\ unsure'[g] = unsure[g],
           \A d \in Commands : GuestMovesOn(d),
           \A d \in Commands : sent'[d] = sent[d] \/ (d = cmd[f] /\ record[d] # None),
           \A s \in remote' \ remote :
             /\ s.cmd = cmd[f]
             /\ \/ s.kind = "final"
                \/ /\ record[s.cmd] # None /\ record[s.cmd].started
                   /\ record[s.cmd].stage \in {"running", "failed"},
           FacadeInv(f)'
    PROVE  HostIInv'
  <1> DEFINE c == cmd[f]
  <1>1. c \in Commands /\ lock[c] = f /\ answer'[f] # "pass"
    BY HostConstants DEF HostIInv, HostTypes, HTypeOK, FacadeInv, Locked, Docs
  <1>2. Alone(f, c)
    BY <1>1 DEF Alone
  <1>3. Ledger'
    BY LedgerKept
  <1>4. QED
    BY <1>1, <1>2, <1>3, OwnStep

(* A facade that has the target writes its record and goes on. *)
LEMMA WritesInv ==
    ASSUME HostIInv, HostTypes', NEW f \in Facades, at[f] \in Owning, NEW c \in Commands,
           c = cmd[f], UNCHANGED <<result, locks, local, answer, remote, world, sent>>,
           \A g \in Facades \ {f} : at'[g] = at[g],
           \A d \in Commands \ {c} : record'[d] = record[d],
           SoundWrite(f, c, record'[c]),
           at'[f] = "create" => /\ record'[c] # None /\ record'[c].stage = "partial"
                                /\ \A d \in Commands : ~Blocks(d),
           FacadeInv(f)'
    PROVE  HostIInv'
  <1>1. lock[c] = f /\ answer'[f] # "pass"
    BY HostConstants DEF HostIInv, FacadeInv, Locked, Docs, Owning, Unsent, Answered, Failed
  <1>2. Alone(f, c)
    BY <1>1 DEF Alone, GuestMovesOn, locks, local, world
  <1>3. Ledger'
    <2>1. UNCHANGED <<result, remote, guest, touched, sent>>
      BY DEF world
    <2>2. QED
      BY <2>1, LedgerWritten
  <1>4. QED
    BY <1>1, <1>2, <1>3, OwnStep

LEMMA LookInv ==
    ASSUME HostIInv, NEW f \in Facades, Look(f)
    PROVE  HostIInv'
  <1>1. CASE \E c \in Commands : Blocks(c)
    BY <1>1, ReturnInv DEF Look
  <1>2. CASE ~\E c \in Commands : Blocks(c)
    <2>1. /\ at[f] = "look" /\ Goto(f, "target")
          /\ UNCHANGED <<disk, locks, local, answer, remote, world, sent>>
      BY <1>2 DEF Look
    <2>2. HostTypes'
      BY <2>1 DEF HostIInv, HostTypes, HTypeOK, Places, Goto, disk, locks, local, world
    <2>3. at'[f] = "target" /\ \A g \in Facades \ {f} : at'[g] = at[g]
      BY <2>1 DEF HostIInv, HostTypes, Goto
    <2>4. FacadeInv(f)'
      BY <2>1, <2>3 DEF HostIInv, FacadeInv, Locked, RecordFollows, SentFollows, AnsweredFollows,
           Current, Mine, Owning, Unsent, Answered, Finals, Failed, disk, locks, local
    <2>5. QED
      BY <2>1, <2>2, <2>3, <2>4, OnwardInv DEF GuestMovesOn, disk, locks, local, world
  <1>3. QED
    BY <1>1, <1>2

LEMMA LockTargetInv ==
    ASSUME HostIInv, NEW f \in Facades, LockTarget(f)
    PROVE  HostIInv'
  <1>1. CASE targetLock # None
    BY <1>1, ReturnInv DEF LockTarget
  <1>2. CASE targetLock = None
    <2>1. /\ at[f] = "target" /\ targetLock' = f /\ Goto(f, "again")
          /\ UNCHANGED <<disk, lock, local, answer, remote, world, sent>>
      BY <1>2 DEF LockTarget
    <2>2. HostTypes'
      BY <2>1 DEF HostIInv, HostTypes, HTypeOK, Places, Owning, Goto, disk, local, world
    <2>3. at'[f] = "again" /\ \A g \in Facades \ {f} : at'[g] = at[g]
      BY <2>1 DEF HostIInv, HostTypes, Goto
    <2>4. FacadeInv(f)'
      BY <2>1, <2>3 DEF HostIInv, FacadeInv, Locked, RecordFollows, SentFollows, AnsweredFollows,
           Current, Mine, Owning, Unsent, Answered, Finals, Failed, disk, local
    <2>5. QED
      BY <1>2, <2>1, <2>2, <2>3, <2>4, OnwardInv DEF GuestMovesOn, disk, local, world
  <1>3. QED
    BY <1>1, <1>2

(* What is known of the command and the record of a facade that runs a verification. *)
LEMMA OwnFacts ==
    ASSUME HostIInv, NEW f \in Facades, at[f] \in Owning
    PROVE  /\ cmd[f] \in Commands /\ at[f] # "idle" /\ FacadeInv(f) /\ targetLock = f
           /\ at[f] # "again" => record[cmd[f]] \in Records /\ record[cmd[f]] # None
           /\ at[f] \notin {"again", "create"} => Blocks(cmd[f])
  <1>1. cmd[f] \in Commands /\ at[f] # "idle" /\ FacadeInv(f) /\ targetLock = f
    BY DEF HostIInv, HostTypes, HTypeOK, FacadeInv, Locked, Owning, Unsent, Answered, Failed
  <1>2. at[f] # "again" => record[cmd[f]] # None
    BY <1>1 DEF FacadeInv, RecordFollows, Mine, Owning, Unsent, Answered, Failed
  <1>3. at[f] \notin {"again", "create"} =>
          record[cmd[f]].stage \in {"prepared", "running", "failed"}
    BY <1>1 DEF FacadeInv, RecordFollows, Mine, Owning, Unsent, Answered, Failed
  <1>4. QED
    BY <1>1, <1>2, <1>3 DEF HostIInv, HostTypes, HTypeOK, Blocks

(* Without remote code in the record the executor has no script of the command. *)
LEMMA NoScripts ==
    ASSUME HostIInv, NEW c \in Commands, record[c] = None \/ ~record[c].started
    PROVE  \A s \in Sequence : s.cmd # c
  BY DEF HostIInv, Ledger, SequenceIsRecorded

LEMMA LookAgainInv ==
    ASSUME HostIInv, NEW f \in Facades, LookAgain(f)
    PROVE  HostIInv'
  <1>1. at[f] = "again" /\ at[f] \in Owning
    BY DEF LookAgain, Owning
  <1>2. CASE \E c \in Commands : Blocks(c)
    BY <1>1, <1>2, ReturnInv DEF LookAgain, disk
  <1>3. CASE ~\E c \in Commands : Blocks(c)
    <2> DEFINE c == cmd[f]
               r == Record("partial", FALSE, under[f], None)
    <2>1. /\ Goto(f, "create") /\ record' = [record EXCEPT ![c] = r]
          /\ UNCHANGED <<result, locks, local, answer, remote, world, sent>>
      BY <1>3 DEF LookAgain
    <2>2. c \in Commands /\ FacadeInv(f) /\ record[c] = None
      BY <1>1, OwnFacts DEF FacadeInv, RecordFollows, Mine
    <2>3. r \in Records /\ r.stage = "partial" /\ r.started = FALSE /\ r.bind = None
      BY DEF Record, Records, Stages, HostIInv, HostTypes
    <2>4. /\ at'[f] = "create" /\ \A g \in Facades \ {f} : at'[g] = at[g]
          /\ record'[c] = r /\ \A d \in Commands \ {c} : record'[d] = record[d]
          /\ record' \in [Commands -> Records \cup {None}]
      BY <2>1, <2>2, <2>3 DEF HostIInv, HostTypes, HTypeOK, Goto
    <2>5. r # None
      BY <2>3, HostConstants
    <2> HIDE DEF r
    <2>6. HostTypes'
      BY <2>1, <2>4 DEF HostIInv, HostTypes, HTypeOK, Places, Owning, Goto, locks, local, world
    <2>7. SoundWrite(f, c, record'[c])
      BY <2>2, <2>3, <2>4, <2>5, NoScripts DEF SoundWrite
    <2>8. sent[c] = 0
      BY <2>2 DEF HostIInv, Ledger, SentIsRecorded
    <2>9. FacadeInv(f)'
      BY <1>1, <2>1, <2>2, <2>3, <2>4, <2>5, <2>8 DEF FacadeInv, Locked, RecordFollows, SentFollows,
           AnsweredFollows, Current, Mine, Owning, Unsent, Answered, Finals, Failed, locks, local
    <2>10. QED
      BY <1>1, <1>3, <2>1, <2>2, <2>3, <2>4, <2>5, <2>6, <2>7, <2>9, WritesInv
  <1>4. QED
    BY <1>2, <1>3

LEMMA CreateInv ==
    ASSUME HostIInv, NEW f \in Facades, Create(f)
    PROVE  HostIInv'
  <1> DEFINE c == cmd[f]
  <1>1. at[f] = "create" /\ at[f] \in Owning
    BY DEF Create, Owning
  <1>2. /\ c \in Commands /\ FacadeInv(f) /\ record[c] \in Records /\ record[c] # None
        /\ ~record[c].started /\ record[c].bind = None /\ sent[c] = 0
        /\ \A s \in Sequence : s.cmd # c
    BY <1>1, OwnFacts, NoScripts DEF FacadeInv, RecordFollows, SentFollows, Mine
  <1>3. CASE /\ record' = [record EXCEPT ![c].stage = "prepared"] /\ Goto(f, "run")
             /\ UNCHANGED <<result, locks, local, answer, remote, world, sent>>
    <2> DEFINE r == [record[c] EXCEPT !.stage = "prepared"]
    <2>1. r \in Records /\ r.stage = "prepared" /\ r.started = record[c].started /\ r.bind = None
      BY <1>2 DEF Records, Stages
    <2>2. /\ at'[f] = "run" /\ \A g \in Facades \ {f} : at'[g] = at[g]
          /\ record'[c] = r /\ \A d \in Commands \ {c} : record'[d] = record[d]
          /\ record' \in [Commands -> Records \cup {None}]
      BY <1>2, <1>3, <2>1 DEF HostIInv, HostTypes, HTypeOK, Goto
    <2>3. r # None
      BY <2>1, HostConstants
    <2> HIDE DEF r
    <2>4. HostTypes'
      BY <1>3, <2>2 DEF HostIInv, HostTypes, HTypeOK, Places, Owning, Goto, locks, local, world
    <2>5. SoundWrite(f, c, record'[c])
      BY <1>1, <1>2, <2>1, <2>2, <2>3 DEF SoundWrite
    <2>6. FacadeInv(f)'
      BY <1>1, <1>2, <1>3, <2>1, <2>2, <2>3 DEF FacadeInv, Locked, RecordFollows, SentFollows,
           AnsweredFollows, Current, Mine, Owning, Unsent, Answered, Finals, Failed, locks, local
    <2>7. QED
      BY <1>1, <1>2, <1>3, <2>2, <2>4, <2>5, <2>6, WritesInv
  <1>4. CASE /\ record' = [record EXCEPT ![c] = None] /\ Return(f, "error")
             /\ UNCHANGED <<result, remote, world, sent>>
    <2>1. /\ record'[c] = None /\ \A d \in Commands \ {c} : record'[d] = record[d]
          /\ record' \in [Commands -> Records \cup {None}]
      BY <1>2, <1>4 DEF HostIInv, HostTypes, HTypeOK
    <2>2. SoundWrite(f, c, record'[c])
      BY <1>2, <2>1 DEF SoundWrite
    <2>3. QED
      BY <1>1, <1>2, <1>4, <2>1, <2>2, ReturnWritesInv
  <1>5. QED
    BY <1>3, <1>4 DEF Create

LEMMA RunInv ==
    ASSUME HostIInv, NEW f \in Facades, Run(f)
    PROVE  HostIInv'
  <1> DEFINE c == cmd[f]
             r == [record[c] EXCEPT !.stage = "running"]
  <1>1. /\ at[f] = "run" /\ at[f] \in Owning /\ Goto(f, "status")
        /\ record' = [record EXCEPT ![c].stage = "running"]
        /\ UNCHANGED <<result, locks, local, answer, remote, world, sent>>
    BY DEF Run, Owning
  <1>2. /\ c \in Commands /\ FacadeInv(f) /\ record[c] \in Records /\ record[c] # None
        /\ ~record[c].started /\ sent[c] = 0 /\ Blocks(c)
        /\ \A s \in Sequence : s.cmd # c
    BY <1>1, OwnFacts, NoScripts DEF FacadeInv, RecordFollows, SentFollows, Mine
  <1>3. r \in Records /\ r.stage = "running" /\ r.started = record[c].started
    BY <1>2 DEF Records, Stages
  <1>4. /\ at'[f] = "status" /\ \A g \in Facades \ {f} : at'[g] = at[g]
        /\ record'[c] = r /\ \A d \in Commands \ {c} : record'[d] = record[d]
        /\ record' \in [Commands -> Records \cup {None}]
    BY <1>1, <1>2, <1>3 DEF HostIInv, HostTypes, HTypeOK, Goto
  <1>5. r # None
    BY <1>3, HostConstants
  <1> HIDE DEF r
  <1>6. HostTypes'
    BY <1>1, <1>4 DEF HostIInv, HostTypes, HTypeOK, Places, Owning, Unsent, Goto, locks, local, world
  <1>7. SoundWrite(f, c, record'[c])
    BY <1>2, <1>3, <1>4, <1>5 DEF SoundWrite
  <1>8. FacadeInv(f)'
    BY <1>1, <1>2, <1>3, <1>4, <1>5 DEF FacadeInv, Locked, RecordFollows, SentFollows,
         AnsweredFollows, Current, Mine, Owning, Unsent, Answered, Finals, Failed, locks, local
  <1>9. QED
    BY <1>1, <1>2, <1>4, <1>6, <1>7, <1>8, WritesInv

LEMMA DeclareInv ==
    ASSUME HostIInv, NEW f \in Facades, Declare(f)
    PROVE  HostIInv'
  <1> DEFINE c == cmd[f]
             r == [record[c] EXCEPT !.started = TRUE]
  <1>1. /\ at[f] = "declare" /\ at[f] \in Owning /\ Goto(f, "identity")
        /\ record' = [record EXCEPT ![c].started = TRUE]
        /\ UNCHANGED <<result, locks, local, answer, remote, world, sent>>
    BY DEF Declare, Onward, Owning, Unsent, local
  <1>2. /\ c \in Commands /\ FacadeInv(f) /\ record[c] \in Records /\ Blocks(c)
        /\ record[c].stage = "running"
    BY <1>1, OwnFacts DEF FacadeInv, RecordFollows, Mine
  <1>3. r \in Records /\ r.stage = "running" /\ r.started
    BY <1>2 DEF Records
  <1>4. /\ at'[f] = "identity" /\ \A g \in Facades \ {f} : at'[g] = at[g]
        /\ record'[c] = r /\ \A d \in Commands \ {c} : record'[d] = record[d]
        /\ record' \in [Commands -> Records \cup {None}]
    BY <1>1, <1>2, <1>3 DEF HostIInv, HostTypes, HTypeOK, Goto
  <1>5. r # None
    BY <1>3, HostConstants
  <1> HIDE DEF r
  <1>6. HostTypes'
    BY <1>1, <1>4 DEF HostIInv, HostTypes, HTypeOK, Places, Owning, Unsent, Goto, locks, local, world
  <1>7. SoundWrite(f, c, record'[c])
    BY <1>2, <1>3, <1>4, <1>5 DEF SoundWrite
  <1>8. FacadeInv(f)'
    BY <1>1, <1>2, <1>3, <1>4, <1>5 DEF FacadeInv, Locked, RecordFollows, SentFollows,
         AnsweredFollows, Current, Mine, Owning, Unsent, Answered, Finals, Failed, locks, local, world
  <1>9. QED
    BY <1>1, <1>2, <1>4, <1>6, <1>7, <1>8, WritesInv

(* The first reading of the guest anchors the verification. *)
LEMMA ReadStatusInv ==
    ASSUME HostIInv, NEW f \in Facades, ReadStatus(f)
    PROVE  HostIInv'
  <1> DEFINE c == cmd[f]
  <1>1. /\ at[f] = "status" /\ at[f] \in Owning /\ Goto(f, "declare")
        /\ seen' = [seen EXCEPT ![f] = Status(guest)]
        /\ touched' = [touched EXCEPT ![c] = FALSE]
        /\ UNCHANGED <<disk, locks, cmd, under, guestOk, consistent, doc, unsure, answer, remote,
                       guest, late, scope, sent>>
    BY DEF ReadStatus, Onward, Owning, Unsent, disk
  <1>2. c \in Commands /\ FacadeInv(f) /\ at[f] # "idle"
    BY <1>1, OwnFacts
  <1>3. Status(guest) \in Statuses /\ Status(guest) # None
    BY HostConstants DEF HostIInv, HostTypes, Status, Statuses
  <1>4. HostTypes'
    BY <1>1, <1>2, <1>3 DEF HostIInv, HostTypes, HTypeOK, Places, Owning, Unsent, Goto, disk, locks
  <1>5. /\ at'[f] = "declare" /\ seen'[f] = Status(guest) /\ ~touched'[c]
        /\ \A g \in Facades \ {f} : at'[g] = at[g] /\ seen'[g] = seen[g]
        /\ \A d \in Commands : GuestMovesOn(d)
    BY <1>1, <1>2 DEF HostIInv, HostTypes, HTypeOK, Goto, GuestMovesOn
  <1>6. Anchored(Status(guest), touched'[c], Status(guest))
    BY <1>5 DEF Anchored
  <1>7. FacadeInv(f)'
    BY <1>1, <1>2, <1>3, <1>5, <1>6 DEF FacadeInv, Locked, RecordFollows, SentFollows,
         AnsweredFollows, Current, Mine, Owning, Unsent, Answered, Finals, Failed, disk, locks
  <1>8. QED
    BY <1>1, <1>2, <1>4, <1>5, <1>7, OnwardInv DEF disk, locks

(* Sending a script, and its answer. *)
LEMMA ScriptsInv ==
    ASSUME HostIInv, NEW f \in Facades,
           SendIdentity(f) \/ Identified(f) \/ SendMatrix(f) \/ Probed(f)
    PROVE  HostIInv'
  <1> DEFINE c == cmd[f]
  <1>1. /\ at[f] \in {"identity", "identified", "matrix", "probed"} /\ at[f] \in Owning
        /\ at'[f] \in {"identified", "matrix", "probed", "guest"}
        /\ at' \in [Facades -> Places] /\ \A g \in Facades \ {f} : at'[g] = at[g]
        /\ UNCHANGED <<disk, locks, local, answer, world>>
    BY DEF SendIdentity, Identified, SendMatrix, Probed, Onward, Goto, Owning, Unsent, Answered,
         Places, HostIInv, HostTypes, disk, local
  <1>2. /\ c \in Commands /\ FacadeInv(f) /\ record[c] # None /\ record[c].started
        /\ record[c].stage = "running"
    BY <1>1, OwnFacts DEF FacadeInv, RecordFollows, Mine
  <1>3. /\ remote' \subseteq [cmd : Commands, kind : Kinds]
        /\ \A s \in remote' \ remote : s.cmd = c
    BY <1>2 DEF SendIdentity, Identified, SendMatrix, Probed, Script, Kinds, HostIInv, HostTypes,
         HTypeOK
  <1>4. /\ sent' \in [Commands -> {0, 1}]
        /\ \A d \in Commands \ {c} : sent'[d] = sent[d]
    <2>1. CASE SendMatrix(f)
      <3>1. sent' = [sent EXCEPT ![c] = sent[c] + 1] /\ sent[c] = 0
        BY <1>2, <2>1 DEF SendMatrix, FacadeInv, SentFollows, Unsent
      <3>2. QED
        BY <1>2, <3>1 DEF HostIInv, HostTypes
    <2>2. CASE sent' = sent
      BY <2>2 DEF HostIInv, HostTypes
    <2>3. QED
      BY <2>1, <2>2 DEF SendIdentity, Identified, Probed
  <1>5. HostTypes'
    BY <1>1, <1>3, <1>4 DEF HostIInv, HostTypes, HTypeOK, disk, locks, local, world
  <1>6. FacadeInv(f)'
    <2>1. Locked(f)'
      BY <1>1, <1>2 DEF FacadeInv, Locked, Owning, Unsent, Answered, Finals, disk, locks, local
    <2>2. RecordFollows(f)'
      BY <1>1, <1>2 DEF FacadeInv, RecordFollows, Mine, Answered, Finals, Failed, disk, local
    <2>3. SentFollows(f)'
      BY <1>1, <1>2 DEF FacadeInv, SentFollows, Unsent, SendIdentity, Identified, SendMatrix, Probed,
           Onward, Goto, HostIInv, HostTypes, local
    <2>4. AnsweredFollows(f)'
      <3>1. CASE SendIdentity(f)
        BY <3>1 DEF SendIdentity, Onward, Goto, AnsweredFollows, Answered, Finals, HostIInv, HostTypes
      <3>2. CASE Identified(f)
        BY <1>1, <3>2 DEF Identified, Onward, Goto, AnsweredFollows, Answered, Finals, HostIInv,
             HostTypes, Script, local
      <3>3. CASE SendMatrix(f)
        BY <1>1, <1>2, <3>3 DEF SendMatrix, Onward, Goto, FacadeInv, AnsweredFollows, Answered,
             Finals, HostIInv, HostTypes, Script, local
      <3>4. CASE Probed(f)
        <4>1. /\ at'[f] = "guest" /\ remote' = remote /\ cmd'[f] = c
              /\ Script(f, "matrix") \notin remote /\ Script(f, "identity") \notin remote
          BY <1>1, <1>2, <3>4 DEF Probed, Onward, Goto, FacadeInv, AnsweredFollows, HostIInv,
               HostTypes, local
        <4>2. \A s \in remote : s.cmd = c /\ s.kind # "final" =>
                s = [cmd |-> c, kind |-> "matrix"] \/ s = [cmd |-> c, kind |-> "identity"]
          BY DEF HostIInv, HostTypes, HTypeOK, Kinds
        <4>3. QED
          BY <4>1, <4>2 DEF AnsweredFollows, Sequence, Script
      <3>5. QED
        BY <3>1, <3>2, <3>3, <3>4
    <2>5. Current(f)'
      BY <1>1, <1>2 DEF FacadeInv, Current, Answered, Finals, Mine, Reusing, disk, local, world
    <2>6. QED
      BY <2>1, <2>2, <2>3, <2>4, <2>5 DEF FacadeInv
  <1>7. QED
    <2>1. /\ UNCHANGED <<record, result, lock, targetLock, cmd, answer>>
          /\ \A d \in Commands : GuestMovesOn(d)
          /\ \A g \in Facades \ {f} :
               /\ at'[g] = at[g] /\ seen'[g] = seen[g] /\ guestOk'[g] = guestOk[g]
               /\ consistent'[g] = consistent[g] /\ doc'[g] = doc[g] /\ unsure'[g] = unsure[g]
      BY <1>1 DEF GuestMovesOn, disk, locks, local, world
    <2>2. QED
      BY <1>1, <1>2, <1>3, <1>4, <1>5, <1>6, <2>1, OnwardInv

(* The guest's own verification: accepted at the status that was read first, it moves the
   guest one version on; nobody else did so before. *)
LEMMA GuestVerifyInv ==
    ASSUME HostIInv, NEW f \in Facades, GuestVerify(f)
    PROVE  HostIInv'
  <1> DEFINE c == cmd[f]
             n == [seen[f] EXCEPT !.ver = @ + 1]
  <1>1. /\ at[f] = "guest" /\ at[f] \in Owning /\ Goto(f, "post")
        /\ UNCHANGED <<disk, locks, cmd, under, seen, consistent, doc, unsure, answer, remote, scope,
                       sent>>
    BY DEF GuestVerify, Onward, Owning, Answered, disk
  <1>2. /\ c \in Commands /\ FacadeInv(f) /\ seen[f] \in Statuses /\ ~guestOk[f]
        /\ Anchored(Status(guest), touched[c], seen[f]) /\ at[f] # "idle" /\ seen[f] # None
    BY <1>1, OwnFacts DEF FacadeInv, Current, HostIInv, HostTypes, HTypeOK, Finals
  <1>3. at'[f] = "post" /\ at' \in [Facades -> Places] /\ \A g \in Facades \ {f} : at'[g] = at[g]
    BY <1>1 DEF HostIInv, HostTypes, Goto, Places, Owning, Answered
  <1>4. /\ guest' \in [run : Nat, ver : Nat, healthy : BOOLEAN]
        /\ guestOk' \in [Facades -> BOOLEAN] /\ touched' \in [Commands -> BOOLEAN]
        /\ late' \subseteq [cmd : Commands, of : Statuses]
        /\ \A g \in Facades \ {f} : guestOk'[g] = guestOk[g]
        /\ \A d \in Commands : GuestMovesOn(d)
        /\ guestOk'[f] => Anchored(Status(guest)', touched'[c], n)
    <2>1. CASE /\ Accepts(seen[f]) /\ guest' = Raised(seen[f])
               /\ \E ok \in BOOLEAN : guestOk' = [guestOk EXCEPT ![f] = ok]
               /\ touched' = [d \in Commands |-> touched[d] \/ d # c] /\ UNCHANGED late
      <3>1. Status(guest) = seen[f] /\ Status(guest)' = n
        BY <1>2, <2>1 DEF Accepts, Raised, Status, Statuses, HostIInv, HostTypes
      <3>2. /\ guest' \in [run : Nat, ver : Nat, healthy : BOOLEAN]
            /\ Later(n, seen[f]) /\ ~Later(seen[f], seen[f]) /\ ~Later(n, n)
        BY <1>2, <2>1 DEF Raised, Statuses, HostIInv, HostTypes, Later
      <3>3. touched' \in [Commands -> BOOLEAN] /\ ~touched'[c]
        BY <1>2, <2>1, <3>1, <3>2 DEF Anchored, HostIInv, HostTypes
      <3>4. Anchored(Status(guest)', touched'[c], n)
        BY <3>1, <3>3 DEF Anchored
      <3>5. \A d \in Commands : GuestMovesOn(d)
        BY <3>1, <3>2 DEF GuestMovesOn
      <3>6. QED
        BY <2>1, <3>2, <3>3, <3>4, <3>5 DEF HostIInv, HostTypes
    <2>2. CASE UNCHANGED <<guest, guestOk, touched>>
               /\ (late' = late \/ late' = late \cup {[cmd |-> c, of |-> seen[f]]})
      BY <1>2, <2>2 DEF HostIInv, HostTypes, GuestMovesOn
    <2>3. QED
      BY <2>1, <2>2 DEF GuestVerify
  <1>5. HostTypes'
    BY <1>1, <1>3, <1>4 DEF HostIInv, HostTypes, HTypeOK, disk, locks
  <1>6. FacadeInv(f)'
    BY <1>1, <1>2, <1>3, <1>4 DEF FacadeInv, Locked, RecordFollows, SentFollows, AnsweredFollows,
         Current, Mine, Owning, Unsent, Answered, Finals, Failed, Sequence, disk, locks
  <1>7. QED
    BY <1>1, <1>2, <1>3, <1>4, <1>5, <1>6, OnwardInv DEF disk, locks

(* The second reading allows for the own operation and for nothing else. *)
LEMMA PostStatusInv ==
    ASSUME HostIInv, NEW f \in Facades, PostStatus(f)
    PROVE  HostIInv'
  <1> DEFINE c == cmd[f]
             n == [seen[f] EXCEPT !.ver = @ + 1]
  <1>1. /\ at[f] = "post" /\ at[f] \in Owning /\ Goto(f, "final")
        /\ OwnVersion(seen[f], Status(guest)) /\ seen' = [seen EXCEPT ![f] = Status(guest)]
        /\ UNCHANGED <<disk, locks, cmd, under, guestOk, consistent, doc, unsure, answer, remote,
                       world, sent>>
    BY DEF PostStatus, Onward, Owning, Answered, disk
  <1>2. /\ c \in Commands /\ FacadeInv(f) /\ seen[f] \in Statuses /\ at[f] # "idle"
        /\ guestOk[f] => Anchored(Status(guest), touched[c], n)
        /\ record[c] # None /\ record[c].stage = "running"
    <2>1. c \in Commands /\ FacadeInv(f) /\ at[f] # "idle"
      BY <1>1, OwnFacts
    <2>2. record[c] # None /\ record[c].stage = "running"
      BY <1>1, <2>1 DEF FacadeInv, RecordFollows, Mine, Answered
    <2>3. seen[f] # None /\ (guestOk[f] => Anchored(Status(guest), touched[c], n))
      BY <1>1, <2>1 DEF FacadeInv, Current
    <2>4. QED
      BY <2>1, <2>2, <2>3 DEF HostIInv, HostTypes, HTypeOK
  <1>3. Status(guest) \in Statuses /\ Status(guest) # None
    BY HostConstants DEF HostIInv, HostTypes, Status, Statuses
  <1>4. guestOk[f] => Anchored(Status(guest), touched[c], Status(guest))
    <2>1. ~Later(Status(guest), n)
      BY <1>1, <1>2, <1>3 DEF OwnVersion, Later, Statuses
    <2>2. QED
      BY <1>2, <2>1 DEF Anchored
  <1>5. /\ at'[f] = "final" /\ seen'[f] = Status(guest)
        /\ \A g \in Facades \ {f} : at'[g] = at[g] /\ seen'[g] = seen[g]
    BY <1>1 DEF HostIInv, HostTypes, HTypeOK, Goto
  <1>6. HostTypes'
    BY <1>1, <1>3 DEF HostIInv, HostTypes, HTypeOK, Places, Finals, Goto, disk, locks, world
  <1>7. FacadeInv(f)'
    BY <1>1, <1>2, <1>3, <1>4, <1>5 DEF FacadeInv, Locked, RecordFollows, SentFollows,
         AnsweredFollows, Current, Mine, Reusing, Owning, Unsent, Answered, Finals, Failed, Sequence,
         disk, locks, world
  <1>8. QED
    BY <1>1, <1>2, <1>5, <1>6, <1>7, OnwardInv DEF GuestMovesOn, disk, locks, world

(* _final_consistency: the last reading of the guest decides whether the call may say 'pass'. *)
LEMMA FinalInv ==
    ASSUME HostIInv, NEW f \in Facades, FinalStatus(f) \/ SendFinal(f) \/ FinalAnswer(f)
    PROVE  HostIInv'
  <1> DEFINE c == cmd[f]
             mayPass == guestOk[f] \/ (Reusing(f) /\ result[c] = "pass")
  <1>1. /\ at[f] \in Finals
        /\ UNCHANGED <<disk, locks, cmd, under, seen, guestOk, doc, answer, world, sent>>
        /\ at' \in [Facades -> Places] /\ \A g \in Facades \ {f} : at'[g] = at[g]
        /\ at'[f] \in {"send", "await", "reused", "write"}
        /\ at'[f] = "write" => ~Reusing(f)
        /\ at'[f] = "reused" => Reusing(f)
    BY DEF FinalStatus, SendFinal, FinalAnswer, Onward, Goto, AfterFinal, HostIInv, HostTypes,
         Places, Finals, Owning, Answered, disk
  <1>2. /\ c \in Commands /\ FacadeInv(f) /\ at[f] # "idle"
        /\ lock[c] = f /\ answer[f] = None /\ c # None
        /\ ~Reusing(f) => targetLock = f /\ Mine(f).stage = "running" /\ Mine(f).started
        /\ Reusing(f) <=> Mine(f).stage = "completed"
        /\ Mine(f) # None /\ seen[f] # None
        /\ mayPass => Anchored(Status(guest), touched[c], seen[f])
        /\ \A s \in Sequence : s.cmd # c
    BY <1>1, HostConstants DEF HostIInv, HostTypes, HTypeOK, FacadeInv, Locked, RecordFollows,
         AnsweredFollows, Current, Reusing, Finals
  <1>3. /\ consistent' \in [Facades -> {"yes", "no", "unknown"}]
        /\ unsure' \in [Facades -> BOOLEAN]
        /\ \A g \in Facades \ {f} : consistent'[g] = consistent[g] /\ unsure'[g] = unsure[g]
        /\ remote' \subseteq [cmd : Commands, kind : Kinds]
        /\ \A s \in remote' \ remote : s.cmd = c /\ s.kind = "final"
    <2>1. CASE FinalStatus(f)
      BY <1>2, <2>1 DEF FinalStatus, Verdict, HostIInv, HostTypes, HTypeOK
    <2>2. CASE SendFinal(f)
      BY <1>2, <2>2 DEF SendFinal, Verdict, Script, HostIInv, HostTypes, HTypeOK, Kinds
    <2>3. CASE FinalAnswer(f)
      BY <1>2, <2>3 DEF FinalAnswer, Verdict, HostIInv, HostTypes, HTypeOK
    <2>4. QED
      BY <2>1, <2>2, <2>3
  <1>4. /\ at'[f] \in {"send", "await"} /\ mayPass => ~unsure'[f]
        /\ at'[f] \in {"write", "reused"} /\ mayPass /\ consistent'[f] = "yes" => ~unsure'[f]
    <2>1. CASE FinalStatus(f)
      <3>1. CASE Unchanged(f) /\ unsure' = [unsure EXCEPT ![f] = touched[c]] /\ at'[f] = "send"
        <4>1. Status(guest) = seen[f] /\ unsure'[f] = touched[c] /\ Status(guest) \in Statuses
          BY <3>1 DEF Unchanged, HostIInv, HostTypes, Status, Statuses
        <4>2. ~Later(seen[f], seen[f])
          BY <4>1 DEF Later, Statuses
        <4>3. QED
          BY <1>2, <3>1, <4>1, <4>2 DEF Anchored
      <3>2. CASE consistent'[f] # "yes" /\ at'[f] \in {"write", "reused"}
        BY <3>2
      <3>3. QED
        BY <2>1, <3>1, <3>2 DEF FinalStatus, Verdict, Onward, Goto, AfterFinal, HostIInv, HostTypes
    <2>2. CASE SendFinal(f)
      <3>1. at[f] = "send" /\ unsure' = unsure /\ (mayPass => ~unsure[f])
        BY <1>2, <2>2 DEF SendFinal, FacadeInv, Current
      <3>2. at'[f] = "await" \/ consistent'[f] # "yes"
        BY <2>2 DEF SendFinal, Verdict, Onward, Goto, HostIInv, HostTypes
      <3>3. QED
        BY <3>1, <3>2
    <2>3. CASE FinalAnswer(f)
      BY <1>2, <2>3 DEF FinalAnswer, FacadeInv, Current
    <2>4. QED
      BY <2>1, <2>2, <2>3
  <1>5. HostTypes'
    BY <1>1, <1>3 DEF HostIInv, HostTypes, HTypeOK, disk, locks, world
  <1>6. FacadeInv(f)'
    <2>1. Locked(f)' /\ RecordFollows(f)' /\ SentFollows(f)'
      BY <1>1, <1>2 DEF Locked, RecordFollows, SentFollows, Mine, Reusing, Owning, Unsent, Answered,
           Finals, Failed, disk, locks
    <2>2. AnsweredFollows(f)'
      BY <1>1, <1>2, <1>3 DEF AnsweredFollows, Answered, Finals, Sequence
    <2>3. Current(f)'
      BY <1>1, <1>2, <1>4 DEF FacadeInv, Current, Mine, Reusing, Finals, disk, world
    <2>4. QED
      BY <2>1, <2>2, <2>3 DEF FacadeInv
  <1>7. QED
    BY <1>1, <1>2, <1>3, <1>5, <1>6, OnwardInv DEF GuestMovesOn, disk, locks, world

(* A result is written for a record that is not completed. *)
LEMMA ResultInv ==
    ASSUME HostIInv, NEW f \in Facades, WriteResult(f) \/ WriteFailure(f)
    PROVE  HostIInv'
  <1> DEFINE c == cmd[f]
  <1>1. /\ at[f] \in {"write", "unprobed"} /\ at[f] \in Owning
        /\ at' \in [Facades -> Places] /\ \A g \in Facades \ {f} : at'[g] = at[g]
        /\ at'[f] = IF at[f] = "write" THEN "complete" ELSE "unprobed_written"
        /\ UNCHANGED <<record, locks, cmd, under, seen, guestOk, consistent, unsure, answer, remote,
                       world, sent>>
    BY DEF WriteResult, WriteFailure, Goto, HostIInv, HostTypes, Owning, Answered, Failed, Places,
         local
  <1>2. /\ c \in Commands /\ FacadeInv(f) /\ at[f] # "idle" /\ record[c] # None
        /\ record[c].stage \in {"running", "failed"} /\ lock[c] = f /\ answer[f] = None
    BY <1>1, OwnFacts DEF FacadeInv, Locked, RecordFollows, Mine, Answered, Failed
  <1>3. /\ result' \in [Commands -> Docs \cup {None}]
        /\ \A d \in Commands \ {c} : result'[d] = result[d]
        /\ result'[c] \in Docs /\ result'[c] # None
        /\ doc' \in [Facades -> Docs \cup {None}] /\ \A g \in Facades \ {f} : doc'[g] = doc[g]
        /\ at[f] = "write" => /\ doc'[f] = result'[c]
                              /\ doc'[f] = "pass" => guestOk[f] /\ consistent[f] = "yes"
        /\ at[f] = "unprobed" => result'[c] = "error"
    BY <1>2, HostConstants DEF WriteResult, WriteFailure, Qualifies, HostIInv, HostTypes, HTypeOK,
         Docs, local
  <1>4. HostTypes'
    BY <1>1, <1>3 DEF HostIInv, HostTypes, HTypeOK, locks, world
  <1>5. Alone(f, c)
    BY <1>1, <1>2, <1>3 DEF Alone, GuestMovesOn, locks, world
  <1>6. Ledger'
    <2>1. \A d \in Commands : Blocks(d)' <=> Blocks(d)
      BY <1>1, <1>2, <1>3 DEF Blocks
    <2>2. TargetHeldOnce'
      BY <1>1, <2>1 DEF HostIInv, Ledger, TargetHeldOnce
    <2>3. CompletedHasResult' /\ SentIsRecorded' /\ SequenceIsRecorded'
      BY <1>1, <1>2, <1>3 DEF HostIInv, Ledger, CompletedHasResult, SentIsRecorded,
           SequenceIsRecorded, Sequence
    <2>4. BindingIsAnchored'
      BY <1>1, <1>2, <1>3 DEF HostIInv, Ledger, BindingIsAnchored, world
    <2>5. QED
      BY <2>2, <2>3, <2>4 DEF Ledger
  <1>7. FacadeInv(f)'
    <2>1. Locked(f)' /\ RecordFollows(f)' /\ SentFollows(f)' /\ AnsweredFollows(f)'
      BY <1>1, <1>2, <1>3 DEF FacadeInv, Locked, RecordFollows, SentFollows, AnsweredFollows, Mine,
           Owning, Unsent, Answered, Finals, Failed, Sequence, locks
    <2>2. Current(f)'
      BY <1>1, <1>2, <1>3 DEF FacadeInv, Current, Mine, Reusing, Finals, world
    <2>3. QED
      BY <2>1, <2>2 DEF FacadeInv
  <1>8. QED
    BY <1>1, <1>2, <1>4, <1>5, <1>6, <1>7, OwnStep, HostConstants DEF Docs

(* The record is completed after its result, and bound to what the last reading saw. *)
LEMMA CompleteInv ==
    ASSUME HostIInv, NEW f \in Facades, Complete(f) \/ CompleteFailure(f)
    PROVE  HostIInv'
  <1> DEFINE c == cmd[f]
             b == IF consistent[f] = "yes" /\ doc[f] # "error" THEN seen[f] ELSE None
  <1>1. /\ at[f] \in {"complete", "unprobed_written"} /\ at[f] \in Owning
        /\ UNCHANGED <<result, remote, world, sent>>
    BY DEF Complete, CompleteFailure, Owning, Answered, Failed
  <1>2. /\ c \in Commands /\ FacadeInv(f) /\ record[c] \in Records /\ record[c] # None
        /\ \A s \in Sequence : s.cmd # c
    <2>1. /\ c \in Commands /\ FacadeInv(f) /\ record[c] \in Records /\ record[c] # None
          /\ at[f] # "complete" => ~record[c].started
      BY <1>1, OwnFacts DEF FacadeInv, RecordFollows, Mine, Failed
    <2>2. QED
      BY <1>1, <2>1, NoScripts DEF FacadeInv, AnsweredFollows, Answered
  <1>3. CASE Complete(f)
    <2>1. /\ result[c] = doc[f] /\ doc[f] # None /\ b \in Statuses \cup {None}
          /\ doc[f] = "pass" => /\ Anchored(Status(guest), touched[c], seen[f])
                                /\ ~unsure[f]
      BY <1>2, <1>3 DEF Complete, FacadeInv, RecordFollows, Current, HostIInv, HostTypes, HTypeOK
    <2> DEFINE r == [record[c] EXCEPT !.stage = "completed", !.bind = b]
    <2>2. r \in Records /\ r.stage = "completed" /\ r.bind = b
      BY <1>2, <2>1 DEF Records, Stages
    <2>3. record' = [record EXCEPT ![c] = r] /\ Return(f, doc[f])
      BY <1>2, <1>3 DEF Complete, HostIInv, HostTypes, HTypeOK, Records
    <2>4. /\ record'[c] = r /\ \A d \in Commands \ {c} : record'[d] = record[d]
          /\ record' \in [Commands -> Records \cup {None}]
      BY <1>2, <2>2, <2>3 DEF HostIInv, HostTypes, HTypeOK
    <2> HIDE DEF r
    <2>5. SoundWrite(f, c, record'[c])
      BY <1>2, <2>1, <2>2, <2>4, HostConstants DEF SoundWrite
    <2>6. QED
      BY <1>1, <1>2, <2>1, <2>3, <2>4, <2>5, ReturnWritesInv
  <1>4. CASE CompleteFailure(f)
    <2>1. result[c] = "error" /\ result[c] # None
      BY <1>2, <1>4, HostConstants DEF CompleteFailure, FacadeInv, RecordFollows, Docs
    <2> DEFINE r == [record[c] EXCEPT !.stage = "completed"]
    <2>2. r \in Records /\ r.stage = "completed"
      BY <1>2 DEF Records, Stages
    <2>3. record' = [record EXCEPT ![c] = r] /\ Return(f, "error")
      BY <1>2, <1>4 DEF CompleteFailure, HostIInv, HostTypes, HTypeOK, Records
    <2>4. /\ record'[c] = r /\ \A d \in Commands \ {c} : record'[d] = record[d]
          /\ record' \in [Commands -> Records \cup {None}]
      BY <1>2, <2>2, <2>3 DEF HostIInv, HostTypes, HTypeOK
    <2> HIDE DEF r
    <2>5. SoundWrite(f, c, record'[c])
      BY <1>2, <2>1, <2>2, <2>4, HostConstants DEF SoundWrite
    <2>6. QED
      BY <1>1, <1>2, <2>3, <2>4, <2>5, ReturnWritesInv
  <1>5. QED
    BY <1>3, <1>4

(* A result that may be reused is compared with the guest it is bound to. *)
LEMMA ReuseInv ==
    ASSUME HostIInv, NEW f \in Facades, Reuse(f)
    PROVE  HostIInv'
  <1> DEFINE c == cmd[f]
  <1>1. at[f] = "reuse" /\ UNCHANGED <<disk, remote, world, crashes, sent>>
    BY DEF Reuse
  <1>2. /\ c \in Commands /\ c # None /\ FacadeInv(f) /\ lock[c] = f /\ answer[f] = None
        /\ ~guestOk[f]
        /\ record[c] # None /\ record[c] \in Records /\ record[c].stage = "completed"
    <2>1. FacadeInv(f) /\ c \in Commands /\ c # None
      BY <1>1 DEF HostIInv, HostTypes, HTypeOK, FacadeInv, Locked
    <2>2. lock[c] = f /\ answer[f] = None
      BY <1>1, <2>1 DEF FacadeInv, Locked
    <2>3. record[c] # None /\ record[c].stage = "completed"
      BY <1>1, <2>1 DEF FacadeInv, RecordFollows, Mine
    <2>4. ~guestOk[f]
      BY <1>1, <2>1 DEF FacadeInv, Current, Finals
    <2>5. QED
      BY <2>1, <2>2, <2>3, <2>4 DEF HostIInv, HostTypes, HTypeOK
  <1>3. CASE result[c] \in {None, "error"} \/ record[c].bind = None
    BY <1>1, <1>3, ReturnInv DEF Reuse, Mine
  <1>4. CASE ~(result[c] \in {None, "error"} \/ record[c].bind = None)
    <2>1. /\ seen' = [seen EXCEPT ![f] = record[c].bind] /\ Goto(f, "final")
          /\ UNCHANGED <<answer, cmd, under, guestOk, consistent, doc, unsure, locks>>
      BY <1>4 DEF Reuse, Mine
    <2>2. /\ record[c].bind \in Statuses /\ record[c].bind # None
          /\ result[c] = "pass" => Anchored(Status(guest), touched[c], record[c].bind)
      BY <1>2, <1>4 DEF Records, HostIInv, Ledger, BindingIsAnchored
    <2>3. /\ at'[f] = "final" /\ seen'[f] = record[c].bind
          /\ at' \in [Facades -> Places] /\ seen' \in [Facades -> Statuses \cup {None}]
          /\ \A g \in Facades \ {f} : at'[g] = at[g] /\ seen'[g] = seen[g]
      BY <2>1, <2>2 DEF HostIInv, HostTypes, HTypeOK, Goto, Places, Finals
    <2>4. HostTypes'
      BY <1>1, <2>1, <2>3 DEF HostIInv, HostTypes, HTypeOK, disk, locks, world
    <2>5. \A s \in Sequence : s.cmd # c
      BY <1>2 DEF HostIInv, Ledger, SequenceIsRecorded
    <2>6. FacadeInv(f)'
      BY <1>1, <1>2, <2>1, <2>2, <2>3, <2>5 DEF FacadeInv, Locked, RecordFollows, SentFollows,
           AnsweredFollows, Current, Mine, Reusing, Owning, Unsent, Answered, Finals, Failed,
           Sequence, disk, locks, world
    <2>7. QED
      BY <1>1, <1>2, <2>1, <2>3, <2>4, <2>6, OnwardInv DEF GuestMovesOn, disk, locks, world
  <1>5. QED
    BY <1>3, <1>4

LEMMA ReusedInv ==
    ASSUME HostIInv, NEW f \in Facades, Reused(f)
    PROVE  HostIInv'
  <1> DEFINE v == IF consistent[f] = "yes" THEN result[cmd[f]] ELSE "error"
  <1>1. at[f] # "idle" /\ Return(f, v) /\ UNCHANGED <<disk, remote, world, sent>>
    BY DEF Reused
  <1>2. v = "pass" => ~unsure[f]
    BY DEF Reused, HostIInv, FacadeInv, Current
  <1>3. QED
    BY <1>1, <1>2, ReturnInv

(* A failure marks the record, which goes on holding the target; without remote code it is a
   result as well. *)
LEMMA FailureInv ==
    ASSUME HostIInv, NEW f \in Facades, Refuse(f) \/ Raise(f)
    PROVE  HostIInv'
  <1> DEFINE c == cmd[f]
             r == [record[c] EXCEPT !.stage = "failed"]
  <1>1. /\ at[f] \in Failing /\ at[f] \in Owning /\ at[f] \notin {"again", "create"}
        /\ UNCHANGED <<result, remote, world, sent>>
        /\ record' = [record EXCEPT ![c].stage = "failed"]
    BY DEF Refuse, Raise, Failing, Owning, Unsent, Answered
  <1>2. /\ c \in Commands /\ FacadeInv(f) /\ record[c] \in Records /\ record[c] # None /\ Blocks(c)
    BY <1>1, OwnFacts
  <1>3. r \in Records /\ r.stage = "failed" /\ r.started = record[c].started
    BY <1>2 DEF Records, Stages
  <1>4. /\ record'[c] = r /\ \A d \in Commands \ {c} : record'[d] = record[d]
        /\ record' \in [Commands -> Records \cup {None}]
    BY <1>1, <1>2, <1>3 DEF HostIInv, HostTypes, HTypeOK
  <1>5. r # None
    BY <1>3, HostConstants
  <1> HIDE DEF r
  <1>6. SoundWrite(f, c, record'[c])
    BY <1>2, <1>3, <1>4, <1>5 DEF SoundWrite, HostIInv, Ledger, SequenceIsRecorded
  <1>7. CASE Return(f, "error")
    BY <1>1, <1>2, <1>4, <1>6, <1>7, ReturnWritesInv
  <1>8. CASE Refuse(f) /\ ~record[c].started
    <2>1. Goto(f, "unprobed") /\ UNCHANGED <<answer, local, locks>>
      BY <1>8 DEF Refuse, Mine
    <2>2. at'[f] = "unprobed" /\ \A g \in Facades \ {f} : at'[g] = at[g]
      BY <2>1 DEF HostIInv, HostTypes, Goto
    <2>3. HostTypes'
      BY <1>1, <1>4, <2>1 DEF HostIInv, HostTypes, HTypeOK, Places, Owning, Failed, Goto, locks,
           local, world
    <2>4. at[f] \in {"status", "declare"}
      BY <1>1, <1>2, <1>8 DEF Refuse, Failing, FacadeInv, RecordFollows, Mine, Answered
    <2>5. FacadeInv(f)'
      BY <1>2, <1>3, <1>4, <1>5, <1>8, <2>1, <2>2, <2>4 DEF FacadeInv, Locked, RecordFollows,
           SentFollows, AnsweredFollows, Current, Mine, Owning, Unsent, Answered, Finals, Failed,
           locks, local
    <2>6. QED
      BY <1>1, <1>2, <1>4, <1>6, <2>1, <2>2, <2>3, <2>5, WritesInv
  <1>9. QED
    BY <1>7, <1>8 DEF Refuse, Raise, Mine

(* A facade dies: its locks go, its record stays. *)
LEMMA CrashInv ==
    ASSUME HostIInv, NEW f \in Facades, Crash(f)
    PROVE  HostIInv'
  <1>1. at[f] # "idle" /\ Return(f, None) /\ UNCHANGED <<disk, remote, world, sent>>
    BY DEF Crash
  <1>2. None # "pass"
    BY HostConstants DEF Docs
  <1>3. QED
    BY <1>1, <1>2, ReturnInv

(* Steps of the guest and of the executor, and stuttering. *)
LEMMA WorldInv ==
    ASSUME HostIInv, HostTypes', UNCHANGED <<disk, locks, at, local, answer, sent>>,
           remote' \subseteq remote, \A c \in Commands : GuestMovesOn(c)
    PROVE  HostIInv'
  <1>1. Ledger'
    BY LedgerKept DEF disk
  <1>2. ASSUME NEW g \in Facades PROVE FacadeInv(g)'
    <2>1. at[g] # "idle" => cmd[g] \in Commands
      BY DEF HostIInv, HostTypes, HTypeOK, FacadeInv, Locked
    <2>2. Untouched(g)
      BY <2>1 DEF Untouched, disk, locks, local
    <2>3. QED
      BY <2>2, UntouchedInv
  <1>3. PassIsCurrent'
    BY DEF HostIInv, PassIsCurrent, local
  <1>4. QED
    BY <1>1, <1>2, <1>3 DEF HostIInv

LEMMA RemoteEndsInv ==
    ASSUME HostIInv, NEW s \in remote, RemoteEnds(s)
    PROVE  HostIInv'
  <1>1. HostTypes'
    BY DEF RemoteEnds, HostIInv, HostTypes, HTypeOK, disk, locks, local, world
  <1>2. QED
    BY <1>1, WorldInv DEF RemoteEnds, GuestMovesOn, world

LEMMA LateArrivesInv ==
    ASSUME HostIInv, NEW m \in late, LateArrives(m)
    PROVE  HostIInv'
  <1>1. m.of \in Statuses /\ Status(guest) \in Statuses
    BY DEF HostIInv, HostTypes, Status, Statuses
  <1>2. touched' \in [Commands -> BOOLEAN]
    BY DEF LateArrives
  <1>3. CASE Accepts(m.of)
    <2>1. guest' = [guest EXCEPT !.ver = m.of.ver + 1] /\ guest.run = m.of.run /\ guest.ver = m.of.ver
      BY <1>1, <1>3 DEF LateArrives, Accepts, Raised, Status, Statuses
    <2>2. /\ guest' \in [run : Nat, ver : Nat, healthy : BOOLEAN]
          /\ Later(Status(guest)', Status(guest))
      BY <1>1, <2>1 DEF HostIInv, HostTypes, Later, Status, Statuses
    <2>3. HostTypes'
      BY <1>2, <2>2 DEF LateArrives, HostIInv, HostTypes, HTypeOK, disk, locks, local
    <2>4. QED
      BY <2>2, <2>3, WorldInv DEF LateArrives, GuestMovesOn
  <1>4. CASE ~Accepts(m.of)
    <2>1. guest' = guest /\ \A c \in Commands : touched'[c] => touched[c]
      BY <1>4 DEF LateArrives
    <2>2. HostTypes'
      BY <1>2, <2>1 DEF LateArrives, HostIInv, HostTypes, HTypeOK, disk, locks, local
    <2>3. QED
      BY <2>1, <2>2, WorldInv DEF LateArrives, GuestMovesOn
  <1>5. QED
    BY <1>3, <1>4

LEMMA GuestChangesInv ==
    ASSUME HostIInv, GuestChanges
    PROVE  HostIInv'
  <1>1. /\ guest' \in [run : Nat, ver : Nat, healthy : BOOLEAN]
        /\ Later(Status(guest)', Status(guest))
    <2>1. CASE \E new \in {0, 1} : guest' = [guest EXCEPT !.ver = @ + 1, !.run = @ + new]
      <3>1. guest.run \in Nat /\ guest.ver \in Nat /\ guest.healthy \in BOOLEAN
        BY DEF HostIInv, HostTypes
      <3>2. PICK new \in {0, 1} : guest' = [guest EXCEPT !.ver = @ + 1, !.run = @ + new]
        BY <2>1
      <3>3. /\ guest'.run = guest.run + new /\ guest'.ver = guest.ver + 1
            /\ guest' \in [run : Nat, ver : Nat, healthy : BOOLEAN]
        <4>1. guest \in [run : Nat, ver : Nat, healthy : BOOLEAN]
          BY DEF HostIInv, HostTypes
        <4>2. guest'.run = guest.run + new /\ guest'.ver = guest.ver + 1
          BY <3>2, <4>1
        <4>3. guest.run + new \in Nat /\ guest.ver + 1 \in Nat
          BY <3>1
        <4>4. guest' \in [run : Nat, ver : Nat, healthy : BOOLEAN]
          BY <3>2, <4>1, <4>3
        <4>5. QED
          BY <4>2, <4>4
      <3>4. /\ Status(guest)'.run = guest.run + new /\ Status(guest)'.ver = guest.ver + 1
            /\ Status(guest).run = guest.run /\ Status(guest).ver = guest.ver
        BY <3>3 DEF Status
      <3>5. QED
        BY <3>1, <3>3, <3>4 DEF Later
    <2>2. CASE guest' = [run |-> guest.run + 1, ver |-> 1, healthy |-> TRUE]
      <3>1. guest.run \in Nat
        BY DEF HostIInv, HostTypes
      <3>2. Status(guest)'.run = guest.run + 1 /\ Status(guest).run = guest.run
        BY <2>2 DEF Status
      <3>3. guest' \in [run : Nat, ver : Nat, healthy : BOOLEAN]
        BY <2>2, <3>1
      <3>4. QED
        BY <3>1, <3>2, <3>3 DEF Later
    <2>3. QED
      BY <2>1, <2>2 DEF GuestChanges
  <1>2. touched' \in [Commands -> BOOLEAN]
    BY DEF GuestChanges
  <1>3. HostTypes'
    BY <1>1, <1>2 DEF GuestChanges, HostIInv, HostTypes, HTypeOK, disk, locks, local
  <1>4. QED
    BY <1>1, <1>3, WorldInv DEF GuestChanges, GuestMovesOn

LEMMA ConditionsChangeInv ==
    ASSUME HostIInv, GuestHealth \/ ScopeChanges
    PROVE  HostIInv'
  <1>1. guest' \in [run : Nat, ver : Nat, healthy : BOOLEAN] /\ Status(guest)' = Status(guest)
    BY DEF GuestHealth, ScopeChanges, HostIInv, HostTypes, Status
  <1>2. UNCHANGED <<disk, locks, at, local, answer, remote, late, touched, sent>> /\ scope' \in Nat
    BY DEF GuestHealth, ScopeChanges, HostIInv, HostTypes
  <1>3. HostTypes'
    BY <1>1, <1>2 DEF HostIInv, HostTypes, HTypeOK, disk, locks, local
  <1>4. QED
    BY <1>1, <1>2, <1>3, WorldInv DEF GuestMovesOn

LEMMA HostNext == HostIInv /\ [Next]_vars => HostIInv'
  <1> SUFFICES ASSUME HostIInv, [Next]_vars PROVE HostIInv'
    OBVIOUS
  <1>1. ASSUME NEW f \in Facades, NEW c \in Commands, Verify(f, c) PROVE HostIInv'
    BY <1>1, VerifyInv
  <1>2. ASSUME NEW f \in Facades,
               \/ Look(f) \/ LockTarget(f) \/ LookAgain(f) \/ Create(f) \/ Run(f)
               \/ ReadStatus(f) \/ Declare(f)
        PROVE  HostIInv'
    BY <1>2, LookInv, LockTargetInv, LookAgainInv, CreateInv, RunInv, ReadStatusInv, DeclareInv
  <1>3. ASSUME NEW f \in Facades,
               \/ SendIdentity(f) \/ Identified(f) \/ SendMatrix(f) \/ Probed(f)
               \/ GuestVerify(f) \/ PostStatus(f)
               \/ FinalStatus(f) \/ SendFinal(f) \/ FinalAnswer(f)
        PROVE  HostIInv'
    BY <1>3, ScriptsInv, GuestVerifyInv, PostStatusInv, FinalInv
  <1>4. ASSUME NEW f \in Facades,
               \/ WriteResult(f) \/ Complete(f) \/ Reuse(f) \/ Reused(f) \/ Refuse(f)
               \/ WriteFailure(f) \/ CompleteFailure(f) \/ Raise(f) \/ Crash(f)
        PROVE  HostIInv'
    BY <1>4, ResultInv, CompleteInv, ReuseInv, ReusedInv, FailureInv, CrashInv
  <1>5. CASE \E s \in remote : RemoteEnds(s)
    BY <1>5, RemoteEndsInv
  <1>6. CASE \E m \in late : LateArrives(m)
    BY <1>6, LateArrivesInv
  <1>7. CASE GuestChanges \/ GuestHealth \/ ScopeChanges
    BY <1>7, GuestChangesInv, ConditionsChangeInv
  <1>8. CASE UNCHANGED vars
    <2>1. HostTypes'
      BY <1>8 DEF HostIInv, HostTypes, HTypeOK, vars, disk, locks, local, world
    <2>2. QED
      BY <1>8, <2>1, WorldInv DEF GuestMovesOn, vars, world
  <1>9. QED
    BY <1>1, <1>2, <1>3, <1>4, <1>5, <1>6, <1>7, <1>8 DEF Next

----------------------------------------------------------------------------
(* The results. *)

(* HostIInv is an inductive invariant of the facades, the guest and the executor. *)
THEOREM HostInductive == Spec => []HostIInv
  BY HostInit, HostNext, PTL DEF Spec

(* Every variable keeps its type, and a completed record has its result, whichever process
   died between the two files (HostFacade._run, HostStateStore.update). *)
THEOREM OrderOfFiles == Spec => []HostInv
  <1>1. HostIInv => HostInv
    BY DEF HostIInv, HostTypes, Ledger, HostInv
  <1>2. QED
    BY <1>1, HostInductive, PTL

(* Two sequences never run at once, and no command sends its matrix twice: the record that
   says code was handed over holds the target until no script of it can be running. *)
THEOREM OneSequenceAtATime == Spec => []OneSequence
  <1>1. HostIInv => OneSequence
    <2> SUFFICES ASSUME HostIInv PROVE OneSequence
      OBVIOUS
    <2>1. ASSUME NEW s \in Sequence PROVE s.cmd \in Commands /\ Blocks(s.cmd)
      BY DEF HostIInv, HostTypes, HTypeOK, Ledger, SequenceIsRecorded, Sequence, Blocks
    <2>2. \A s, t \in Sequence : s.cmd = t.cmd
      BY <2>1 DEF HostIInv, Ledger, TargetHeldOnce
    <2>3. \A c \in Commands : sent[c] <= 1
      BY DEF HostIInv, HostTypes
    <2>4. QED
      BY <2>2, <2>3 DEF OneSequence
  <1>2. QED
    BY <1>1, HostInductive, PTL

(* A 'pass', from this run or from an earlier result, is told of a guest that nobody else
   changed since the verification first read it: the status is compared as a whole, and what
   changes the guest always moves it to a later one. *)
THEOREM CurrentPass == Spec => []PassIsCurrent
  <1>1. HostIInv => PassIsCurrent
    BY DEF HostIInv
  <1>2. QED
    BY <1>1, HostInductive, PTL
=============================================================================
