--------------------------- MODULE ExitRetention ---------------------------
(***************************************************************************)
(* How the service learns why its managed process ended                    *)
(* (mcp/exit_retention.py): the watcher thread that retains a handle of    *)
(* the target, the helper process that the system starts when the target   *)
(* exits (mcp/exit_monitor.py), the thread that stops the run              *)
(* (mcp/supervisor.py), its one-use stop intent (mcp/exit_intent.py), and  *)
(* the diagnostic processes that read and write the files they exchange    *)
(* (mcp/diagnostic_process.py).                                            *)
(*                                                                         *)
(* A diagnostic call that expires leaves its process pending: what it was  *)
(* asked to write may still be written.  Deadlines pass at any time after  *)
(* they are set.  Intents are numbered; 0 is none.                         *)
(***************************************************************************)
EXTENDS Naturals, FiniteSets

CONSTANTS
    MaxStops,       \* bound: stops of the live process, each publishes at most one intent
    None

ASSUME RetentionConstants == MaxStops \in Nat \ {0}

VARIABLES
    target, cause,      \* the managed process, and how it ended
    helper, hres,       \* the helper process, and the report it is going to write
    files,              \* the exchange directory
    flight,             \* who owns the machine-wide SingleFlight mutex
    intent,             \* StopIntent: current, publishing, consumed, seq
    ifile, expired,     \* stop-intent.json; the intents whose grace is over
    diag, idiag,        \* _diagnostics, _intent_diagnostics: an expired call that is pending
    own,                \* _target, _helper or its Job, _helper_scan_required
    window,             \* deadline: "open" (not set), "set", "over"
    watch, rep, fin,    \* _watch: its position, its report, the release in progress
    result, initFailed, ownerDump,
    sup, stops, job, \* stop(): its position, a grace timeout, the managed Job
    acquired, revoked   \* history: a helper was pinned; intents revoked before its end

targetVars == <<target, cause>>
helperVars == <<helper, hres>>
intentVars == <<intent, ifile, expired, idiag, revoked>>
watchVars == <<own, window, watch, rep, fin, result, initFailed, acquired>>
supVars == <<ownerDump, sup, stops, job>>
vars == <<targetVars, helperVars, files, flight, intentVars, diag, watchVars, supVars>>

NoReport == [complete |-> FALSE, class |-> "none"]
Retained(r) == [complete |-> r.complete, class |-> r.class, ended |-> FALSE, closed |-> FALSE]

Init ==
    /\ target = "alive" /\ cause = "none"
    /\ helper = "none" /\ hres = "none"
    /\ files = [entry |-> FALSE, acquired |-> FALSE, claim |-> 0, answer |-> "none",
                dump |-> "none", result |-> "none", published |-> FALSE]
    /\ flight = "free"
    /\ intent = [current |-> 0, publishing |-> 0, consumed |-> FALSE, seq |-> 0]
    /\ ifile = 0 /\ expired = {} /\ diag = None /\ idiag = None
    /\ own = [t |-> FALSE, h |-> FALSE, scan |-> FALSE] /\ window = "open"
    /\ watch = "init" /\ rep = NoReport /\ fin = None /\ result = None
    /\ initFailed = FALSE /\ ownerDump = FALSE
    /\ sup = "idle" /\ stops = 0 /\ job = TRUE
    /\ acquired = FALSE /\ revoked = {}

----------------------------------------------------------------------------
(* Diagnostic calls. *)

(* collect_owner_dump() holds _call_lock while it collects. *)
LockFree == sup # "collecting"

Reading == [file |-> "none", value |-> FALSE]

(* A call without an effect: it answers, or fails, or expires and stays pending; while one
   is pending every other is refused. *)
ReadCall(Ok, Err) ==
    /\ LockFree
    /\ \/ diag = None /\ Ok /\ UNCHANGED diag
       \/ Err /\ diag' \in (IF diag = None THEN {None, Reading} ELSE {diag})

Written(f, v) == [files EXCEPT ![f] = v]

(* 'exit-publish': an expired one may still be made. *)
PublishCall(f, v, Ok, Err) ==
    /\ LockFree
    /\ \/ diag = None /\ files' = Written(f, v) /\ Ok /\ UNCHANGED diag
       \/ /\ Err
          /\ diag' \in (IF diag = None THEN {None, [file |-> f, value |-> v]} ELSE {diag})
          /\ UNCHANGED files

(* The pending process ends, with its effect or without. *)
LateEnd ==
    /\ diag # None /\ diag' = None
    /\ files' \in {files} \cup (IF diag.file = "none" THEN {} ELSE {Written(diag.file, diag.value)})
    /\ UNCHANGED <<targetVars, helperVars, flight, intentVars, watchVars, supVars>>

LateIntentEnd ==
    /\ idiag # None /\ idiag' = None
    /\ ifile' \in {ifile, idiag}
    /\ UNCHANGED <<targetVars, helperVars, files, flight, intent, expired, revoked, diag,
                   watchVars, supVars>>

----------------------------------------------------------------------------
(* The stop intent. *)

(* invalidate(), the part in memory. *)
Revoke ==
    /\ intent' = [intent EXCEPT !.current = 0, !.publishing = 0, !.consumed = FALSE]
    /\ revoked' = IF helper = "ended" THEN revoked
                  ELSE revoked \cup ({intent.current, intent.publishing} \ {0})

IntentBusy == idiag # None \/ sup = "writing"
Removed == ~IntentBusy /\ ifile' = 0 /\ UNCHANGED idiag
NotRemoved ==
    UNCHANGED ifile /\ idiag' \in (IF IntentBusy THEN {idiag} ELSE {None, 0})
Remove == Removed \/ NotRemoved

Unlink == ifile' \in {0, ifile} /\ UNCHANGED idiag

Live(n) == n # 0 /\ intent.current = n /\ n \notin expired

GracePasses ==
    /\ intent.seq \notin expired \cup {0} /\ expired' = expired \cup {intent.seq}
    /\ UNCHANGED <<targetVars, helperVars, files, flight, intent, ifile, idiag, revoked, diag,
                   watchVars, supVars>>

----------------------------------------------------------------------------
(* The target and the helper. *)

(* By itself: normally, as a stop asks for, or any other way. *)
TargetExits(c) ==
    /\ target = "alive" /\ target' = "exiting" /\ cause' = c
    /\ UNCHANGED <<helperVars, files, flight, intentVars, diag, watchVars, supVars>>

TargetGone ==
    /\ target = "exiting" /\ target' = "exited"
    /\ UNCHANGED <<cause, helperVars, files, flight, intentVars, diag, watchVars, supVars>>

HelperStep == UNCHANGED <<targetVars, intentVars, diag, watchVars, supVars>>

HelperStarts ==
    /\ target = "exiting" /\ helper = "none" /\ helper' = "started"
    /\ UNCHANGED <<hres, files, flight>> /\ HelperStep

(* The target can be opened for as long as it, or a handle of it, exists. *)
HelperEnters ==
    /\ helper = "started" /\ flight = "free" /\ (target # "exited" \/ own.t)
    /\ flight' = "helper" /\ files' = Written("entry", TRUE) /\ helper' = "entered"
    /\ UNCHANGED hres /\ HelperStep

(* claim(): an intent that is on disk and not over, for a normal exit only. *)
HelperClaims ==
    /\ helper = "entered" /\ files.acquired
    /\ IF cause = "clean" /\ ifile # 0 /\ ifile \notin expired
       THEN files' = Written("claim", ifile) /\ helper' = "waiting"
       ELSE helper' = "dumping" /\ UNCHANGED files
    /\ UNCHANGED <<hres, flight>> /\ HelperStep

HelperAnswered ==
    /\ helper = "waiting"
    /\ \/ files.answer = "yes" /\ helper' = "closing" /\ hres' = "normal"
       \/ (files.answer = "no" \/ files.claim \in expired) /\ helper' = "dumping" /\ UNCHANGED hres
    /\ UNCHANGED <<files, flight>> /\ HelperStep

(* A dump that exists is not replaced; any failure after the entry is reported. *)
HelperDumps ==
    /\ helper = "dumping" /\ target # "exited" /\ files.dump = "none"
    /\ files' = Written("dump", "helper") /\ hres' = "dumped" /\ helper' = "closing"
    /\ UNCHANGED flight /\ HelperStep

HelperFails ==
    /\ helper \in {"entered", "waiting", "dumping"} /\ hres' = "failed" /\ helper' = "closing"
    /\ UNCHANGED <<files, flight>> /\ HelperStep

Freed(who) == IF flight = who THEN "free" ELSE flight

(* The last thing it does. *)
HelperReports ==
    /\ helper = "closing" /\ files' = Written("result", hres)
    /\ helper' = "ended" /\ hres' = "none" /\ flight' = Freed("helper") /\ HelperStep

(* It rejects the notification, or its watchdog ends it. *)
HelperEnds ==
    /\ helper \notin {"none", "ended"} /\ helper' = "ended" /\ hres' = "none" /\ flight' = Freed("helper")
    /\ UNCHANGED files /\ HelperStep

Helper ==
    \/ HelperStarts \/ HelperEnters \/ HelperClaims \/ HelperAnswered \/ HelperDumps
    \/ HelperFails \/ HelperReports \/ HelperEnds

----------------------------------------------------------------------------
(* The watcher. *)

At(p) == watch' = p /\ UNCHANGED <<rep, fin>>
Begin(by, at, r) == watch' = "finish" /\ fin' = [by |-> by, at |-> at] /\ rep' = r

(* initialize(): the target is pinned, then 'exit-init'. *)
Initialize ==
    /\ watch = "init"
    /\ \/ /\ watch' = "poll" /\ own' = [own EXCEPT !.t = TRUE]
          /\ UNCHANGED <<diag, result, initFailed>>
       \/ /\ watch' = "done" /\ initFailed' = TRUE /\ result' = Retained(NoReport)
          /\ \E t \in BOOLEAN : own' = [own EXCEPT !.t = t]
          /\ diag' \in (IF own'.t THEN {None, Reading} ELSE {None})
    /\ UNCHANGED <<targetVars, helperVars, files, flight, intentVars, window, rep, fin,
                   acquired, supVars>>

WatchStep == UNCHANGED <<targetVars, helperVars, flight, supVars>>

(* One turn: the deadline is set when the target has ended, an error of the read is retried. *)
WatchPolls ==
    /\ watch = "poll" /\ window # "over"
    /\ window' = IF window = "open" /\ target = "exited" THEN "set" ELSE window
    /\ ReadCall(At(IF own.h THEN "claim" ELSE IF files.entry THEN "open" ELSE "poll"), At("poll"))
    /\ UNCHANGED <<files, intentVars, own, result, initFailed, acquired>> /\ WatchStep

WindowPasses ==
    /\ window = "set" /\ window' = "over"
    /\ UNCHANGED <<targetVars, helperVars, files, flight, intentVars, diag, own, watch, rep, fin,
                   result, initFailed, acquired, supVars>>

(* _open_helper() keeps the handle once the identity is verified; the helper waits for the
   acknowledgment that follows. *)
WatchAcquires ==
    /\ watch = "open"
    /\ \/ /\ helper # "ended" /\ own' = [own EXCEPT !.h = TRUE] /\ acquired' = TRUE
          /\ PublishCall("acquired", TRUE, At("claim"), At("fail"))
          /\ window' = IF window = "open" /\ watch' = "claim" THEN "set" ELSE window
       \/ UNCHANGED <<own, acquired, files, diag, window>> /\ At("fail")
    /\ UNCHANGED <<intentVars, result, initFailed>> /\ WatchStep

(* The last part of a turn: has the helper ended? *)
Queried == IF helper = "ended" THEN "result" ELSE "poll"

WatchReadsClaim ==
    /\ watch = "claim"
    /\ ReadCall(At(IF files.claim # 0 /\ files.answer = "none" THEN "accept" ELSE Queried), At("fail"))
    /\ UNCHANGED <<files, intentVars, own, window, result, initFailed, acquired>> /\ WatchStep

(* accept_normal(): the live intent is consumed once; if its file cannot be removed it is
   withdrawn. *)
WatchAccepts ==
    /\ watch = "accept"
    /\ LET valid == Live(files.claim) /\ ~intent.consumed /\ cause = "clean" IN
       \/ /\ Removed /\ intent' = [intent EXCEPT !.consumed = @ \/ valid]
          /\ At(IF valid THEN "answer_yes" ELSE "answer_no") /\ UNCHANGED revoked
       \/ /\ NotRemoved /\ At("answer_no")
          /\ intent' = [intent EXCEPT !.current = 0, !.consumed = FALSE]
          /\ revoked' = IF intent.current = 0 THEN revoked ELSE revoked \cup {intent.current}
    /\ UNCHANGED <<files, diag, expired, own, window, result, initFailed, acquired>> /\ WatchStep

WatchAnswers ==
    /\ watch \in {"answer_yes", "answer_no"}
    /\ PublishCall("answer", IF watch = "answer_yes" THEN "yes" ELSE "no", At(Queried), At("fail"))
    /\ UNCHANGED <<intentVars, own, window, result, initFailed, acquired>> /\ WatchStep

(* Faulty: the acknowledgment alone is enough. *)
ConsumedOnly(n) == files.answer = "yes"
(* normal_is_valid() *)
NormalIsValid(n) == intent.consumed /\ Live(n)

(* _check_result(): a normal exit is revalidated, a dump is verified in a process that needs
   the SingleFlight. *)
Accepted ==
    \/ files.result = "normal" /\ NormalIsValid(files.claim)
    \/ files.result = "dumped" /\ files.dump # "none" /\ flight = "free"
    \/ files.result = "failed"

WatchChecks ==
    /\ watch = "result"
    /\ ReadCall(IF Accepted
                THEN Begin("watch", "helper",
                           IF files.result = "failed" THEN NoReport
                           ELSE [complete |-> TRUE, class |-> files.result])
                ELSE At("fail"), At("fail"))
    /\ UNCHANGED <<files, intentVars, own, window, result, initFailed, acquired>> /\ WatchStep

(* The window is over: revoke, wait for pending calls, release. *)
WatchExpires ==
    /\ watch = "poll" /\ window = "over" /\ Revoke /\ Remove /\ At("drain")
    /\ UNCHANGED <<files, expired, diag, own, window, result, initFailed, acquired>> /\ WatchStep

(* Faulty: no budget, a process that never ends is waited for. *)
DrainsForever ==
    /\ watch = "drain" /\ diag = None /\ idiag = None
    /\ Begin(IF own.h THEN "watch" ELSE "expire", "end", NoReport)
    /\ UNCHANGED <<files, intentVars, diag, own, window, result, initFailed, acquired>> /\ WatchStep
(* Without a helper the rest is done without diagnostic processes (_finish_local). *)
WatchDrains ==
    /\ watch = "drain"
    /\ \/ /\ diag = None /\ idiag = None
          /\ Begin(IF own.h THEN "watch" ELSE "expire", "end",
                   [complete |-> ownerDump,
                    class |-> IF ownerDump THEN "dumped" ELSE "none"])
       \/ (diag # None \/ idiag # None) /\ At("fail")
    /\ UNCHANGED <<files, intentVars, diag, own, window, result, initFailed, acquired>> /\ WatchStep

(* Any other exception: revoke, end the helper, release. *)
WatchFails ==
    /\ watch = "fail" /\ Revoke /\ Unlink /\ Begin("fail", "end", NoReport)
    /\ UNCHANGED <<files, expired, diag, own, window, result, initFailed, acquired>> /\ WatchStep

----------------------------------------------------------------------------
(* _end_helpers() and _finish(), in the watcher and in settle(). *)

FinAt(at) == fin # None /\ fin.at = at
(* _finish_local(), or settle() after a failed initialization *)
Local == initFailed \/ fin.by = "expire"
Onward(at) == fin' = [fin EXCEPT !.at = at] /\ UNCHANGED <<watch, rep, result, sup>>

(* An exception: the first pass goes through the failure path, which keeps what it could
   not release; settle() records what is released and tries again. *)
Raises ==
    /\ fin' = None /\ UNCHANGED rep
    /\ CASE fin.by = "fail" -> watch' = "done" /\ result' = Retained(rep) /\ UNCHANGED sup
         [] fin.by = "settle" ->
              /\ result' = [Retained(rep) EXCEPT !.ended = ~own'.h, !.closed = ~own'.t]
              /\ UNCHANGED <<watch, sup>>
         [] OTHER -> watch' = "fail" /\ UNCHANGED <<result, sup>>

FinStep == UNCHANGED <<targetVars, expired, window, initFailed, acquired,
                       ownerDump, stops, job>>

(* Only a helper that was pinned is looked for. *)
FinEnd ==
    /\ FinAt("end")
    /\ IF own.h
       THEN \/ /\ helper' = "ended" /\ hres' = "none" /\ flight' = Freed("helper")
               /\ ReadCall(Onward("helper"), Raises)
            \/ helper # "ended" /\ Raises /\ UNCHANGED <<helperVars, flight, diag>>
       ELSE Onward("helper") /\ UNCHANGED <<helperVars, flight, diag>>
    /\ UNCHANGED <<files, intent, ifile, idiag, revoked, own>> /\ FinStep

(* Faulty: the retained target is not asked. *)
DiagnosticGate == diag = None /\ idiag = None
(* _release_gate() *)
ReleaseGate == diag = None /\ idiag = None /\ (own.t => target = "exited")

(* The helper has ended, but its Job may still have members: it is kept with its Job. *)
FinHelper ==
    /\ FinAt("helper")
    /\ \/ own.h /\ own' = [own EXCEPT !.scan = TRUE] /\ Raises
       \/ /\ own.h => helper = "ended"
          /\ own' = [own EXCEPT !.h = FALSE, !.scan = @ \/ own.h]
          /\ IF ReleaseGate THEN Onward(IF own'.scan THEN "scan" ELSE "close") ELSE Raises
    /\ UNCHANGED <<helperVars, flight, files, intent, ifile, idiag, revoked, diag>> /\ FinStep

FinScan ==
    /\ FinAt("scan")
    /\ ReadCall(helper \in {"none", "ended"} /\ own' = [own EXCEPT !.scan = FALSE]
                          /\ Onward("close"), UNCHANGED own /\ Raises)
    /\ UNCHANGED <<helperVars, flight, files, intent, ifile, idiag, revoked>> /\ FinStep

Ends == fin' = None /\ IF fin.by = "settle" THEN sup' = "idle" /\ UNCHANGED watch
                       ELSE watch' = "done" /\ UNCHANGED sup

(* The intent is revoked for good, then the target is let go. *)
FinClose ==
    /\ FinAt("close") /\ Revoke /\ (IF Local THEN Unlink ELSE Remove)
    /\ IF idiag' = None /\ ReleaseGate
       THEN /\ own' = [own EXCEPT !.t = FALSE] /\ UNCHANGED rep
            /\ result' = [complete |-> rep.complete, class |-> rep.class,
                          ended |-> TRUE, closed |-> TRUE]
            /\ IF initFailed THEN Ends
               ELSE fin' = [fin EXCEPT !.at = "publish"] /\ UNCHANGED <<watch, sup>>
       ELSE UNCHANGED own /\ Raises
    /\ UNCHANGED <<helperVars, flight, files, diag>> /\ FinStep

FinPublish ==
    /\ FinAt("publish") /\ UNCHANGED own
    /\ LET Ok == Ends /\ UNCHANGED <<rep, result>> IN
       IF Local THEN /\ \/ files' = Written("published", TRUE) /\ Ok
                        \/ UNCHANGED files /\ Raises
                     /\ UNCHANGED diag
       ELSE PublishCall("published", TRUE, Ok, Raises)
    /\ UNCHANGED <<helperVars, flight, intent, ifile, idiag, revoked>> /\ FinStep

Finish == FinEnd \/ FinHelper \/ FinScan \/ FinClose \/ FinPublish

Watch ==
    \/ Initialize \/ WatchPolls \/ WatchAcquires \/ WatchReadsClaim
    \/ WatchAccepts \/ WatchAnswers \/ WatchChecks
    \/ WatchExpires \/ WatchDrains \/ WatchFails \/ Finish

(* resources_ended() *)
ResourcesEnded ==
    watch = "done" /\ ~own.t /\ ~own.h /\ diag = None /\ idiag = None

----------------------------------------------------------------------------
(* stop() of the supervisor, as far as it takes part. *)

SupStep == UNCHANGED <<helperVars, watchVars>>
Go(p) == sup' = p
SupOnly == UNCHANGED <<targetVars, files, flight, diag, ownerDump, job>>

(* An exception before the process has left: the intent is revoked, and a grace timeout
   asks for a dump. *)
GiveUp(late) ==
    Revoke /\ Remove /\ Go(IF late THEN "dump" ELSE "terminate")

(* The 'stacks' request comes first: if it fails, or times out, nothing is published.  Then
   publish(): refused while one is active; a diagnostic process writes the file. *)
StopBegins ==
    /\ sup = "idle" /\ watch # "init" /\ job /\ stops < MaxStops /\ stops' = stops + 1
    /\ \/ \E late \in BOOLEAN : GiveUp(late)
       \/ /\ intent.current = 0 /\ intent.publishing = 0 /\ idiag = None
          /\ intent' = [intent EXCEPT !.seq = @ + 1, !.publishing = intent.seq + 1]
          /\ Go("writing") /\ UNCHANGED <<revoked, ifile, idiag>>
    /\ UNCHANGED expired /\ SupOnly /\ SupStep

(* A stop after the process was given up, or the next start, only settles. *)
StopAgain ==
    /\ sup = "idle" /\ ~job /\ Go("await")
    /\ UNCHANGED <<intentVars, stops>> /\ SupOnly /\ SupStep

(* An error of the write is no TimeoutError: the intent is revoked without a dump.  The
   removal of the file is refused while the write is pending; a write that was made too
   late may have to be removed. *)
StopWrites ==
    /\ sup = "writing"
    /\ \/ ifile' = intent.seq /\ UNCHANGED <<intent, revoked, idiag>> /\ Go("confirm")
       \/ /\ Revoke /\ Go("terminate")
          /\ \/ idiag' = intent.seq /\ UNCHANGED ifile
             \/ ifile' = 0 /\ UNCHANGED idiag
             \/ ifile' \in {ifile, intent.seq} /\ idiag' \in {None, 0}
    /\ UNCHANGED <<expired, stops>> /\ SupOnly /\ SupStep

(* Current only if it was not revoked meanwhile and the grace is not over. *)
StopConfirms ==
    /\ sup = "confirm"
    /\ IF intent.publishing = intent.seq /\ intent.seq \notin expired
       THEN /\ intent' = [intent EXCEPT !.current = intent.seq, !.publishing = 0, !.consumed = FALSE]
            /\ Go("waiting") /\ UNCHANGED <<revoked, ifile, idiag>>
       ELSE GiveUp(FALSE)
    /\ UNCHANGED <<expired, stops>> /\ SupOnly /\ SupStep

(* The process leaves in time, or the request fails, or the grace is over. *)
StopWaits ==
    /\ sup = "waiting"
    /\ \/ target = "exited" /\ Go("terminate") /\ UNCHANGED <<intent, revoked, ifile, idiag>>
       \/ GiveUp(FALSE)
       \/ intent.seq \in expired /\ GiveUp(TRUE)
    /\ UNCHANGED <<expired, stops>> /\ SupOnly /\ SupStep

(* Faulty: as with force, and without the SingleFlight. *)
DumpsAtOnce ==
    /\ sup = "dump"
    /\ Go(IF own.t /\ target # "exited" /\ files.dump = "none" THEN "collecting" ELSE "terminate")
    /\ UNCHANGED <<targetVars, files, flight, diag, intentVars, ownerDump, stops, job>> /\ SupStep
(* collect_owner_dump(): not for an ended target, beside a helper, or over a dump; a flight
   that is taken is waited for, until the entry of a helper for this target is seen. *)
StopDumps ==
    /\ sup = "dump"
    /\ \/ (~own.t \/ target = "exited" \/ own.h \/ files.dump # "none") /\ Go("terminate")
          /\ UNCHANGED <<flight, diag>>
       \/ own.t /\ target # "exited" /\ ~own.h /\ files.dump = "none" /\ flight = "free"
          /\ flight' = "owner" /\ Go("collecting") /\ UNCHANGED diag
       \/ flight # "free" /\ ReadCall(Go(IF files.entry THEN "terminate" ELSE "dump"), Go("terminate"))
          /\ UNCHANGED flight
    /\ UNCHANGED <<targetVars, files, intentVars, ownerDump, stops, job>> /\ SupStep

(* Under _call_lock; then the flight is given back. *)
StopCollects ==
    /\ sup = "collecting" /\ flight' = Freed("owner")
    /\ \/ target # "exited" /\ files' = Written("dump", "owner") /\ Go("verify")
       \/ UNCHANGED files /\ Go("terminate")
    /\ UNCHANGED <<targetVars, intentVars, diag, ownerDump, stops, job>> /\ SupStep

StopVerifies ==
    /\ sup = "verify"
    /\ ReadCall(flight = "free" /\ ownerDump' = TRUE /\ Go("terminate"), Go("terminate") /\ UNCHANGED ownerDump)
    /\ UNCHANGED <<targetVars, files, flight, intentVars, stops, job>> /\ SupStep

StopTerminates ==
    /\ sup = "terminate"
    /\ \/ /\ target' = "exited" /\ cause' = IF target = "alive" THEN "job" ELSE cause
          /\ job' = FALSE /\ Go("await")
       \/ UNCHANGED <<targetVars, job>> /\ Go("idle")
    /\ UNCHANGED <<files, flight, intentVars, diag, ownerDump, stops>> /\ SupStep

(* _await_exit_evidence(): until the watcher is done or the deadline passes, then settle(). *)
StopAwaits ==
    /\ sup = "await"
    /\ Go(IF watch = "done" /\ ~(result.ended /\ result.closed /\ ResourcesEnded) THEN "settle" ELSE "idle")
    /\ UNCHANGED <<intentVars, stops>> /\ SupOnly /\ SupStep

(* settle(): the same release, once the objects that are left have ended. *)
Settle ==
    /\ sup = "settle" /\ fin = None
    /\ \/ /\ own.h => helper = "ended"
          /\ own.t => target = "exited"
          /\ fin' = [by |-> "settle", at |-> "helper"] /\ UNCHANGED sup
       \/ Go("idle") /\ UNCHANGED fin
    /\ UNCHANGED <<intentVars, stops, own, window, watch, rep, result, initFailed, acquired>>
    /\ SupOnly /\ UNCHANGED helperVars

StopGoesOn ==
    \/ StopWrites \/ StopConfirms \/ StopWaits \/ StopDumps \/ StopCollects
    \/ StopVerifies \/ StopTerminates \/ StopAwaits \/ Settle

Next ==
    \/ \E c \in {"clean", "other"} : TargetExits(c)
    \/ TargetGone \/ Helper \/ Watch \/ StopBegins \/ StopAgain \/ StopGoesOn
    \/ GracePasses \/ WindowPasses \/ LateEnd \/ LateIntentEnd

(* Threads are scheduled and deadlines pass. *)
Fairness == WF_vars(Watch) /\ WF_vars(StopGoesOn) /\ WF_vars(WindowPasses)

Spec == Init /\ [][Next]_vars /\ Fairness

----------------------------------------------------------------------------
(* What the owner reports as released has ended: the target, the helper if it was ever
   pinned, and every diagnostic process, so nothing of this run is written later. *)
ReleasedIsEnded ==
    result # None /\ result.ended /\ result.closed /\ ResourcesEnded =>
      /\ target = "exited" \/ initFailed
      /\ acquired => helper = "ended"
      /\ flight # "owner" \/ sup = "collecting"

(* An exit is reported as a controlled normal one only if the target ended normally and
   its claim was accepted from the live stop attempt, which was not revoked before the
   helper had ended: not from a stale file, a late answer or an earlier attempt. *)
NormalIsAuthorized ==
    result # None /\ result.complete /\ result.class = "normal" =>
      cause = "clean" /\ files.claim \notin revoked \cup {0} /\ files.answer = "yes"

(* Evidence is not lost: a dump that is there is never replaced by the other writer, and
   a complete report that is not a normal exit names a dump that is there. *)
EvidenceIsKept ==
    [][/\ files.dump # "none" => files'.dump = files.dump
       /\ result' # None /\ result'.complete /\ result'.class # "normal" => files'.dump # "none"]_vars

(* When the target has ended the watcher ends, whatever hangs. *)
WatchEnds == target = "exited" ~> watch = "done"

(* An absent handle is no proof of absence: no helper runs when the owner says that the
   helper has ended. *)
NoHelperLeft ==
    result # None /\ result.ended => helper \in {"none", "ended"}
=============================================================================
