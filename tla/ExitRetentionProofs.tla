------------------------ MODULE ExitRetentionProofs ------------------------
(***************************************************************************)
(* Proofs about ExitRetention, for any number of stops and intents and any *)
(* failure, expiry or late effect of a diagnostic call: the inductive      *)
(* invariant RetentionInv, and from it that what is reported as released   *)
(* has ended, that an exit is called normal only on an authorisation, and  *)
(* that a dump is never replaced.                                          *)
(***************************************************************************)
EXTENDS ExitRetention, TLAPS

Files ==
    [entry : BOOLEAN, acquired : BOOLEAN, claim : Nat, answer : {"none", "yes", "no"},
     dump : {"none", "helper", "owner"}, result : {"none", "normal", "dumped", "failed"},
     published : BOOLEAN]
(* What an expired call may still do. *)
Pending ==
    {Reading, [file |-> "acquired", value |-> TRUE], [file |-> "published", value |-> TRUE],
     [file |-> "answer", value |-> "yes"], [file |-> "answer", value |-> "no"]}
Intents == [current : Nat, publishing : Nat, consumed : BOOLEAN, seq : Nat]
Handles == [t : BOOLEAN, h : BOOLEAN, scan : BOOLEAN]
Releases ==
    [by : {"watch", "expire", "fail", "settle"},
     at : {"end", "helper", "scan", "close", "publish"}]

(* The types that the steps rely on. *)
RetentionTypeOK ==
    /\ files \in Files
    /\ own \in Handles
    /\ intent \in Intents
    /\ ifile \in Nat /\ (idiag # None => idiag \in Nat)
    /\ hres \in {"none", "normal", "dumped", "failed"}
    /\ diag # None => diag \in Pending
    /\ fin # None => fin \in Releases

(* The helper: it starts when the target ends, holds the flight while it works, is pinned
   only when it exists, and claims an intent for a normal exit alone. *)
HelperInv ==
    /\ helper # "none" => target # "alive"
    /\ files.entry \/ own.h => helper # "none"
    /\ watch = "open" => files.entry
    /\ helper \in {"entered", "waiting", "dumping", "closing"} => flight = "helper"
    /\ acquired => own.h \/ helper = "ended"
    /\ files.claim # 0 => cause = "clean" /\ target # "alive"

(* The target stays pinned until it has exited. *)
TargetInv == watch # "init" /\ ~initFailed => own.t \/ target = "exited"

(* The owner's dump: it is written under the flight, where no dump was. *)
DumpInv ==
    /\ flight = "owner" <=> sup = "collecting"
    /\ sup = "collecting" => files.dump = "none"
    /\ sup = "verify" \/ ownerDump => files.dump # "none"

(* An intent that was revoked is never current again. *)
IntentInv ==
    /\ \A n \in revoked : n \in Nat /\ n <= intent.seq
    /\ intent.current <= intent.seq
    /\ intent.current # 0 => intent.current \notin revoked
    /\ intent.publishing # 0 =>
         intent.publishing = intent.seq /\ intent.current = 0 /\ intent.seq \notin revoked

(* The answer is written once; a late one only when the watcher has failed. *)
AnswerInv ==
    /\ watch \in {"accept", "answer_yes", "answer_no"} => files.answer = "none"
    /\ diag # None /\ diag.file = "answer" =>
         files.answer = "none" /\ watch \in {"fail", "finish", "done"}
    /\ hres = "normal" \/ files.result = "normal" => files.answer = "yes"
    /\ watch = "result" => helper = "ended"

(* One release at a time: the watcher's, or that of settle() when the watcher is done. *)
ReleaseInv ==
    /\ sup = "settle" => watch = "done"
    /\ fin # None => IF fin.by = "settle" THEN sup = "settle" ELSE watch = "finish"

(* What a report of a normal exit rests on, and that nothing can change any more. *)
Authorized ==
    /\ cause = "clean" /\ target # "alive" /\ helper = "ended"
    /\ files.claim \notin revoked \cup {0} /\ files.answer = "yes"
    /\ watch \in {"finish", "fail", "done"}
    /\ diag # None => diag.file # "answer"

(* A report says no more than what is known. *)
Founded(r) ==
    r.complete => IF r.class = "normal" THEN Authorized ELSE files.dump # "none"
ReportInv == Founded(rep) /\ (result # None => Founded(result))

RetentionInv ==
    /\ RetentionTypeOK /\ HelperInv /\ TargetInv /\ DumpInv /\ IntentInv /\ AnswerInv
    /\ ReleaseInv /\ ReportInv

----------------------------------------------------------------------------
(* What the shared parts of the steps do. *)

(* A late write changes the one file it is about. *)
LEMMA LateWrite ==
    ASSUME files \in Files, NEW call \in Pending, call.file # "none"
    PROVE  LET after == Written(call.file, call.value) IN
           /\ after \in Files
           /\ after.entry = files.entry /\ after.claim = files.claim
           /\ after.dump = files.dump /\ after.result = files.result
           /\ call.file # "answer" => after.answer = files.answer
  <1>1. CASE call = [file |-> "acquired", value |-> TRUE]
    BY <1>1 DEF Written, Files
  <1>2. CASE call = [file |-> "published", value |-> TRUE]
    BY <1>2 DEF Written, Files
  <1>3. CASE call = [file |-> "answer", value |-> "yes"]
    BY <1>3 DEF Written, Files
  <1>4. CASE call = [file |-> "answer", value |-> "no"]
    BY <1>4 DEF Written, Files
  <1> QED
    BY <1>1, <1>2, <1>3, <1>4 DEF Pending, Reading

(* invalidate(): nothing is current or being published, and what was current is among the
   revoked, unless the helper has ended. *)
LEMMA RevokeIs ==
    ASSUME intent \in Intents, IntentInv, Revoke
    PROVE  /\ intent' \in Intents /\ IntentInv'
           /\ helper = "ended" => revoked' = revoked
  <1>1. intent' \in Intents
    BY DEF Revoke, Intents
  <1>2. intent'.current = 0 /\ intent'.publishing = 0 /\ intent'.seq = intent.seq
    BY DEF Revoke, Intents
  <1>3. \A n \in revoked' : n \in Nat /\ n <= intent'.seq
    BY <1>2 DEF Revoke, IntentInv, Intents
  <1>4. IntentInv'
    BY <1>1, <1>2, <1>3 DEF IntentInv, Intents
  <1>5. helper = "ended" => revoked' = revoked
    BY DEF Revoke
  <1> QED
    BY <1>1, <1>4, <1>5

(* Any file that a step writes keeps its type. *)
LEMMA WrittenTyped ==
    ASSUME files \in Files
    PROVE  /\ Written("entry", TRUE) \in Files /\ Written("acquired", TRUE) \in Files
           /\ Written("published", TRUE) \in Files
           /\ \A n \in Nat : Written("claim", n) \in Files
           /\ \A a \in {"yes", "no"} : Written("answer", a) \in Files
           /\ \A d \in {"helper", "owner"} : Written("dump", d) \in Files
           /\ \A r \in {"none", "normal", "dumped", "failed"} : Written("result", r) \in Files
  <1>1. ASSUME NEW b \in BOOLEAN
        PROVE  /\ Written("entry", b) \in Files /\ Written("acquired", b) \in Files
               /\ Written("published", b) \in Files
    BY <1>1 DEF Written, Files
  <1>2. TRUE \in BOOLEAN
    BY Zenon
  <1>3. /\ Written("entry", TRUE) \in Files /\ Written("acquired", TRUE) \in Files
        /\ Written("published", TRUE) \in Files
    BY <1>1, <1>2, Zenon
  <1>4. /\ \A n \in Nat : Written("claim", n) \in Files
        /\ \A a \in {"yes", "no"} : Written("answer", a) \in Files
    BY DEF Written, Files
  <1>5. /\ \A d \in {"helper", "owner"} : Written("dump", d) \in Files
        /\ \A r \in {"none", "normal", "dumped", "failed"} : Written("result", r) \in Files
    BY DEF Written, Files
  <1> QED
    BY <1>3, <1>4, <1>5

(* So do the handles. *)
LEMMA HandlesTyped ==
    ASSUME own \in Handles
    PROVE  /\ \A b \in BOOLEAN : [own EXCEPT !.t = b] \in Handles
           /\ [own EXCEPT !.t = TRUE] \in Handles /\ [own EXCEPT !.t = FALSE] \in Handles
           /\ [own EXCEPT !.h = TRUE] \in Handles /\ [own EXCEPT !.scan = FALSE] \in Handles
           /\ [own EXCEPT !.scan = TRUE] \in Handles
           /\ [own EXCEPT !.h = FALSE, !.scan = own.scan \/ own.h] \in Handles
  <1>1. ASSUME NEW b \in BOOLEAN, NEW c \in BOOLEAN
        PROVE  /\ [own EXCEPT !.t = b] \in Handles /\ [own EXCEPT !.h = b] \in Handles
               /\ [own EXCEPT !.scan = b] \in Handles
               /\ [own EXCEPT !.h = b, !.scan = c] \in Handles
    BY <1>1 DEF Handles
  <1>2. TRUE \in BOOLEAN /\ FALSE \in BOOLEAN /\ (own.scan \/ own.h) \in BOOLEAN
    BY Zenon
  <1> QED
    BY <1>1, <1>2, Zenon

(* So do intents. *)
LEMMA IntentsTyped ==
    ASSUME intent \in Intents
    PROVE  /\ [intent EXCEPT !.seq = @ + 1, !.publishing = intent.seq + 1] \in Intents
           /\ [intent EXCEPT !.current = intent.seq, !.publishing = 0, !.consumed = FALSE]
                \in Intents
           /\ [intent EXCEPT !.current = 0, !.consumed = FALSE] \in Intents
           /\ \A v \in BOOLEAN : [intent EXCEPT !.consumed = @ \/ v] \in Intents
  <1>1. ASSUME NEW m \in Nat, NEW n \in Nat
        PROVE  [intent EXCEPT !.seq = m, !.publishing = n] \in Intents
    BY <1>1 DEF Intents
  <1>2. ASSUME NEW m \in Nat, NEW n \in Nat, NEW b \in BOOLEAN
        PROVE  /\ [intent EXCEPT !.current = m, !.publishing = n, !.consumed = b] \in Intents
               /\ [intent EXCEPT !.current = m, !.consumed = b] \in Intents
               /\ [intent EXCEPT !.consumed = b] \in Intents
    BY <1>2 DEF Intents
  <1>3. intent.seq \in Nat /\ intent.seq + 1 \in Nat /\ 0 \in Nat
    BY DEF Intents
  <1>4. [intent EXCEPT !.seq = @ + 1, !.publishing = intent.seq + 1] \in Intents
    BY <1>1, <1>3
  <1>5. FALSE \in BOOLEAN /\ \A v \in BOOLEAN : (intent.consumed \/ v) \in BOOLEAN
    BY Zenon
  <1>6. /\ [intent EXCEPT !.current = intent.seq, !.publishing = 0, !.consumed = FALSE]
             \in Intents
        /\ [intent EXCEPT !.current = 0, !.consumed = FALSE] \in Intents
    BY <1>2, <1>3, <1>5, Zenon
  <1>7. \A v \in BOOLEAN : [intent EXCEPT !.consumed = @ \/ v] \in Intents
    BY <1>2, <1>3, <1>5, Zenon
  <1> QED
    BY <1>4, <1>6, <1>7

(* An exception in a release: what is recorded, if anything, is the report as it stands. *)
LEMMA RaisesIs ==
    ASSUME Raises
    PROVE  /\ fin' = None /\ rep' = rep /\ sup' = sup
           /\ fin.by = "settle" => watch' = watch
           /\ fin.by # "settle" => watch' \in {"done", "fail"}
           /\ \/ result' = result
              \/ result'.complete = rep.complete /\ result'.class = rep.class
  <1>1. CASE fin.by = "fail"
    BY <1>1 DEF Raises, Retained
  <1>2. CASE fin.by = "settle"
    <2>1. result' = [Retained(rep) EXCEPT !.ended = ~own'.h, !.closed = ~own'.t]
      BY <1>2 DEF Raises
    <2>2. result'.complete = rep.complete /\ result'.class = rep.class
      BY <2>1 DEF Retained
    <2> QED
      BY <1>2, <2>2 DEF Raises
  <1>3. CASE fin.by # "fail" /\ fin.by # "settle"
    BY <1>3 DEF Raises
  <1> QED
    BY <1>1, <1>2, <1>3

(* A step that keeps what the report and the result rest on, and records only the report,
   keeps them founded. *)
LEMMA ReportStays ==
    ASSUME ReportInv, Authorized => Authorized',
           files.dump # "none" => files'.dump # "none", rep' = rep,
           \/ result' = result
           \/ result'.complete = rep.complete /\ result'.class = rep.class
    PROVE  ReportInv'
  BY DEF ReportInv, Founded
----------------------------------------------------------------------------
(* The inductive invariant: first the initial state, then one lemma per step. *)

LEMMA RetentionInit == Init => RetentionInv
  <1> SUFFICES ASSUME Init PROVE RetentionInv
    OBVIOUS
  <1>1. TRUE \in BOOLEAN /\ FALSE \in BOOLEAN
    BY Zenon
  <1>2. files \in Files
    BY <1>1 DEF Init, Files
  <1>3. own \in Handles
    BY <1>1 DEF Init, Handles
  <1>4. intent \in Intents
    BY <1>1 DEF Init, Intents
  <1>5. RetentionTypeOK
    BY <1>2, <1>3, <1>4 DEF Init, RetentionTypeOK
  <1>6. HelperInv /\ TargetInv /\ DumpInv /\ AnswerInv /\ ReleaseInv
    BY DEF Init, HelperInv, TargetInv, DumpInv, AnswerInv, ReleaseInv
  <1>7. IntentInv
    BY DEF Init, IntentInv
  <1>8. ReportInv
    BY DEF Init, ReportInv, Founded, NoReport
  <1> QED
    BY <1>5, <1>6, <1>7, <1>8 DEF RetentionInv

(* The target and the helper. *)

LEMMA TargetExitsKeeps ==
    ASSUME RetentionInv, NEW c \in {"clean", "other"}, TargetExits(c)
    PROVE  RetentionInv'
  <1>1. HelperInv'
    BY DEF RetentionInv, HelperInv, RetentionTypeOK, TargetExits, helperVars, watchVars
  <1>2. TargetInv'
    BY DEF RetentionInv, TargetInv, RetentionTypeOK, ReleaseInv, TargetExits, watchVars
  <1>3. ReportInv'
    BY DEF RetentionInv, ReportInv, Founded, Authorized, RetentionTypeOK, HelperInv,
       DumpInv, AnswerInv, TargetExits, helperVars, intentVars, watchVars
  <1>4. RetentionTypeOK' /\ DumpInv' /\ IntentInv' /\ AnswerInv' /\ ReleaseInv'
    BY DEF RetentionInv, RetentionTypeOK, DumpInv, IntentInv, AnswerInv, ReleaseInv,
       TargetExits, helperVars, intentVars, watchVars, supVars
  <1> QED
    BY <1>1, <1>2, <1>3, <1>4 DEF RetentionInv

LEMMA TargetGoneKeeps ==
    ASSUME RetentionInv, TargetGone
    PROVE  RetentionInv'
  <1>1. HelperInv'
    BY DEF RetentionInv, HelperInv, RetentionTypeOK, TargetGone, helperVars, watchVars
  <1>2. TargetInv'
    BY DEF RetentionInv, TargetInv, RetentionTypeOK, ReleaseInv, TargetGone, watchVars
  <1>3. ReportInv'
    BY DEF RetentionInv, ReportInv, Founded, Authorized, RetentionTypeOK, HelperInv,
       DumpInv, AnswerInv, TargetGone, helperVars, intentVars, watchVars
  <1>4. RetentionTypeOK' /\ DumpInv' /\ IntentInv' /\ AnswerInv' /\ ReleaseInv'
    BY DEF RetentionInv, RetentionTypeOK, DumpInv, IntentInv, AnswerInv, ReleaseInv,
       TargetGone, helperVars, intentVars, watchVars, supVars
  <1> QED
    BY <1>1, <1>2, <1>3, <1>4 DEF RetentionInv

LEMMA HelperStartsKeeps ==
    ASSUME RetentionInv, HelperStarts
    PROVE  RetentionInv'
  <1>1. HelperInv'
    BY DEF RetentionInv, HelperInv, RetentionTypeOK, HelperStarts, HelperStep, targetVars,
       watchVars
  <1>2. AnswerInv'
    BY DEF RetentionInv, AnswerInv, RetentionTypeOK, HelperInv, HelperStarts, HelperStep,
       watchVars
  <1>3. ReportInv'
    BY DEF RetentionInv, ReportInv, Founded, Authorized, RetentionTypeOK, HelperInv,
       DumpInv, AnswerInv, HelperStarts, HelperStep, targetVars, intentVars, watchVars
  <1>4. RetentionTypeOK' /\ TargetInv' /\ DumpInv' /\ IntentInv' /\ ReleaseInv'
    BY DEF RetentionInv, RetentionTypeOK, TargetInv, DumpInv, IntentInv, ReleaseInv,
       HelperStarts, HelperStep, targetVars, intentVars, watchVars, supVars
  <1> QED
    BY <1>1, <1>2, <1>3, <1>4 DEF RetentionInv

LEMMA HelperEntersKeeps ==
    ASSUME RetentionInv, HelperEnters
    PROVE  RetentionInv'
  <1>1. RetentionTypeOK'
    <2>1. files' \in Files
      BY WrittenTyped DEF RetentionInv, RetentionTypeOK, HelperEnters
    <2> QED
      BY <2>1 DEF RetentionInv, RetentionTypeOK, HelperEnters, HelperStep, targetVars,
         intentVars, watchVars, supVars
  <1>2. HelperInv'
    BY DEF RetentionInv, HelperInv, RetentionTypeOK, HelperEnters, Written, HelperStep,
       targetVars, watchVars, Files
  <1>3. DumpInv'
    BY DEF RetentionInv, DumpInv, RetentionTypeOK, HelperInv, ReleaseInv, HelperEnters,
       Written, HelperStep, supVars, Files
  <1>4. AnswerInv'
    BY DEF RetentionInv, AnswerInv, RetentionTypeOK, HelperInv, HelperEnters, Written,
       HelperStep, watchVars, Files
  <1>5. ReportInv'
    BY DEF RetentionInv, ReportInv, Founded, Authorized, RetentionTypeOK, HelperInv,
       DumpInv, AnswerInv, HelperEnters, Written, HelperStep, targetVars, intentVars,
       watchVars, Files
  <1>6. TargetInv' /\ IntentInv' /\ ReleaseInv'
    BY DEF RetentionInv, TargetInv, IntentInv, ReleaseInv, HelperEnters, HelperStep,
       targetVars, intentVars, watchVars, supVars
  <1> QED
    BY <1>1, <1>2, <1>3, <1>4, <1>5, <1>6 DEF RetentionInv

LEMMA HelperClaimsKeeps ==
    ASSUME RetentionInv, HelperClaims
    PROVE  RetentionInv'
  <1>1. RetentionTypeOK'
    <2>1. files' \in Files
      BY WrittenTyped DEF RetentionInv, RetentionTypeOK, HelperClaims
    <2> QED
      BY <2>1 DEF RetentionInv, RetentionTypeOK, HelperClaims, HelperStep, targetVars,
         intentVars, watchVars, supVars
  <1>2. HelperInv'
    BY DEF RetentionInv, HelperInv, RetentionTypeOK, HelperClaims, Written, HelperStep,
       targetVars, watchVars, Files
  <1>3. DumpInv'
    BY DEF RetentionInv, DumpInv, RetentionTypeOK, HelperInv, ReleaseInv, HelperClaims,
       Written, HelperStep, supVars, Files
  <1>4. AnswerInv'
    BY DEF RetentionInv, AnswerInv, RetentionTypeOK, HelperInv, HelperClaims, Written,
       HelperStep, watchVars, Files
  <1>5. ReportInv'
    BY DEF RetentionInv, ReportInv, Founded, Authorized, RetentionTypeOK, HelperInv,
       DumpInv, AnswerInv, HelperClaims, Written, HelperStep, targetVars, intentVars,
       watchVars, Files
  <1>6. TargetInv' /\ IntentInv' /\ ReleaseInv'
    BY DEF RetentionInv, TargetInv, IntentInv, ReleaseInv, HelperClaims, HelperStep,
       targetVars, intentVars, watchVars, supVars
  <1> QED
    BY <1>1, <1>2, <1>3, <1>4, <1>5, <1>6 DEF RetentionInv

LEMMA HelperAnsweredKeeps ==
    ASSUME RetentionInv, HelperAnswered
    PROVE  RetentionInv'
  <1>1. RetentionTypeOK'
    BY DEF RetentionInv, RetentionTypeOK, HelperAnswered, HelperStep, intentVars, watchVars
  <1>2. HelperInv'
    BY DEF RetentionInv, HelperInv, RetentionTypeOK, HelperAnswered, HelperStep, targetVars,
       watchVars
  <1>3. AnswerInv'
    BY DEF RetentionInv, AnswerInv, RetentionTypeOK, HelperInv, HelperAnswered, HelperStep,
       watchVars
  <1>4. ReportInv'
    BY DEF RetentionInv, ReportInv, Founded, Authorized, RetentionTypeOK, HelperInv,
       DumpInv, AnswerInv, HelperAnswered, HelperStep, targetVars, intentVars, watchVars
  <1>5. TargetInv' /\ DumpInv' /\ IntentInv' /\ ReleaseInv'
    BY DEF RetentionInv, TargetInv, DumpInv, IntentInv, ReleaseInv, HelperAnswered,
       HelperStep, targetVars, intentVars, watchVars, supVars
  <1> QED
    BY <1>1, <1>2, <1>3, <1>4, <1>5 DEF RetentionInv

LEMMA HelperDumpsKeeps ==
    ASSUME RetentionInv, HelperDumps
    PROVE  RetentionInv'
  <1>1. RetentionTypeOK'
    <2>1. files' \in Files
      BY WrittenTyped DEF RetentionInv, RetentionTypeOK, HelperDumps
    <2> QED
      BY <2>1 DEF RetentionInv, RetentionTypeOK, HelperDumps, HelperStep, targetVars,
         intentVars, watchVars, supVars
  <1>2. HelperInv'
    BY DEF RetentionInv, HelperInv, RetentionTypeOK, HelperDumps, Written, HelperStep,
       targetVars, watchVars, Files
  <1>3. DumpInv'
    BY DEF RetentionInv, DumpInv, RetentionTypeOK, HelperInv, ReleaseInv, HelperDumps,
       HelperStep, supVars, Files
  <1>4. AnswerInv'
    BY DEF RetentionInv, AnswerInv, RetentionTypeOK, HelperInv, HelperDumps, Written,
       HelperStep, watchVars, Files
  <1>5. ReportInv'
    BY DEF RetentionInv, ReportInv, Founded, Authorized, RetentionTypeOK, HelperInv,
       DumpInv, AnswerInv, HelperDumps, HelperStep, targetVars, intentVars, watchVars, Files
  <1>6. TargetInv' /\ IntentInv' /\ ReleaseInv'
    BY DEF RetentionInv, TargetInv, IntentInv, ReleaseInv, HelperDumps, HelperStep,
       targetVars, intentVars, watchVars, supVars
  <1> QED
    BY <1>1, <1>2, <1>3, <1>4, <1>5, <1>6 DEF RetentionInv

LEMMA HelperFailsKeeps ==
    ASSUME RetentionInv, HelperFails
    PROVE  RetentionInv'
  <1>1. RetentionTypeOK'
    BY DEF RetentionInv, RetentionTypeOK, HelperFails, HelperStep, intentVars, watchVars
  <1>2. HelperInv'
    BY DEF RetentionInv, HelperInv, RetentionTypeOK, HelperFails, HelperStep, targetVars,
       watchVars
  <1>3. AnswerInv'
    BY DEF RetentionInv, AnswerInv, RetentionTypeOK, HelperInv, HelperFails, HelperStep,
       watchVars
  <1>4. ReportInv'
    BY DEF RetentionInv, ReportInv, Founded, Authorized, RetentionTypeOK, HelperInv,
       DumpInv, AnswerInv, HelperFails, HelperStep, targetVars, intentVars, watchVars
  <1>5. TargetInv' /\ DumpInv' /\ IntentInv' /\ ReleaseInv'
    BY DEF RetentionInv, TargetInv, DumpInv, IntentInv, ReleaseInv, HelperFails, HelperStep,
       targetVars, intentVars, watchVars, supVars
  <1> QED
    BY <1>1, <1>2, <1>3, <1>4, <1>5 DEF RetentionInv

LEMMA HelperReportsKeeps ==
    ASSUME RetentionInv, HelperReports
    PROVE  RetentionInv'
  <1>1. RetentionTypeOK'
    <2>1. files' \in Files
      BY WrittenTyped DEF RetentionInv, RetentionTypeOK, HelperReports
    <2> QED
      BY <2>1 DEF RetentionInv, RetentionTypeOK, HelperReports, Freed, HelperStep,
         targetVars, intentVars, watchVars, supVars
  <1>2. HelperInv'
    BY DEF RetentionInv, HelperInv, RetentionTypeOK, HelperReports, Written, Freed,
       HelperStep, targetVars, watchVars, Files
  <1>3. DumpInv'
    BY DEF RetentionInv, DumpInv, RetentionTypeOK, HelperInv, ReleaseInv, HelperReports,
       Written, Freed, HelperStep, supVars, Files
  <1>4. AnswerInv'
    BY DEF RetentionInv, AnswerInv, RetentionTypeOK, HelperInv, HelperReports, Written,
       Freed, HelperStep, watchVars, Files
  <1>5. ReportInv'
    BY DEF RetentionInv, ReportInv, Founded, Authorized, RetentionTypeOK, HelperInv,
       DumpInv, AnswerInv, HelperReports, Written, Freed, HelperStep, targetVars,
       intentVars, watchVars, Files
  <1>6. TargetInv' /\ IntentInv' /\ ReleaseInv'
    BY DEF RetentionInv, TargetInv, IntentInv, ReleaseInv, HelperReports, HelperStep,
       targetVars, intentVars, watchVars, supVars
  <1> QED
    BY <1>1, <1>2, <1>3, <1>4, <1>5, <1>6 DEF RetentionInv

LEMMA HelperEndsKeeps ==
    ASSUME RetentionInv, HelperEnds
    PROVE  RetentionInv'
  <1>1. RetentionTypeOK'
    BY DEF RetentionInv, RetentionTypeOK, HelperEnds, HelperStep, intentVars, watchVars
  <1>2. HelperInv'
    BY DEF RetentionInv, HelperInv, RetentionTypeOK, HelperEnds, HelperStep, targetVars,
       watchVars
  <1>3. DumpInv'
    BY DEF RetentionInv, DumpInv, RetentionTypeOK, HelperInv, ReleaseInv, HelperEnds, Freed,
       HelperStep, supVars
  <1>4. AnswerInv'
    BY DEF RetentionInv, AnswerInv, RetentionTypeOK, HelperInv, HelperEnds, HelperStep,
       watchVars
  <1>5. ReportInv'
    BY DEF RetentionInv, ReportInv, Founded, Authorized, RetentionTypeOK, HelperInv,
       DumpInv, AnswerInv, HelperEnds, HelperStep, targetVars, intentVars, watchVars
  <1>6. TargetInv' /\ IntentInv' /\ ReleaseInv'
    BY DEF RetentionInv, TargetInv, IntentInv, ReleaseInv, HelperEnds, HelperStep,
       targetVars, intentVars, watchVars, supVars
  <1> QED
    BY <1>1, <1>2, <1>3, <1>4, <1>5, <1>6 DEF RetentionInv

(* The watcher. *)

LEMMA InitializeKeeps ==
    ASSUME RetentionInv, Initialize
    PROVE  RetentionInv'
  <1>1. RetentionTypeOK'
    <2>1. own' \in Handles
      BY HandlesTyped DEF RetentionInv, RetentionTypeOK, Initialize
    <2> QED
      BY <2>1 DEF RetentionInv, RetentionTypeOK, Pending, Initialize, Retained, NoReport,
         Reading, targetVars, helperVars, intentVars, supVars
  <1>2. HelperInv'
    BY DEF RetentionInv, HelperInv, RetentionTypeOK, Initialize, targetVars, helperVars,
       Handles
  <1>3. TargetInv'
    BY DEF RetentionInv, TargetInv, RetentionTypeOK, ReleaseInv, Initialize, targetVars,
       Handles
  <1>4. AnswerInv'
    BY DEF RetentionInv, AnswerInv, RetentionTypeOK, HelperInv, Initialize, Retained,
       NoReport, Reading, helperVars, Pending
  <1>5. ReleaseInv'
    BY DEF RetentionInv, ReleaseInv, RetentionTypeOK, Initialize, supVars
  <1>6. ReportInv'
    BY DEF RetentionInv, ReportInv, Founded, Authorized, RetentionTypeOK, HelperInv,
       DumpInv, AnswerInv, Initialize, Retained, NoReport, Reading, targetVars, helperVars,
       intentVars, Pending
  <1>7. DumpInv' /\ IntentInv'
    BY DEF RetentionInv, DumpInv, IntentInv, Initialize, intentVars, supVars
  <1> QED
    BY <1>1, <1>2, <1>3, <1>4, <1>5, <1>6, <1>7 DEF RetentionInv

LEMMA WatchPollsKeeps ==
    ASSUME RetentionInv, WatchPolls
    PROVE  RetentionInv'
  <1>1. RetentionTypeOK'
    BY DEF RetentionInv, RetentionTypeOK, Pending, WatchPolls, ReadCall, At, intentVars,
       WatchStep, helperVars
  <1>2. HelperInv'
    BY DEF RetentionInv, HelperInv, RetentionTypeOK, WatchPolls, ReadCall, LockFree,
       Reading, At, intentVars, WatchStep, targetVars, helperVars, supVars
  <1>3. TargetInv'
    BY DEF RetentionInv, TargetInv, RetentionTypeOK, ReleaseInv, WatchPolls, At, WatchStep,
       targetVars
  <1>4. AnswerInv'
    BY DEF RetentionInv, AnswerInv, RetentionTypeOK, HelperInv, WatchPolls, ReadCall,
       LockFree, Reading, At, WatchStep, helperVars, Pending
  <1>5. ReleaseInv'
    BY DEF RetentionInv, ReleaseInv, RetentionTypeOK, WatchPolls, ReadCall, LockFree,
       Reading, At, intentVars, WatchStep, targetVars, helperVars, supVars
  <1>6. ReportInv'
    BY DEF RetentionInv, ReportInv, Founded, Authorized, RetentionTypeOK, HelperInv,
       DumpInv, AnswerInv, WatchPolls, ReadCall, At, intentVars, WatchStep, targetVars,
       helperVars, Pending
  <1>7. DumpInv' /\ IntentInv'
    BY DEF RetentionInv, DumpInv, IntentInv, WatchPolls, intentVars, WatchStep, supVars
  <1> QED
    BY <1>1, <1>2, <1>3, <1>4, <1>5, <1>6, <1>7 DEF RetentionInv

LEMMA WatchAcquiresKeeps ==
    ASSUME RetentionInv, WatchAcquires
    PROVE  RetentionInv'
  <1>1. RetentionTypeOK'
    <2>1. files' \in Files
      BY WrittenTyped DEF RetentionInv, RetentionTypeOK, WatchAcquires, PublishCall
    <2>2. own' \in Handles
      BY HandlesTyped DEF RetentionInv, RetentionTypeOK, WatchAcquires
    <2> QED
      BY <2>1, <2>2 DEF RetentionInv, RetentionTypeOK, Pending, WatchAcquires, PublishCall,
         LockFree, At, intentVars, WatchStep, targetVars, helperVars, supVars
  <1>2. HelperInv'
    BY DEF RetentionInv, HelperInv, RetentionTypeOK, WatchAcquires, PublishCall, LockFree,
       Written, At, WatchStep, targetVars, helperVars, Files, Handles
  <1>3. TargetInv'
    BY DEF RetentionInv, TargetInv, RetentionTypeOK, ReleaseInv, WatchAcquires, At,
       WatchStep, targetVars, Handles
  <1>4. DumpInv'
    BY DEF RetentionInv, DumpInv, RetentionTypeOK, HelperInv, ReleaseInv, WatchAcquires,
       PublishCall, LockFree, Written, WatchStep, supVars, Files
  <1>5. AnswerInv'
    BY DEF RetentionInv, AnswerInv, RetentionTypeOK, HelperInv, WatchAcquires, PublishCall,
       LockFree, Written, At, WatchStep, helperVars, Files, Pending
  <1>6. ReleaseInv'
    BY DEF RetentionInv, ReleaseInv, RetentionTypeOK, WatchAcquires, PublishCall, LockFree,
       Written, At, intentVars, WatchStep, targetVars, helperVars, supVars
  <1>7. ReportInv'
    BY DEF RetentionInv, ReportInv, Founded, Authorized, RetentionTypeOK, HelperInv,
       DumpInv, AnswerInv, WatchAcquires, PublishCall, LockFree, Written, At, intentVars,
       WatchStep, targetVars, helperVars, Files, Pending
  <1>8. IntentInv'
    BY DEF RetentionInv, IntentInv, WatchAcquires, intentVars
  <1> QED
    BY <1>1, <1>2, <1>3, <1>4, <1>5, <1>6, <1>7, <1>8 DEF RetentionInv

LEMMA WatchReadsClaimKeeps ==
    ASSUME RetentionInv, WatchReadsClaim
    PROVE  RetentionInv'
  <1>1. RetentionTypeOK'
    BY DEF RetentionInv, RetentionTypeOK, Pending, WatchReadsClaim, ReadCall, At,
       intentVars, WatchStep, helperVars
  <1>2. HelperInv'
    BY DEF RetentionInv, HelperInv, RetentionTypeOK, WatchReadsClaim, ReadCall, LockFree,
       Reading, At, Queried, intentVars, WatchStep, targetVars, helperVars, supVars
  <1>3. TargetInv'
    BY DEF RetentionInv, TargetInv, RetentionTypeOK, ReleaseInv, WatchReadsClaim, At,
       WatchStep, targetVars
  <1>4. AnswerInv'
    BY DEF RetentionInv, AnswerInv, RetentionTypeOK, HelperInv, WatchReadsClaim, ReadCall,
       LockFree, Reading, At, Queried, WatchStep, helperVars, Pending
  <1>5. ReleaseInv'
    BY DEF RetentionInv, ReleaseInv, RetentionTypeOK, WatchReadsClaim, ReadCall, LockFree,
       Reading, At, Queried, intentVars, WatchStep, targetVars, helperVars, supVars
  <1>6. ReportInv'
    BY DEF RetentionInv, ReportInv, Founded, Authorized, RetentionTypeOK, HelperInv,
       DumpInv, AnswerInv, WatchReadsClaim, ReadCall, At, intentVars, WatchStep, targetVars,
       helperVars, Pending
  <1>7. DumpInv' /\ IntentInv'
    BY DEF RetentionInv, DumpInv, IntentInv, WatchReadsClaim, intentVars, WatchStep, supVars
  <1> QED
    BY <1>1, <1>2, <1>3, <1>4, <1>5, <1>6, <1>7 DEF RetentionInv

LEMMA WatchAcceptsKeeps ==
    ASSUME RetentionInv, WatchAccepts
    PROVE  RetentionInv'
  <1>1. RetentionTypeOK'
    <2>1. intent' \in Intents
      BY IntentsTyped DEF RetentionInv, RetentionTypeOK, WatchAccepts
    <2> QED
      BY <2>1 DEF RetentionInv, RetentionTypeOK, Intents, WatchAccepts, Live, Removed,
         IntentBusy, At, NotRemoved, WatchStep, targetVars, helperVars, supVars
  <1>2. HelperInv'
    BY DEF RetentionInv, HelperInv, RetentionTypeOK, WatchAccepts, At, WatchStep,
       targetVars, helperVars
  <1>3. TargetInv'
    BY DEF RetentionInv, TargetInv, RetentionTypeOK, ReleaseInv, WatchAccepts, At,
       WatchStep, targetVars
  <1>4. IntentInv'
    <2>1. intent \in Intents /\ IntentInv
      BY DEF RetentionInv, RetentionTypeOK
    <2>2. \/ intent' = [intent EXCEPT !.consumed =
                          @ \/ (Live(files.claim) /\ ~intent.consumed /\ cause = "clean")]
             /\ revoked' = revoked
          \/ intent' = [intent EXCEPT !.current = 0, !.consumed = FALSE]
             /\ revoked' \subseteq revoked \cup {intent.current}
      BY DEF WatchAccepts
    <2>3. /\ intent'.seq = intent.seq /\ intent'.publishing = intent.publishing
          /\ \/ intent'.current = intent.current /\ revoked' = revoked
             \/ intent'.current = 0 /\ revoked' \subseteq revoked \cup {intent.current}
      BY <2>1, <2>2 DEF Intents
    <2>4. intent.publishing # 0 => intent.publishing = intent.seq /\ intent.current = 0
      BY <2>1 DEF IntentInv
    <2> QED
      BY <2>1, <2>3, <2>4 DEF IntentInv, Intents
  <1>5. AnswerInv'
    BY DEF RetentionInv, AnswerInv, RetentionTypeOK, HelperInv, WatchAccepts, At, WatchStep,
       helperVars
  <1>6. ReleaseInv'
    BY DEF RetentionInv, ReleaseInv, RetentionTypeOK, WatchAccepts, At, WatchStep, supVars
  <1>7. ReportInv'
    BY DEF RetentionInv, ReportInv, Founded, Authorized, RetentionTypeOK, HelperInv,
       DumpInv, AnswerInv, WatchAccepts, At, WatchStep, targetVars, helperVars
  <1>8. DumpInv'
    BY DEF RetentionInv, DumpInv, WatchAccepts, WatchStep, supVars
  <1> QED
    BY <1>1, <1>2, <1>3, <1>4, <1>5, <1>6, <1>7, <1>8 DEF RetentionInv

LEMMA WatchAnswersKeeps ==
    ASSUME RetentionInv, WatchAnswers
    PROVE  RetentionInv'
  <1>1. RetentionTypeOK'
    <2>1. files' \in Files
      BY WrittenTyped DEF RetentionInv, RetentionTypeOK, WatchAnswers, PublishCall
    <2> QED
      BY <2>1 DEF RetentionInv, RetentionTypeOK, Pending, WatchAnswers, PublishCall,
         LockFree, At, Queried, intentVars, WatchStep, targetVars, helperVars, supVars
  <1>2. HelperInv'
    BY DEF RetentionInv, HelperInv, RetentionTypeOK, WatchAnswers, PublishCall, LockFree,
       Written, At, Queried, WatchStep, targetVars, helperVars, Files
  <1>3. TargetInv'
    BY DEF RetentionInv, TargetInv, RetentionTypeOK, ReleaseInv, WatchAnswers, At,
       WatchStep, targetVars
  <1>4. DumpInv'
    BY DEF RetentionInv, DumpInv, RetentionTypeOK, HelperInv, ReleaseInv, WatchAnswers,
       PublishCall, LockFree, Written, Queried, WatchStep, supVars, Files
  <1>5. AnswerInv'
    BY DEF RetentionInv, AnswerInv, RetentionTypeOK, HelperInv, WatchAnswers, PublishCall,
       LockFree, Written, At, Queried, WatchStep, helperVars, Files, Pending
  <1>6. ReleaseInv'
    BY DEF RetentionInv, ReleaseInv, RetentionTypeOK, WatchAnswers, PublishCall, LockFree,
       Written, At, Queried, intentVars, WatchStep, targetVars, helperVars, supVars
  <1>7. ReportInv'
    BY DEF RetentionInv, ReportInv, Founded, Authorized, RetentionTypeOK, HelperInv,
       DumpInv, AnswerInv, WatchAnswers, PublishCall, LockFree, Written, At, Queried,
       intentVars, WatchStep, targetVars, helperVars, Files, Pending
  <1>8. IntentInv'
    BY DEF RetentionInv, IntentInv, WatchAnswers, intentVars
  <1> QED
    BY <1>1, <1>2, <1>3, <1>4, <1>5, <1>6, <1>7, <1>8 DEF RetentionInv

LEMMA WatchChecksKeeps ==
    ASSUME RetentionInv, WatchChecks
    PROVE  RetentionInv'
  <1>1. RetentionTypeOK'
    BY DEF RetentionInv, RetentionTypeOK, Pending, Releases, WatchChecks, ReadCall, Begin,
       At, intentVars, WatchStep, helperVars
  <1>2. HelperInv'
    BY DEF RetentionInv, HelperInv, RetentionTypeOK, WatchChecks, ReadCall, LockFree,
       Reading, Accepted, NormalIsValid, Live, Begin, NoReport, At, intentVars, WatchStep,
       targetVars, helperVars, supVars
  <1>3. TargetInv'
    BY DEF RetentionInv, TargetInv, RetentionTypeOK, ReleaseInv, WatchChecks, Begin, At,
       WatchStep, targetVars
  <1>4. AnswerInv'
    BY DEF RetentionInv, AnswerInv, RetentionTypeOK, HelperInv, WatchChecks, ReadCall,
       LockFree, Reading, Accepted, NormalIsValid, Live, Begin, NoReport, At, WatchStep,
       helperVars, Pending
  <1>5. ReleaseInv'
    BY DEF RetentionInv, ReleaseInv, RetentionTypeOK, WatchChecks, ReadCall, LockFree,
       Reading, Accepted, NormalIsValid, Live, Begin, NoReport, At, intentVars, WatchStep,
       targetVars, helperVars, supVars, Releases
  <1>6. ReportInv'
    BY DEF RetentionInv, ReportInv, Founded, Authorized, RetentionTypeOK, HelperInv,
       DumpInv, AnswerInv, IntentInv, Intents, WatchChecks, ReadCall, LockFree, Reading,
       Accepted, NormalIsValid, Live, Begin, NoReport, At, intentVars, WatchStep,
       targetVars, helperVars, Pending
  <1>7. DumpInv' /\ IntentInv'
    BY DEF RetentionInv, DumpInv, IntentInv, WatchChecks, intentVars, WatchStep, supVars
  <1> QED
    BY <1>1, <1>2, <1>3, <1>4, <1>5, <1>6, <1>7 DEF RetentionInv

LEMMA WatchExpiresKeeps ==
    ASSUME RetentionInv, WatchExpires
    PROVE  RetentionInv'
  <1>1. RetentionTypeOK'
    <2>1. intent' \in Intents
      BY RevokeIs DEF RetentionInv, RetentionTypeOK, WatchExpires
    <2> QED
      BY <2>1 DEF RetentionInv, RetentionTypeOK, Intents, WatchExpires, Remove, Removed,
         IntentBusy, NotRemoved, At, WatchStep, targetVars, helperVars, supVars
  <1>2. HelperInv'
    BY DEF RetentionInv, HelperInv, RetentionTypeOK, WatchExpires, At, WatchStep,
       targetVars, helperVars
  <1>3. TargetInv'
    BY DEF RetentionInv, TargetInv, RetentionTypeOK, ReleaseInv, WatchExpires, At,
       WatchStep, targetVars
  <1>4. IntentInv'
    BY RevokeIs DEF RetentionInv, IntentInv, RetentionTypeOK, Intents, WatchExpires
  <1>5. AnswerInv'
    BY DEF RetentionInv, AnswerInv, RetentionTypeOK, HelperInv, WatchExpires, At, WatchStep,
       helperVars
  <1>6. ReleaseInv'
    BY DEF RetentionInv, ReleaseInv, RetentionTypeOK, WatchExpires, At, WatchStep, supVars
  <1>7. ReportInv'
    BY DEF RetentionInv, ReportInv, Founded, Authorized, RetentionTypeOK, HelperInv,
       DumpInv, AnswerInv, WatchExpires, Revoke, At, WatchStep, targetVars, helperVars
  <1>8. DumpInv'
    BY DEF RetentionInv, DumpInv, WatchExpires, WatchStep, supVars
  <1> QED
    BY <1>1, <1>2, <1>3, <1>4, <1>5, <1>6, <1>7, <1>8 DEF RetentionInv

LEMMA WatchDrainsKeeps ==
    ASSUME RetentionInv, WatchDrains
    PROVE  RetentionInv'
  <1>1. RetentionTypeOK'
    BY DEF RetentionInv, RetentionTypeOK, Releases, WatchDrains, Begin, At, intentVars,
       WatchStep, helperVars
  <1>2. HelperInv'
    BY DEF RetentionInv, HelperInv, RetentionTypeOK, WatchDrains, Begin, At, WatchStep,
       targetVars, helperVars
  <1>3. TargetInv'
    BY DEF RetentionInv, TargetInv, RetentionTypeOK, ReleaseInv, WatchDrains, Begin, At,
       WatchStep, targetVars
  <1>4. AnswerInv'
    BY DEF RetentionInv, AnswerInv, RetentionTypeOK, HelperInv, WatchDrains, Begin, At,
       WatchStep, helperVars
  <1>5. ReleaseInv'
    BY DEF RetentionInv, ReleaseInv, RetentionTypeOK, WatchDrains, Begin, At, WatchStep,
       supVars, Releases
  <1>6. ReportInv'
    BY DEF RetentionInv, ReportInv, Founded, Authorized, RetentionTypeOK, HelperInv,
       DumpInv, AnswerInv, WatchDrains, Begin, At, intentVars, WatchStep, targetVars,
       helperVars
  <1>7. DumpInv' /\ IntentInv'
    BY DEF RetentionInv, DumpInv, IntentInv, WatchDrains, intentVars, WatchStep, supVars
  <1> QED
    BY <1>1, <1>2, <1>3, <1>4, <1>5, <1>6, <1>7 DEF RetentionInv

LEMMA WatchFailsKeeps ==
    ASSUME RetentionInv, WatchFails
    PROVE  RetentionInv'
  <1>1. RetentionTypeOK'
    <2>1. intent' \in Intents
      BY RevokeIs DEF RetentionInv, RetentionTypeOK, WatchFails
    <2> QED
      BY <2>1 DEF RetentionInv, RetentionTypeOK, Releases, Intents, WatchFails, Unlink,
         Begin, NoReport, WatchStep, targetVars, helperVars, supVars
  <1>2. HelperInv'
    BY DEF RetentionInv, HelperInv, RetentionTypeOK, WatchFails, Begin, WatchStep,
       targetVars, helperVars
  <1>3. TargetInv'
    BY DEF RetentionInv, TargetInv, RetentionTypeOK, ReleaseInv, WatchFails, Begin,
       WatchStep, targetVars
  <1>4. IntentInv'
    BY RevokeIs DEF RetentionInv, IntentInv, RetentionTypeOK, Intents, WatchFails
  <1>5. AnswerInv'
    BY DEF RetentionInv, AnswerInv, RetentionTypeOK, HelperInv, WatchFails, Begin,
       WatchStep, helperVars
  <1>6. ReleaseInv'
    BY DEF RetentionInv, ReleaseInv, RetentionTypeOK, WatchFails, Begin, WatchStep, supVars,
       Releases
  <1>7. ReportInv'
    BY DEF RetentionInv, ReportInv, Founded, Authorized, RetentionTypeOK, HelperInv,
       DumpInv, AnswerInv, WatchFails, Revoke, Begin, NoReport, WatchStep, targetVars,
       helperVars
  <1>8. DumpInv'
    BY DEF RetentionInv, DumpInv, WatchFails, WatchStep, supVars
  <1> QED
    BY <1>1, <1>2, <1>3, <1>4, <1>5, <1>6, <1>7, <1>8 DEF RetentionInv

(* The release. *)

LEMMA FinEndKeeps ==
    ASSUME RetentionInv, FinEnd
    PROVE  RetentionInv'
  <1>1. RetentionTypeOK'
    <2>1. own' \in Handles
      BY HandlesTyped DEF RetentionInv, RetentionTypeOK, FinEnd, Raises
    <2> QED
      BY <2>1 DEF RetentionInv, RetentionTypeOK, Pending, Releases, FinEnd, FinAt, Freed,
         ReadCall, LockFree, Reading, Onward, Raises, Retained, helperVars, FinStep,
         targetVars
  <1>2. HelperInv'
    BY DEF RetentionInv, HelperInv, RetentionTypeOK, FinEnd, FinAt, Freed, ReadCall,
       LockFree, Reading, Onward, Raises, Retained, helperVars, FinStep, targetVars, Handles
  <1>3. TargetInv'
    BY DEF RetentionInv, TargetInv, RetentionTypeOK, ReleaseInv, FinEnd, FinAt, Freed,
       LockFree, Reading, Onward, Raises, Retained, FinStep, targetVars, Handles
  <1>4. DumpInv'
    BY DEF RetentionInv, DumpInv, RetentionTypeOK, HelperInv, ReleaseInv, FinEnd, FinAt,
       Freed, ReadCall, LockFree, Reading, Onward, Raises, Retained, helperVars, FinStep,
       targetVars
  <1>5. AnswerInv'
    BY DEF RetentionInv, AnswerInv, RetentionTypeOK, HelperInv, FinEnd, FinAt, Freed,
       ReadCall, LockFree, Reading, Onward, Raises, Retained, helperVars, Pending
  <1>6. ReleaseInv'
    BY DEF RetentionInv, ReleaseInv, RetentionTypeOK, FinEnd, FinAt, Freed, ReadCall,
       LockFree, Reading, Onward, Raises, Retained, helperVars, FinStep, targetVars,
       Releases
  <1>7. ReportInv'
    <2>1. /\ rep' = rep
          /\ \/ result' = result
             \/ result'.complete = rep.complete /\ result'.class = rep.class
      BY RaisesIs DEF FinEnd, FinAt, ReadCall, Onward, helperVars, FinStep, targetVars
    <2>2. files.dump # "none" => files'.dump # "none"
      BY DEF FinEnd
    <2>3. Authorized => Authorized'
      BY RaisesIs DEF RetentionInv, RetentionTypeOK, IntentInv, Files, Authorized, FinEnd,
         FinAt, Freed, ReadCall, LockFree, Reading, Onward, helperVars, FinStep, targetVars
    <2> QED
      BY <2>1, <2>2, <2>3, ReportStays DEF RetentionInv
  <1>8. IntentInv'
    BY DEF RetentionInv, IntentInv, FinEnd
  <1> QED
    BY <1>1, <1>2, <1>3, <1>4, <1>5, <1>6, <1>7, <1>8 DEF RetentionInv

LEMMA FinHelperKeeps ==
    ASSUME RetentionInv, FinHelper
    PROVE  RetentionInv'
  <1>1. RetentionTypeOK'
    <2>1. own' \in Handles
      BY HandlesTyped DEF RetentionInv, RetentionTypeOK, FinHelper, Raises
    <2> QED
      BY <2>1 DEF RetentionInv, RetentionTypeOK, Releases, FinHelper, FinAt, Raises,
         Retained, ReleaseGate, Onward, helperVars, FinStep, targetVars
  <1>2. HelperInv'
    BY DEF RetentionInv, HelperInv, RetentionTypeOK, FinHelper, Raises, Onward, helperVars,
       FinStep, targetVars, Handles
  <1>3. TargetInv'
    BY DEF RetentionInv, TargetInv, RetentionTypeOK, ReleaseInv, FinHelper, FinAt, Raises,
       Retained, ReleaseGate, Onward, FinStep, targetVars, Handles
  <1>4. AnswerInv'
    BY DEF RetentionInv, AnswerInv, RetentionTypeOK, HelperInv, FinHelper, Raises, Onward,
       helperVars
  <1>5. ReleaseInv'
    BY DEF RetentionInv, ReleaseInv, RetentionTypeOK, FinHelper, FinAt, Raises, Retained,
       ReleaseGate, Onward, Releases
  <1>6. ReportInv'
    <2>1. /\ rep' = rep
          /\ \/ result' = result
             \/ result'.complete = rep.complete /\ result'.class = rep.class
      BY RaisesIs DEF FinHelper, Onward
    <2>2. files.dump # "none" => files'.dump # "none"
      BY DEF FinHelper
    <2>3. Authorized => Authorized'
      BY RaisesIs DEF RetentionInv, RetentionTypeOK, IntentInv, Files, Authorized,
         FinHelper, Onward, helperVars, FinStep, targetVars
    <2> QED
      BY <2>1, <2>2, <2>3, ReportStays DEF RetentionInv
  <1>7. DumpInv' /\ IntentInv'
    BY DEF RetentionInv, DumpInv, IntentInv, FinHelper, Raises, Onward, FinStep
  <1> QED
    BY <1>1, <1>2, <1>3, <1>4, <1>5, <1>6, <1>7 DEF RetentionInv

LEMMA FinScanKeeps ==
    ASSUME RetentionInv, FinScan
    PROVE  RetentionInv'
  <1>1. RetentionTypeOK'
    <2>1. own' \in Handles
      BY HandlesTyped DEF RetentionInv, RetentionTypeOK, FinScan, FinAt, ReadCall, LockFree,
         Reading, Onward, Raises, Retained, helperVars, FinStep, targetVars
    <2> QED
      BY <2>1 DEF RetentionInv, RetentionTypeOK, Pending, Releases, FinScan, FinAt,
         ReadCall, LockFree, Reading, Onward, Raises, Retained, helperVars, FinStep,
         targetVars
  <1>2. HelperInv'
    BY DEF RetentionInv, HelperInv, RetentionTypeOK, FinScan, FinAt, ReadCall, LockFree,
       Reading, Onward, Raises, Retained, helperVars, FinStep, targetVars, Handles
  <1>3. TargetInv'
    BY DEF RetentionInv, TargetInv, RetentionTypeOK, ReleaseInv, FinScan, FinAt, ReadCall,
       LockFree, Reading, Onward, Raises, Retained, helperVars, FinStep, targetVars, Handles
  <1>4. AnswerInv'
    BY DEF RetentionInv, AnswerInv, RetentionTypeOK, HelperInv, FinScan, FinAt, ReadCall,
       LockFree, Reading, Onward, Raises, Retained, helperVars, Pending
  <1>5. ReleaseInv'
    BY DEF RetentionInv, ReleaseInv, RetentionTypeOK, FinScan, FinAt, ReadCall, LockFree,
       Reading, Onward, Raises, Retained, helperVars, FinStep, targetVars, Releases
  <1>6. ReportInv'
    <2>1. /\ rep' = rep
          /\ \/ result' = result
             \/ result'.complete = rep.complete /\ result'.class = rep.class
      BY RaisesIs DEF FinScan, FinAt, ReadCall, Onward, helperVars, FinStep, targetVars
    <2>2. files.dump # "none" => files'.dump # "none"
      BY DEF FinScan
    <2>3. Authorized => Authorized'
      BY RaisesIs DEF RetentionInv, RetentionTypeOK, IntentInv, Files, Authorized, FinScan,
         FinAt, ReadCall, LockFree, Reading, Onward, helperVars, FinStep, targetVars
    <2> QED
      BY <2>1, <2>2, <2>3, ReportStays DEF RetentionInv
  <1>7. DumpInv' /\ IntentInv'
    BY DEF RetentionInv, DumpInv, IntentInv, FinScan, FinAt, ReadCall, LockFree, Reading,
       Onward, Raises, Retained, helperVars, FinStep, targetVars
  <1> QED
    BY <1>1, <1>2, <1>3, <1>4, <1>5, <1>6, <1>7 DEF RetentionInv

LEMMA FinCloseKeeps ==
    ASSUME RetentionInv, FinClose
    PROVE  RetentionInv'
  <1>1. RetentionTypeOK'
    <2>1. own' \in Handles
      BY HandlesTyped DEF RetentionInv, RetentionTypeOK, FinClose, Raises
    <2>2. intent' \in Intents
      BY RevokeIs DEF RetentionInv, RetentionTypeOK, FinClose
    <2> QED
      BY <2>1, <2>2 DEF RetentionInv, RetentionTypeOK, Releases, Intents, FinClose, FinAt,
         Local, Unlink, Remove, Removed, IntentBusy, NotRemoved, ReleaseGate, Ends, Raises,
         Retained, helperVars, FinStep, targetVars
  <1>2. HelperInv'
    BY DEF RetentionInv, HelperInv, RetentionTypeOK, FinClose, Ends, Raises, helperVars,
       FinStep, targetVars, Handles
  <1>3. TargetInv'
    BY DEF RetentionInv, TargetInv, RetentionTypeOK, ReleaseInv, FinClose, FinAt, Local,
       IntentBusy, ReleaseGate, Ends, Raises, Retained, FinStep, targetVars, Handles
  <1>4. DumpInv'
    BY DEF RetentionInv, DumpInv, RetentionTypeOK, HelperInv, ReleaseInv, FinClose, FinAt,
       Local, IntentBusy, ReleaseGate, Ends, Raises, Retained, FinStep
  <1>5. IntentInv'
    BY RevokeIs DEF RetentionInv, IntentInv, RetentionTypeOK, Intents, FinClose
  <1>6. AnswerInv'
    BY DEF RetentionInv, AnswerInv, RetentionTypeOK, HelperInv, FinClose, Ends, Raises,
       helperVars
  <1>7. ReleaseInv'
    BY DEF RetentionInv, ReleaseInv, RetentionTypeOK, FinClose, FinAt, Local, IntentBusy,
       ReleaseGate, Ends, Raises, Retained, Releases
  <1>8. ReportInv'
    <2>1. /\ rep' = rep
          /\ \/ result' = result
             \/ result'.complete = rep.complete /\ result'.class = rep.class
      BY RaisesIs DEF FinClose
    <2>2. files.dump # "none" => files'.dump # "none"
      BY DEF FinClose
    <2>3. Authorized => Authorized'
      BY RaisesIs, RevokeIs DEF RetentionInv, RetentionTypeOK, IntentInv, Files, Authorized,
         FinClose, Ends, helperVars, FinStep, targetVars
    <2> QED
      BY <2>1, <2>2, <2>3, ReportStays DEF RetentionInv
  <1> QED
    BY <1>1, <1>2, <1>3, <1>4, <1>5, <1>6, <1>7, <1>8 DEF RetentionInv

LEMMA FinPublishKeeps ==
    ASSUME RetentionInv, FinPublish
    PROVE  RetentionInv'
  <1>1. RetentionTypeOK'
    <2>1. files' \in Files
      BY WrittenTyped DEF RetentionInv, RetentionTypeOK, FinPublish, PublishCall
    <2>2. own' \in Handles
      BY HandlesTyped DEF RetentionInv, RetentionTypeOK, FinPublish, Raises
    <2> QED
      BY <2>1, <2>2 DEF RetentionInv, RetentionTypeOK, Pending, Releases, FinPublish, FinAt,
         Ends, Local, Raises, Retained, PublishCall, LockFree, helperVars, FinStep,
         targetVars
  <1>2. HelperInv'
    BY DEF RetentionInv, HelperInv, RetentionTypeOK, FinPublish, FinAt, Ends, Local,
       Written, Raises, Retained, PublishCall, LockFree, helperVars, FinStep, targetVars,
       Files, Handles
  <1>3. TargetInv'
    BY DEF RetentionInv, TargetInv, RetentionTypeOK, ReleaseInv, FinPublish, FinAt, Ends,
       Local, Written, Raises, Retained, LockFree, FinStep, targetVars, Handles
  <1>4. DumpInv'
    BY DEF RetentionInv, DumpInv, RetentionTypeOK, HelperInv, ReleaseInv, FinPublish, FinAt,
       Ends, Local, Written, Raises, Retained, PublishCall, LockFree, FinStep, Files
  <1>5. AnswerInv'
    BY DEF RetentionInv, AnswerInv, RetentionTypeOK, HelperInv, FinPublish, FinAt, Ends,
       Local, Written, Raises, Retained, PublishCall, LockFree, helperVars, Files, Pending
  <1>6. ReleaseInv'
    BY DEF RetentionInv, ReleaseInv, RetentionTypeOK, FinPublish, FinAt, Ends, Local,
       Written, Raises, Retained, PublishCall, LockFree, helperVars, FinStep, targetVars,
       Releases
  <1>7. ReportInv'
    <2>1. /\ rep' = rep
          /\ \/ result' = result
             \/ result'.complete = rep.complete /\ result'.class = rep.class
      BY RaisesIs DEF FinPublish, FinAt, Ends, Local, PublishCall, helperVars, FinStep,
         targetVars
    <2>2. files.dump # "none" => files'.dump # "none"
      BY DEF RetentionInv, RetentionTypeOK, Files, FinPublish, FinAt, Local, Written,
         PublishCall
    <2>3. Authorized => Authorized'
      BY RaisesIs DEF RetentionInv, RetentionTypeOK, IntentInv, Files, Authorized,
         FinPublish, FinAt, Ends, Local, Written, PublishCall, LockFree, helperVars,
         FinStep, targetVars
    <2> QED
      BY <2>1, <2>2, <2>3, ReportStays DEF RetentionInv
  <1>8. IntentInv'
    BY DEF RetentionInv, IntentInv, FinPublish
  <1> QED
    BY <1>1, <1>2, <1>3, <1>4, <1>5, <1>6, <1>7, <1>8 DEF RetentionInv

(* stop() of the supervisor. *)

LEMMA StopBeginsKeeps ==
    ASSUME RetentionInv, StopBegins
    PROVE  RetentionInv'
  <1>1. RetentionTypeOK'
    <2>1. intent' \in Intents
      BY RevokeIs, IntentsTyped DEF RetentionInv, RetentionTypeOK, StopBegins, GiveUp
    <2> QED
      BY <2>1 DEF RetentionInv, RetentionTypeOK, Intents, StopBegins, GiveUp, Remove,
         Removed, IntentBusy, NotRemoved, Go, SupOnly, targetVars, SupStep, helperVars,
         watchVars
  <1>2. DumpInv'
    BY DEF RetentionInv, DumpInv, RetentionTypeOK, HelperInv, ReleaseInv, StopBegins,
       GiveUp, Go, SupOnly
  <1>3. IntentInv'
    <2>1. CASE \E late \in BOOLEAN : GiveUp(late)
      BY <2>1, RevokeIs DEF RetentionInv, RetentionTypeOK, GiveUp
    <2>2. CASE /\ intent.current = 0 /\ intent.publishing = 0
               /\ intent' = [intent EXCEPT !.seq = @ + 1, !.publishing = intent.seq + 1]
               /\ UNCHANGED <<revoked, ifile, idiag>>
      <3>1. intent \in Intents /\ IntentInv
        BY DEF RetentionInv, RetentionTypeOK
      <3>2. intent' = [intent EXCEPT !.seq = @ + 1, !.publishing = intent.seq + 1] /\ revoked' = revoked
        BY <2>2
      <3>3. /\ intent'.seq = intent.seq + 1 /\ intent'.publishing = intent.seq + 1
            /\ intent'.current = 0
        BY <2>2, <3>1, <3>2 DEF Intents
      <3> QED
        BY <3>1, <3>2, <3>3 DEF IntentInv, Intents
    <2> QED
      BY <2>1, <2>2 DEF StopBegins
  <1>4. ReleaseInv'
    BY DEF RetentionInv, ReleaseInv, RetentionTypeOK, StopBegins, GiveUp, Go, SupStep,
       watchVars
  <1>5. ReportInv'
    BY DEF RetentionInv, ReportInv, Founded, Authorized, RetentionTypeOK, HelperInv,
       DumpInv, AnswerInv, StopBegins, GiveUp, Revoke, SupOnly, targetVars, SupStep,
       helperVars, watchVars
  <1>6. HelperInv' /\ TargetInv' /\ AnswerInv'
    BY DEF RetentionInv, HelperInv, TargetInv, AnswerInv, StopBegins, SupOnly, targetVars,
       SupStep, helperVars, watchVars
  <1> QED
    BY <1>1, <1>2, <1>3, <1>4, <1>5, <1>6 DEF RetentionInv

LEMMA StopAgainKeeps ==
    ASSUME RetentionInv, StopAgain
    PROVE  RetentionInv'
  <1>1. DumpInv'
    BY DEF RetentionInv, DumpInv, RetentionTypeOK, HelperInv, ReleaseInv, StopAgain, Go,
       SupOnly
  <1>2. ReleaseInv'
    BY DEF RetentionInv, ReleaseInv, RetentionTypeOK, StopAgain, Go, SupStep, watchVars
  <1>3. RetentionTypeOK' /\ HelperInv' /\ TargetInv' /\ IntentInv' /\ AnswerInv' /\ ReportInv'
    BY DEF RetentionInv, RetentionTypeOK, HelperInv, TargetInv, IntentInv, AnswerInv,
       ReportInv, Founded, Authorized, StopAgain, intentVars, SupOnly, targetVars, SupStep,
       helperVars, watchVars
  <1> QED
    BY <1>1, <1>2, <1>3 DEF RetentionInv

LEMMA StopWritesKeeps ==
    ASSUME RetentionInv, StopWrites
    PROVE  RetentionInv'
  <1>1. RetentionTypeOK'
    <2>1. intent' \in Intents
      BY RevokeIs DEF RetentionInv, RetentionTypeOK, StopWrites
    <2> QED
      BY <2>1 DEF RetentionInv, RetentionTypeOK, Intents, StopWrites, Go, SupOnly,
         targetVars, SupStep, helperVars, watchVars
  <1>2. DumpInv'
    BY DEF RetentionInv, DumpInv, RetentionTypeOK, HelperInv, ReleaseInv, StopWrites, Go,
       SupOnly
  <1>3. IntentInv'
    BY RevokeIs DEF RetentionInv, IntentInv, RetentionTypeOK, Intents, StopWrites
  <1>4. ReleaseInv'
    BY DEF RetentionInv, ReleaseInv, RetentionTypeOK, StopWrites, Go, SupStep, watchVars
  <1>5. ReportInv'
    BY DEF RetentionInv, ReportInv, Founded, Authorized, RetentionTypeOK, HelperInv,
       DumpInv, AnswerInv, StopWrites, Revoke, SupOnly, targetVars, SupStep, helperVars,
       watchVars
  <1>6. HelperInv' /\ TargetInv' /\ AnswerInv'
    BY DEF RetentionInv, HelperInv, TargetInv, AnswerInv, StopWrites, SupOnly, targetVars,
       SupStep, helperVars, watchVars
  <1> QED
    BY <1>1, <1>2, <1>3, <1>4, <1>5, <1>6 DEF RetentionInv

LEMMA StopConfirmsKeeps ==
    ASSUME RetentionInv, StopConfirms
    PROVE  RetentionInv'
  <1>1. RetentionTypeOK'
    <2>1. intent' \in Intents
      BY RevokeIs, IntentsTyped DEF RetentionInv, RetentionTypeOK, StopConfirms, GiveUp
    <2> QED
      BY <2>1 DEF RetentionInv, RetentionTypeOK, Intents, StopConfirms, Go, GiveUp, Remove,
         Removed, IntentBusy, NotRemoved, SupOnly, targetVars, SupStep, helperVars,
         watchVars
  <1>2. DumpInv'
    BY DEF RetentionInv, DumpInv, RetentionTypeOK, HelperInv, ReleaseInv, StopConfirms, Go,
       GiveUp, SupOnly
  <1>3. IntentInv'
    <2>1. intent \in Intents /\ IntentInv
      BY DEF RetentionInv, RetentionTypeOK
    <2>2. CASE ~(intent.publishing = intent.seq /\ intent.seq \notin expired)
      BY <2>1, <2>2, RevokeIs DEF StopConfirms, GiveUp
    <2>3. CASE intent.publishing = intent.seq /\ intent.seq \notin expired
      <3>1. /\ intent' = [intent EXCEPT !.current = intent.seq, !.publishing = 0, !.consumed = FALSE]
            /\ revoked' = revoked
        BY <2>3 DEF StopConfirms
      <3>2. intent'.seq = intent.seq /\ intent'.publishing = 0 /\ intent'.current = intent.seq
        BY <2>1, <3>1 DEF Intents
      <3> QED
        BY <2>1, <2>3, <3>1, <3>2 DEF IntentInv, Intents
    <2> QED
      BY <2>2, <2>3
  <1>4. ReleaseInv'
    BY DEF RetentionInv, ReleaseInv, RetentionTypeOK, StopConfirms, Go, GiveUp, SupStep,
       watchVars
  <1>5. ReportInv'
    BY DEF RetentionInv, ReportInv, Founded, Authorized, RetentionTypeOK, HelperInv,
       DumpInv, AnswerInv, StopConfirms, GiveUp, Revoke, SupOnly, targetVars, SupStep,
       helperVars, watchVars
  <1>6. HelperInv' /\ TargetInv' /\ AnswerInv'
    BY DEF RetentionInv, HelperInv, TargetInv, AnswerInv, StopConfirms, SupOnly, targetVars,
       SupStep, helperVars, watchVars
  <1> QED
    BY <1>1, <1>2, <1>3, <1>4, <1>5, <1>6 DEF RetentionInv

LEMMA StopWaitsKeeps ==
    ASSUME RetentionInv, StopWaits
    PROVE  RetentionInv'
  <1>1. RetentionTypeOK'
    <2>1. intent' \in Intents
      BY RevokeIs DEF RetentionInv, RetentionTypeOK, StopWaits, GiveUp
    <2> QED
      BY <2>1 DEF RetentionInv, RetentionTypeOK, Intents, StopWaits, Go, GiveUp, Remove,
         Removed, IntentBusy, NotRemoved, SupOnly, targetVars, SupStep, helperVars,
         watchVars
  <1>2. DumpInv'
    BY DEF RetentionInv, DumpInv, RetentionTypeOK, HelperInv, ReleaseInv, StopWaits, Go,
       GiveUp, SupOnly
  <1>3. IntentInv'
    BY RevokeIs DEF RetentionInv, IntentInv, RetentionTypeOK, Intents, StopWaits, GiveUp
  <1>4. ReleaseInv'
    BY DEF RetentionInv, ReleaseInv, RetentionTypeOK, StopWaits, Go, GiveUp, SupStep,
       watchVars
  <1>5. ReportInv'
    BY DEF RetentionInv, ReportInv, Founded, Authorized, RetentionTypeOK, HelperInv,
       DumpInv, AnswerInv, StopWaits, GiveUp, Revoke, SupOnly, targetVars, SupStep,
       helperVars, watchVars
  <1>6. HelperInv' /\ TargetInv' /\ AnswerInv'
    BY DEF RetentionInv, HelperInv, TargetInv, AnswerInv, StopWaits, SupOnly, targetVars,
       SupStep, helperVars, watchVars
  <1> QED
    BY <1>1, <1>2, <1>3, <1>4, <1>5, <1>6 DEF RetentionInv

LEMMA StopDumpsKeeps ==
    ASSUME RetentionInv, StopDumps
    PROVE  RetentionInv'
  <1>1. RetentionTypeOK'
    BY DEF RetentionInv, RetentionTypeOK, Pending, StopDumps, ReadCall, intentVars, SupStep,
       helperVars, watchVars
  <1>2. HelperInv'
    BY DEF RetentionInv, HelperInv, RetentionTypeOK, StopDumps, targetVars, SupStep,
       helperVars, watchVars
  <1>3. DumpInv'
    BY DEF RetentionInv, DumpInv, RetentionTypeOK, HelperInv, ReleaseInv, StopDumps, Go,
       ReadCall, LockFree, Reading, targetVars, intentVars, SupStep, helperVars, watchVars
  <1>4. AnswerInv'
    BY DEF RetentionInv, AnswerInv, RetentionTypeOK, HelperInv, StopDumps, ReadCall,
       LockFree, Reading, SupStep, helperVars, watchVars, Pending
  <1>5. ReleaseInv'
    BY DEF RetentionInv, ReleaseInv, RetentionTypeOK, StopDumps, Go, ReadCall, LockFree,
       Reading, targetVars, intentVars, SupStep, helperVars, watchVars
  <1>6. ReportInv'
    BY DEF RetentionInv, ReportInv, Founded, Authorized, RetentionTypeOK, HelperInv,
       DumpInv, AnswerInv, StopDumps, ReadCall, LockFree, Reading, targetVars, intentVars,
       SupStep, helperVars, watchVars, Pending
  <1>7. TargetInv' /\ IntentInv'
    BY DEF RetentionInv, TargetInv, IntentInv, StopDumps, targetVars, intentVars, SupStep,
       watchVars
  <1> QED
    BY <1>1, <1>2, <1>3, <1>4, <1>5, <1>6, <1>7 DEF RetentionInv

LEMMA StopCollectsKeeps ==
    ASSUME RetentionInv, StopCollects
    PROVE  RetentionInv'
  <1>1. RetentionTypeOK'
    <2>1. files' \in Files
      BY WrittenTyped DEF RetentionInv, RetentionTypeOK, StopCollects
    <2> QED
      BY <2>1 DEF RetentionInv, RetentionTypeOK, StopCollects, Freed, Go, targetVars,
         intentVars, SupStep, helperVars, watchVars
  <1>2. HelperInv'
    BY DEF RetentionInv, HelperInv, RetentionTypeOK, StopCollects, Freed, Written,
       targetVars, SupStep, helperVars, watchVars, Files
  <1>3. DumpInv'
    BY DEF RetentionInv, DumpInv, RetentionTypeOK, HelperInv, ReleaseInv, StopCollects,
       Freed, Written, Go, Files
  <1>4. AnswerInv'
    BY DEF RetentionInv, AnswerInv, RetentionTypeOK, HelperInv, StopCollects, Freed,
       Written, SupStep, helperVars, watchVars, Files
  <1>5. ReleaseInv'
    BY DEF RetentionInv, ReleaseInv, RetentionTypeOK, StopCollects, Go, SupStep, watchVars
  <1>6. ReportInv'
    BY DEF RetentionInv, ReportInv, Founded, Authorized, RetentionTypeOK, HelperInv,
       DumpInv, AnswerInv, StopCollects, Freed, Written, targetVars, intentVars, SupStep,
       helperVars, watchVars, Files
  <1>7. TargetInv' /\ IntentInv'
    BY DEF RetentionInv, TargetInv, IntentInv, StopCollects, targetVars, intentVars,
       SupStep, watchVars
  <1> QED
    BY <1>1, <1>2, <1>3, <1>4, <1>5, <1>6, <1>7 DEF RetentionInv

LEMMA StopVerifiesKeeps ==
    ASSUME RetentionInv, StopVerifies
    PROVE  RetentionInv'
  <1>1. RetentionTypeOK'
    BY DEF RetentionInv, RetentionTypeOK, Pending, StopVerifies, ReadCall, intentVars,
       SupStep, helperVars, watchVars
  <1>2. DumpInv'
    BY DEF RetentionInv, DumpInv, RetentionTypeOK, HelperInv, ReleaseInv, StopVerifies,
       ReadCall, LockFree, Reading, Go, targetVars, intentVars, SupStep, helperVars,
       watchVars
  <1>3. AnswerInv'
    BY DEF RetentionInv, AnswerInv, RetentionTypeOK, HelperInv, StopVerifies, ReadCall,
       LockFree, Reading, SupStep, helperVars, watchVars, Pending
  <1>4. ReleaseInv'
    BY DEF RetentionInv, ReleaseInv, RetentionTypeOK, StopVerifies, ReadCall, LockFree,
       Reading, Go, targetVars, intentVars, SupStep, helperVars, watchVars
  <1>5. ReportInv'
    BY DEF RetentionInv, ReportInv, Founded, Authorized, RetentionTypeOK, HelperInv,
       DumpInv, AnswerInv, StopVerifies, ReadCall, LockFree, Reading, targetVars,
       intentVars, SupStep, helperVars, watchVars, Pending
  <1>6. HelperInv' /\ TargetInv' /\ IntentInv'
    BY DEF RetentionInv, HelperInv, TargetInv, IntentInv, StopVerifies, targetVars,
       intentVars, SupStep, helperVars, watchVars
  <1> QED
    BY <1>1, <1>2, <1>3, <1>4, <1>5, <1>6 DEF RetentionInv

LEMMA StopTerminatesKeeps ==
    ASSUME RetentionInv, StopTerminates
    PROVE  RetentionInv'
  <1>1. HelperInv'
    BY DEF RetentionInv, HelperInv, RetentionTypeOK, StopTerminates, targetVars, SupStep,
       helperVars, watchVars
  <1>2. TargetInv'
    BY DEF RetentionInv, TargetInv, RetentionTypeOK, ReleaseInv, StopTerminates, targetVars,
       SupStep, watchVars
  <1>3. DumpInv'
    BY DEF RetentionInv, DumpInv, RetentionTypeOK, HelperInv, ReleaseInv, StopTerminates, Go
  <1>4. ReleaseInv'
    BY DEF RetentionInv, ReleaseInv, RetentionTypeOK, StopTerminates, Go, SupStep, watchVars
  <1>5. ReportInv'
    BY DEF RetentionInv, ReportInv, Founded, Authorized, RetentionTypeOK, HelperInv,
       DumpInv, AnswerInv, StopTerminates, targetVars, intentVars, SupStep, helperVars,
       watchVars
  <1>6. RetentionTypeOK' /\ IntentInv' /\ AnswerInv'
    BY DEF RetentionInv, RetentionTypeOK, IntentInv, AnswerInv, StopTerminates, intentVars,
       SupStep, helperVars, watchVars
  <1> QED
    BY <1>1, <1>2, <1>3, <1>4, <1>5, <1>6 DEF RetentionInv

LEMMA StopAwaitsKeeps ==
    ASSUME RetentionInv, StopAwaits
    PROVE  RetentionInv'
  <1>1. DumpInv'
    BY DEF RetentionInv, DumpInv, RetentionTypeOK, HelperInv, ReleaseInv, StopAwaits, Go,
       SupOnly
  <1>2. ReleaseInv'
    BY DEF RetentionInv, ReleaseInv, RetentionTypeOK, StopAwaits, Go, SupStep, watchVars
  <1>3. RetentionTypeOK' /\ HelperInv' /\ TargetInv' /\ IntentInv' /\ AnswerInv' /\ ReportInv'
    BY DEF RetentionInv, RetentionTypeOK, HelperInv, TargetInv, IntentInv, AnswerInv,
       ReportInv, Founded, Authorized, StopAwaits, intentVars, SupOnly, targetVars, SupStep,
       helperVars, watchVars
  <1> QED
    BY <1>1, <1>2, <1>3 DEF RetentionInv

LEMMA SettleKeeps ==
    ASSUME RetentionInv, Settle
    PROVE  RetentionInv'
  <1>1. RetentionTypeOK'
    BY DEF RetentionInv, RetentionTypeOK, Releases, Settle, intentVars, SupOnly, helperVars
  <1>2. DumpInv'
    BY DEF RetentionInv, DumpInv, RetentionTypeOK, HelperInv, ReleaseInv, Settle, Go,
       SupOnly
  <1>3. ReleaseInv'
    BY DEF RetentionInv, ReleaseInv, RetentionTypeOK, Settle, Go, Releases
  <1>4. HelperInv' /\ TargetInv' /\ IntentInv' /\ AnswerInv' /\ ReportInv'
    BY DEF RetentionInv, HelperInv, TargetInv, IntentInv, AnswerInv, ReportInv, Founded,
       Authorized, Settle, intentVars, SupOnly, targetVars, helperVars
  <1> QED
    BY <1>1, <1>2, <1>3, <1>4 DEF RetentionInv

(* Deadlines, and diagnostic processes that end late. *)

LEMMA GracePassesKeeps ==
    ASSUME RetentionInv, GracePasses
    PROVE  RetentionInv'
  <1>1. /\ RetentionTypeOK' /\ HelperInv' /\ TargetInv' /\ DumpInv' /\ IntentInv' /\ AnswerInv'
        /\ ReleaseInv' /\ ReportInv'
    BY DEF RetentionInv, RetentionTypeOK, HelperInv, TargetInv, DumpInv, IntentInv,
       AnswerInv, ReleaseInv, ReportInv, Founded, Authorized, GracePasses, targetVars,
       helperVars, watchVars, supVars
  <1> QED
    BY <1>1 DEF RetentionInv

LEMMA WindowPassesKeeps ==
    ASSUME RetentionInv, WindowPasses
    PROVE  RetentionInv'
  <1>1. /\ RetentionTypeOK' /\ HelperInv' /\ TargetInv' /\ DumpInv' /\ IntentInv' /\ AnswerInv'
        /\ ReleaseInv' /\ ReportInv'
    BY DEF RetentionInv, RetentionTypeOK, HelperInv, TargetInv, DumpInv, IntentInv,
       AnswerInv, ReleaseInv, ReportInv, Founded, Authorized, WindowPasses, targetVars,
       helperVars, intentVars, supVars
  <1> QED
    BY <1>1 DEF RetentionInv

LEMMA LateEndKeeps ==
    ASSUME RetentionInv, LateEnd
    PROVE  RetentionInv'
  <1>1. diag # None /\ diag' = None /\ diag \in Pending /\ files \in Files
    BY DEF RetentionInv, RetentionTypeOK, LateEnd
  <1>2. \/ files' = files
        \/ diag.file # "none" /\ files' = Written(diag.file, diag.value)
    BY DEF LateEnd
  <1>3. files' \in Files
    BY <1>1, <1>2, LateWrite
  <1>4. /\ files'.entry = files.entry /\ files'.claim = files.claim
        /\ files'.dump = files.dump /\ files'.result = files.result
        /\ diag.file # "answer" => files'.answer = files.answer
    BY <1>1, <1>2, LateWrite
  <1>5. UNCHANGED <<targetVars, helperVars, flight, intentVars, watchVars, supVars>>
    BY DEF LateEnd
  <1>6. RetentionTypeOK'
    BY <1>1, <1>3, <1>5
    DEF RetentionInv, RetentionTypeOK, targetVars, helperVars, intentVars, watchVars, supVars
  <1>7. HelperInv' /\ TargetInv' /\ DumpInv'
    BY <1>4, <1>5
    DEF RetentionInv, HelperInv, TargetInv, DumpInv, targetVars, helperVars, intentVars,
        watchVars, supVars
  <1>8. IntentInv' /\ ReleaseInv'
    BY <1>5 DEF RetentionInv, IntentInv, ReleaseInv, intentVars, watchVars, supVars
  <1>9. AnswerInv'
    BY <1>1, <1>4, <1>5 DEF RetentionInv, AnswerInv, helperVars, watchVars
  <1>10. ReportInv'
    BY <1>1, <1>4, <1>5
    DEF RetentionInv, ReportInv, Founded, Authorized, targetVars, helperVars, intentVars, watchVars
  <1> QED
    BY <1>6, <1>7, <1>8, <1>9, <1>10 DEF RetentionInv

LEMMA LateIntentEndKeeps ==
    ASSUME RetentionInv, LateIntentEnd
    PROVE  RetentionInv'
  <1>1. RetentionTypeOK'
    BY DEF RetentionInv, RetentionTypeOK, LateIntentEnd, helperVars, watchVars
  <1>2. /\ HelperInv' /\ TargetInv' /\ DumpInv' /\ IntentInv' /\ AnswerInv' /\ ReleaseInv'
        /\ ReportInv'
    BY DEF RetentionInv, HelperInv, TargetInv, DumpInv, IntentInv, AnswerInv, ReleaseInv,
       ReportInv, Founded, Authorized, LateIntentEnd, targetVars, helperVars, watchVars,
       supVars
  <1> QED
    BY <1>1, <1>2 DEF RetentionInv

----------------------------------------------------------------------------
(* The step. *)

LEMMA RetentionStep ==
    ASSUME RetentionInv, [Next]_vars
    PROVE  RetentionInv'
  <1>1. CASE UNCHANGED vars
    BY <1>1
    DEF vars, targetVars, helperVars, intentVars, watchVars, supVars, RetentionInv,
        RetentionTypeOK, HelperInv, TargetInv, DumpInv, IntentInv, AnswerInv, ReleaseInv,
        ReportInv, Founded, Authorized
  <1>2. ASSUME NEW c \in {"clean", "other"}, TargetExits(c) PROVE RetentionInv'
    BY <1>2, TargetExitsKeeps
  <1>3. CASE TargetGone \/ Helper
    BY <1>3, TargetGoneKeeps, HelperStartsKeeps, HelperEntersKeeps, HelperClaimsKeeps,
       HelperAnsweredKeeps, HelperDumpsKeeps, HelperFailsKeeps, HelperReportsKeeps,
       HelperEndsKeeps
    DEF Helper
  <1>4. CASE Watch
    BY <1>4, InitializeKeeps, WatchPollsKeeps, WatchAcquiresKeeps, WatchReadsClaimKeeps,
       WatchAcceptsKeeps, WatchAnswersKeeps, WatchChecksKeeps, WatchExpiresKeeps,
       WatchDrainsKeeps, WatchFailsKeeps, FinEndKeeps, FinHelperKeeps, FinScanKeeps,
       FinCloseKeeps, FinPublishKeeps
    DEF Watch, Finish
  <1>5. CASE StopBegins \/ StopAgain \/ StopGoesOn
    BY <1>5, StopBeginsKeeps, StopAgainKeeps, StopWritesKeeps, StopConfirmsKeeps,
       StopWaitsKeeps, StopDumpsKeeps, StopCollectsKeeps, StopVerifiesKeeps,
       StopTerminatesKeeps, StopAwaitsKeeps, SettleKeeps
    DEF StopGoesOn
  <1>6. CASE GracePasses \/ WindowPasses \/ LateEnd \/ LateIntentEnd
    BY <1>6, GracePassesKeeps, WindowPassesKeeps, LateEndKeeps, LateIntentEndKeeps
  <1> QED
    BY <1>1, <1>2, <1>3, <1>4, <1>5, <1>6 DEF Next

(* No step replaces a dump. *)
LEMMA DumpStays ==
    ASSUME RetentionInv, [Next]_vars, files.dump # "none"
    PROVE  files'.dump = files.dump
  <1>1. CASE UNCHANGED vars
    BY <1>1 DEF vars
  <1>2. CASE \E c \in {"clean", "other"} : TargetExits(c)
    BY <1>2 DEF TargetExits
  <1>3. CASE TargetGone
    BY <1>3 DEF TargetGone
  <1>4. CASE HelperStarts
    BY <1>4 DEF HelperStarts
  <1>5. CASE HelperEnters
    BY <1>5 DEF RetentionInv, RetentionTypeOK, Files, HelperEnters, Written, HelperStep
  <1>6. CASE HelperClaims
    BY <1>6 DEF RetentionInv, RetentionTypeOK, Files, HelperClaims, Written, HelperStep
  <1>7. CASE HelperAnswered
    BY <1>7 DEF HelperAnswered
  <1>8. CASE HelperDumps
    BY <1>8 DEF RetentionInv, RetentionTypeOK, Files, HelperDumps, Written, HelperStep
  <1>9. CASE HelperFails
    BY <1>9 DEF HelperFails
  <1>10. CASE HelperReports
    BY <1>10 DEF RetentionInv, RetentionTypeOK, Files, HelperReports, Written, HelperStep
  <1>11. CASE HelperEnds
    BY <1>11 DEF HelperEnds
  <1>12. CASE Initialize
    BY <1>12 DEF Initialize
  <1>13. CASE WatchPolls
    BY <1>13 DEF WatchPolls
  <1>14. CASE WatchAcquires
    BY <1>14 DEF RetentionInv, RetentionTypeOK, Files, WatchAcquires, PublishCall, Written,
            WatchStep
  <1>15. CASE WatchReadsClaim
    BY <1>15 DEF WatchReadsClaim
  <1>16. CASE WatchAccepts
    BY <1>16 DEF WatchAccepts
  <1>17. CASE WatchAnswers
    BY <1>17 DEF RetentionInv, RetentionTypeOK, Files, WatchAnswers, PublishCall, Written,
            WatchStep
  <1>18. CASE WatchChecks
    BY <1>18 DEF WatchChecks
  <1>19. CASE WatchExpires
    BY <1>19 DEF WatchExpires
  <1>20. CASE WatchDrains
    BY <1>20 DEF WatchDrains
  <1>21. CASE WatchFails
    BY <1>21 DEF WatchFails
  <1>22. CASE FinEnd
    BY <1>22 DEF FinEnd
  <1>23. CASE FinHelper
    BY <1>23 DEF FinHelper
  <1>24. CASE FinScan
    BY <1>24 DEF FinScan
  <1>25. CASE FinClose
    BY <1>25 DEF FinClose
  <1>26. CASE FinPublish
    BY <1>26 DEF RetentionInv, RetentionTypeOK, Files, FinPublish, Written, PublishCall, FinStep
  <1>27. CASE StopBegins
    BY <1>27 DEF StopBegins, SupOnly
  <1>28. CASE StopAgain
    BY <1>28 DEF StopAgain, SupOnly
  <1>29. CASE StopWrites
    BY <1>29 DEF StopWrites, SupOnly
  <1>30. CASE StopConfirms
    BY <1>30 DEF StopConfirms, SupOnly
  <1>31. CASE StopWaits
    BY <1>31 DEF StopWaits, SupOnly
  <1>32. CASE StopDumps
    BY <1>32 DEF StopDumps
  <1>33. CASE StopCollects
    BY <1>33 DEF RetentionInv, RetentionTypeOK, Files, DumpInv, StopCollects, Written, SupStep
  <1>34. CASE StopVerifies
    BY <1>34 DEF StopVerifies
  <1>35. CASE StopTerminates
    BY <1>35 DEF StopTerminates
  <1>36. CASE StopAwaits
    BY <1>36 DEF StopAwaits, SupOnly
  <1>37. CASE Settle
    BY <1>37 DEF Settle, SupOnly
  <1>38. CASE GracePasses
    BY <1>38 DEF GracePasses
  <1>39. CASE WindowPasses
    BY <1>39 DEF WindowPasses
  <1>40. CASE LateEnd
    BY <1>40, LateWrite DEF RetentionInv, RetentionTypeOK, LateEnd
  <1>41. CASE LateIntentEnd
    BY <1>41 DEF LateIntentEnd
  <1> QED
    BY <1>1, <1>2, <1>3, <1>4, <1>5, <1>6, <1>7, <1>8, <1>9, <1>10, <1>11, <1>12, <1>13, <1>14,
       <1>15, <1>16, <1>17, <1>18, <1>19, <1>20, <1>21, <1>22, <1>23, <1>24, <1>25, <1>26, <1>27,
       <1>28, <1>29, <1>30, <1>31, <1>32, <1>33, <1>34, <1>35, <1>36, <1>37, <1>38, <1>39, <1>40,
       <1>41
    DEF Next, Helper, Watch, Finish, StopGoesOn

----------------------------------------------------------------------------
(* The theorems. *)

(* In every reachable state the files, the handles, the stop intent, the answer and the
   report fit together, whatever fails, hangs or is late. *)
THEOREM RetentionInductive == Spec => []RetentionInv
  <1>1. Init => RetentionInv
    BY RetentionInit
  <1>2. RetentionInv /\ [Next]_vars => RetentionInv'
    BY RetentionStep
  <1> QED
    BY <1>1, <1>2, PTL DEF Spec

(* What the owner reports as released has ended (resources_ended(), _finish()): for any
   number of stops and intents. *)
THEOREM Released == Spec => []ReleasedIsEnded
  <1>1. RetentionInv => ReleasedIsEnded
    BY DEF RetentionInv, HelperInv, TargetInv, DumpInv, ReleasedIsEnded, ResourcesEnded
  <1> QED
    BY <1>1, RetentionInductive, PTL

(* A controlled normal exit is reported only for a target that ended normally, on the claim
   of a live intent that was accepted (accept_normal(), normal_is_valid()). *)
THEOREM Authorization == Spec => []NormalIsAuthorized
  <1>1. RetentionInv => NormalIsAuthorized
    BY DEF RetentionInv, ReportInv, Founded, Authorized, NormalIsAuthorized
  <1> QED
    BY <1>1, RetentionInductive, PTL

(* No step replaces a dump, and no step records a complete report of an abnormal exit
   without one (collect_owner_dump(), the helper's dump, _check_result()). *)
THEOREM Evidence == Spec => EvidenceIsKept
  <1> DEFINE Kept ==
        /\ files.dump # "none" => files'.dump = files.dump
        /\ result' # None /\ result'.complete /\ result'.class # "normal" => files'.dump # "none"
  <1>1. RetentionInv /\ RetentionInv' /\ [Next]_vars => [Kept]_vars
    <2> SUFFICES ASSUME RetentionInv, RetentionInv', [Next]_vars PROVE Kept
      OBVIOUS
    <2>1. files.dump # "none" => files'.dump = files.dump
      BY DumpStays
    <2>2. result' # None /\ result'.complete /\ result'.class # "normal" => files'.dump # "none"
      BY DEF RetentionInv, ReportInv, Founded
    <2> QED
      BY <2>1, <2>2
  <1>2. EvidenceIsKept <=> [][Kept]_vars
    BY DEF EvidenceIsKept
  <1> QED
    BY <1>1, <1>2, RetentionInductive, PTL DEF Spec
=============================================================================
