------------------------- MODULE SupervisorProofs -------------------------
(***************************************************************************)
(* Proofs about Coordinator and, on top of them, about Supervisor and      *)
(* ServiceExit, for any clients, commands and runs and any number of       *)
(* crashes and exit attempts.  The first part is about the coordinator     *)
(* alone: its inductive invariant IInv and the properties that follow.     *)
(* The second shows that the supervisor drives the coordinator only as     *)
(* module Coordinator allows, that the responsibility for a run is on disk *)
(* before it exists and until it is gone, and that what the service says   *)
(* of a run is so.  The third shows that the service is let go only when   *)
(* there is nothing left to recover.                                       *)
(***************************************************************************)
EXTENDS ServiceExit, FiniteSetTheorems, TLAPS

----------------------------------------------------------------------------
(* The cache operators. *)

(* Removing an entry leaves the others as they are. *)
LEMMA WithoutFacts ==
    ASSUME NEW f, NEW c
    PROVE  /\ DOMAIN Without(f, c) = DOMAIN f \ {c}
           /\ \A x \in DOMAIN f \ {c} : Without(f, c)[x] = f[x]
  BY DEF Without

(* Eviction drops whole entries, never one that is in flight, and changes none. *)
LEMMA EvictFacts ==
    ASSUME NEW cs, NEW act
    PROVE  /\ DOMAIN Evict(cs, act) \subseteq DOMAIN cs
           /\ DOMAIN cs \cap DOMAIN act \subseteq DOMAIN Evict(cs, act)
           /\ \A c \in DOMAIN Evict(cs, act) : Evict(cs, act)[c] = cs[c]
           /\ \A c \in DOMAIN cs : Cardinality(Newer(cs, act, c)) < CacheLimit
                                    => c \in DOMAIN Evict(cs, act)
           /\ \A c \in DOMAIN Evict(cs, act) \ DOMAIN act :
                Cardinality(Newer(cs, act, c)) < CacheLimit
  BY DEF Evict

(* The entry Complete stores, and the cache it stores it in. *)
Entry(c, res, left) ==
    [commands[c] EXCEPT !.status = "completed",
                        !.pos = IF c \in DOMAIN left THEN @ ELSE nextPos,
                        !.resp = [state |-> NewState(res), run |-> NewRun(res)]]

(* A stored entry is well typed and older than the next position. *)
LEMMA EntryFacts ==
    ASSUME TypeOK, PositionsGrow, NEW c \in DOMAIN commands, NEW res, NEW left,
           NewState(res) \in States, NewRun(res) \in Runs \cup {None}
    PROVE  /\ Entry(c, res, left) \in Entries
           /\ Entry(c, res, left).status = "completed"
           /\ Entry(c, res, left).pos = IF c \in DOMAIN left THEN commands[c].pos ELSE nextPos
           /\ Entry(c, res, left).ctrl = commands[c].ctrl
           /\ Entry(c, res, left).kind = commands[c].kind
           /\ Entry(c, res, left).ident = commands[c].ident
  BY DEF TypeOK, Entry, Entries, Responses, PositionsGrow

(* What phase 3 makes of any result has the right type. *)
LEMMA ResultFacts ==
    ASSUME TypeOK, FenceHasReason, FailedHasReason, NEW c \in DOMAIN active, NEW k \in Kinds,
           NEW result \in ResultsOf(k), NEW res, res = Fenced(c, result)
    PROVE  /\ NewState(res) \in States
           /\ NewRun(res) \in Runs \cup {None}
           /\ NewController(res) \in Clients \cup {None}
           /\ NewReason(res) \in Reasons \cup {None}
           /\ NewOutcome(res) \in Outcomes \cup {None}
           /\ NewState(res) = "failed" => NewReason(res) # None
           /\ c \in exitFenced => NewState(res) = "failed"
           /\ k = "internal" => NewState(res) \in {"stopped", "failed"}
  <1>1. /\ result \in Results
        /\ result.state = "failed" => result.reason # None \/ failureReason # None
        /\ k = "internal" => result.state \in {"stopped", "failed"}
    BY CoordinatorConstants DEF ResultsOf, StartedResults, StoppedResults, FailedResults,
         EchoResults, NoopResults, PlainResults, Results, TypeOK, States, Outcomes, FailedHasReason
  <1>2. /\ res \in Results
        /\ res.state = "failed" => res.reason # None \/ failureReason # None
        /\ c \in exitFenced => res.state = "failed"
        /\ k = "internal" => res.state \in {"stopped", "failed"}
    <2>1. CASE c \notin exitFenced
      BY <1>1, <2>1 DEF Fenced
    <2>2. CASE c \in exitFenced
      <3>1. exitFailure \in Reasons /\ exitFailure # None
        BY <2>2, CoordinatorConstants DEF TypeOK, FenceHasReason
      <3>2. FALSE \in BOOLEAN
        BY Zenon
      <3>3. QED
        BY <1>1, <2>2, <3>1, <3>2 DEF Fenced, Results, States
    <2>3. QED
      BY <2>1, <2>2
  <1>3. QED
    BY <1>2, CoordinatorConstants DEF NewState, NewRun, NewController, NewReason, NewOutcome,
         Results, TypeOK, FailedHasReason, States, Outcomes

----------------------------------------------------------------------------
(* IInv holds initially and every action preserves it. *)

LEMMA InitInv == Init => IInv
  <1> SUFFICES ASSUME Init PROVE IInv
    OBVIOUS
  <1>1. DOMAIN commands = {} /\ DOMAIN active = {}
    BY DEF Init
  <1>2. IsFiniteSet(DOMAIN commands)
    BY <1>1, FS_EmptySet
  <1>3. TypeOK
    <2>1. stateVersion \in 1..MaxVersion
      BY CoordinatorConstants DEF Init
    <2>2. QED
      BY <1>1, <2>1 DEF Init, TypeOK, States
  <1>4. QED
    BY <1>1, <1>2, <1>3 DEF Init, IInv, InFlightIsKnown, OverlapIsDisjoint, PositionsGrow,
         CacheIsFinite, AcceptedAtOlderVersion, FenceHasReason, FailedHasReason,
         NeverServesAfterFailedExit, OnlyStopsAfterFailedExit, ReceiptHasOrigin

(* Phase 1. *)
LEMMA AcceptInv ==
    ASSUME IInv, NEW req \in Requests, Accept(req)
    PROVE  IInv'
  <1>1. /\ req.cmd \notin DOMAIN commands
        /\ ~ActiveConflicts(req.scope)
        /\ req.ver = stateVersion
        /\ draining => req.kind = "internal"
        /\ req.kind = "verify_egress" => req.ident # None
    BY DEF Accept, Verdict, ReplayVerdict, VersionMatches
  <1> DEFINE e == [ctrl |-> req.ctrl, kind |-> req.kind, ident |-> req.ident,
                   status |-> "in_progress", pos |-> nextPos,
                   resp |-> [state |-> state, run |-> runId]]
  <1>2. /\ commands' = With(commands, req.cmd, e)
        /\ active' = With(active, req.cmd, req.scope)
        /\ nextPos' = nextPos + 1
    BY DEF Accept
  <1>3. /\ e \in Entries /\ e.status = "in_progress" /\ e.pos = nextPos
        /\ e.kind = req.kind /\ e.ctrl = req.ctrl /\ e.ident = req.ident
    BY DEF IInv, TypeOK, Entries, Responses, Requests
  <1> HIDE DEF e
  <1>4. /\ DOMAIN commands' = DOMAIN commands \cup {req.cmd}
        /\ commands'[req.cmd] = e
        /\ \A x \in DOMAIN commands : commands'[x] = commands[x]
    BY <1>1, <1>2 DEF With
  <1>5. /\ DOMAIN active' = DOMAIN active \cup {req.cmd}
        /\ active'[req.cmd] = req.scope
        /\ \A x \in DOMAIN active \ {req.cmd} : active'[x] = active[x]
    BY <1>2 DEF With
  <1>6. req.cmd \notin DOMAIN active
    BY <1>1 DEF IInv, InFlightIsKnown
  <1>7. TypeOK'
    <2>1. stateVersion' \in 1..MaxVersion /\ nextPos' \in Nat
      BY CoordinatorConstants DEF IInv, TypeOK, Accept
    <2>2. /\ DOMAIN commands' \subseteq Commands
          /\ \A x \in DOMAIN commands' : commands'[x] \in Entries
      BY <1>3, <1>4 DEF IInv, TypeOK, Requests
    <2>3. /\ DOMAIN active' \subseteq Commands
          /\ \A x \in DOMAIN active' : active'[x] \in Scopes
      BY <1>5 DEF IInv, TypeOK, Requests
    <2>4. QED
      BY <2>1, <2>2, <2>3 DEF IInv, TypeOK, Accept, exitVars
  <1>8. InFlightIsKnown'
    BY <1>3, <1>4, <1>5, <1>6 DEF IInv, InFlightIsKnown
  <1>9. OverlapIsDisjoint'
    BY <1>1, <1>5, <1>6 DEF IInv, OverlapIsDisjoint, ActiveConflicts
  <1>10. PositionsGrow'
    BY <1>2, <1>3, <1>4 DEF IInv, PositionsGrow, TypeOK, Entries
  <1>11. CacheIsFinite'
    BY <1>4, FS_AddElement DEF IInv, CacheIsFinite
  <1>12. AcceptedAtOlderVersion'
    BY <1>1 DEF IInv, AcceptedAtOlderVersion, Accept, TypeOK, Requests
  <1>13. OnlyStopsAfterFailedExit'
    BY <1>1, <1>3, <1>4, <1>5, <1>6
    DEF IInv, OnlyStopsAfterFailedExit, NeverServesAfterFailedExit, Accept, exitVars,
        InFlightIsKnown
  <1>14. FenceHasReason' /\ FailedHasReason' /\ NeverServesAfterFailedExit'
    BY DEF IInv, FenceHasReason, FailedHasReason, NeverServesAfterFailedExit, Accept, exitVars
  <1>15. ReceiptHasOrigin'
    BY <1>1, <1>3, <1>4 DEF IInv, ReceiptHasOrigin, Origin, Accept
  <1>16. QED
    BY <1>7, <1>8, <1>9, <1>10, <1>11, <1>12, <1>13, <1>14, <1>15 DEF IInv

(* Phase 2 raised. *)
LEMMA FailInv ==
    ASSUME IInv, NEW c \in DOMAIN active, Fail(c)
    PROVE  IInv'
  <1> DEFINE cs == [commands EXCEPT ![c].status = "failed"]
  <1>1. c \in DOMAIN commands /\ commands[c] \in Entries
    BY DEF IInv, InFlightIsKnown, TypeOK
  <1>2. /\ DOMAIN cs = DOMAIN commands
        /\ \A x \in DOMAIN commands \ {c} : cs[x] = commands[x]
        /\ cs[c] \in Entries /\ cs[c].status = "failed"
        /\ cs[c].pos = commands[c].pos /\ cs[c].kind = commands[c].kind
        /\ cs[c].ctrl = commands[c].ctrl /\ cs[c].ident = commands[c].ident
    BY <1>1 DEF Entries
  <1>3. /\ commands' = Evict(cs, active')
        /\ active' = Without(active, c)
    BY DEF Fail
  <1> HIDE DEF cs
  <1>4. /\ DOMAIN active' = DOMAIN active \ {c}
        /\ \A x \in DOMAIN active \ {c} : active'[x] = active[x]
    BY <1>3, WithoutFacts
  <1>5. /\ DOMAIN commands' \subseteq DOMAIN commands
        /\ DOMAIN commands \cap DOMAIN active' \subseteq DOMAIN commands'
        /\ \A x \in DOMAIN commands' : commands'[x] = cs[x]
    BY <1>2, <1>3, EvictFacts
  <1>6. UNCHANGED <<metaVars, nextPos, exitVars, accepted>>
        /\ idleRecovery' = DispatchIdleRecovery(active', idleRecovery)
    BY DEF Fail
  <1>7. TypeOK'
    <2>1. \A x \in DOMAIN commands' : commands'[x] \in Entries
      BY <1>2, <1>5 DEF IInv, TypeOK
    <2>2. idleRecovery' \in {"none", "retained", "running"}
      BY <1>6 DEF DispatchIdleRecovery, IInv, TypeOK
    <2>3. QED
      BY <2>1, <2>2, <1>4, <1>5, <1>6 DEF IInv, TypeOK, metaVars, exitVars
  <1>8. InFlightIsKnown'
    BY <1>2, <1>4, <1>5 DEF IInv, InFlightIsKnown
  <1>9. OverlapIsDisjoint'
    BY <1>4 DEF IInv, OverlapIsDisjoint
  <1>10. PositionsGrow'
    BY <1>2, <1>5, <1>6 DEF IInv, PositionsGrow
  <1>11. CacheIsFinite'
    BY <1>5, FS_Subset DEF IInv, CacheIsFinite
  <1>12. OnlyStopsAfterFailedExit'
    BY <1>2, <1>4, <1>5, <1>6 DEF IInv, OnlyStopsAfterFailedExit, exitVars, InFlightIsKnown
  <1>13. AcceptedAtOlderVersion' /\ FenceHasReason' /\ FailedHasReason'
         /\ NeverServesAfterFailedExit'
    BY <1>6 DEF IInv, AcceptedAtOlderVersion, FenceHasReason, FailedHasReason,
         NeverServesAfterFailedExit, metaVars, exitVars
  <1>14. ReceiptHasOrigin'
    BY <1>2, <1>5, <1>6 DEF IInv, ReceiptHasOrigin, Origin
  <1>15. QED
    BY <1>7, <1>8, <1>9, <1>10, <1>11, <1>12, <1>13, <1>14 DEF IInv

(* Phase 3: what Complete does to the cache. *)
LEMMA CompleteCache ==
    ASSUME IInv, NEW c \in DOMAIN active, NEW result \in ResultsOf(commands[c].kind),
           Complete(c, result)
    PROVE  /\ DOMAIN active' = DOMAIN active \ {c}
           /\ \A x \in DOMAIN active \ {c} : active'[x] = active[x]
           /\ DOMAIN commands' \subseteq DOMAIN commands
           /\ DOMAIN active \subseteq DOMAIN commands'
           /\ \A x \in DOMAIN commands' \ {c} : commands'[x] = commands[x]
           /\ commands'[c] \in Entries /\ commands'[c].status = "completed"
           /\ commands'[c].ctrl = commands[c].ctrl /\ commands'[c].kind = commands[c].kind
           /\ commands'[c].ident = commands[c].ident
           /\ commands'[c].pos < nextPos'
           /\ nextPos' \in Nat /\ nextPos <= nextPos'
  <1> DEFINE act == Without(active, c)
             res == Fenced(c, result)
             left == Evict(commands, act)
             e == Entry(c, res, left)
             stored == With(left, c, e)
  <1>1. /\ c \in DOMAIN commands /\ commands[c] \in Entries
        /\ commands[c].kind \in Kinds /\ nextPos \in Nat
    BY DEF IInv, InFlightIsKnown, TypeOK, Entries
  <1>2. NewState(res) \in States /\ NewRun(res) \in Runs \cup {None}
    BY <1>1, ResultFacts DEF IInv
  <1>3. /\ active' = act /\ commands' = Evict(stored, act)
        /\ nextPos' = IF c \in DOMAIN left THEN nextPos ELSE nextPos + 1
    BY DEF Complete, Entry
  <1>4. /\ e \in Entries /\ e.status = "completed"
        /\ e.pos = IF c \in DOMAIN left THEN commands[c].pos ELSE nextPos
        /\ e.ctrl = commands[c].ctrl /\ e.kind = commands[c].kind
        /\ e.ident = commands[c].ident
    BY <1>1, <1>2, EntryFacts DEF IInv
  <1> HIDE DEF res, e
  <1>5. /\ DOMAIN act = DOMAIN active \ {c}
        /\ \A x \in DOMAIN active \ {c} : act[x] = active[x]
    BY DEF Without
  <1>6. /\ DOMAIN left \subseteq DOMAIN commands
        /\ DOMAIN commands \cap DOMAIN act \subseteq DOMAIN left
        /\ \A x \in DOMAIN left : left[x] = commands[x]
        /\ c \in DOMAIN left => Cardinality(Newer(commands, act, c)) < CacheLimit
    BY <1>5, EvictFacts
  <1> HIDE DEF left
  <1>7. /\ DOMAIN stored = DOMAIN left \cup {c}
        /\ stored[c] = e
        /\ \A x \in DOMAIN left \ {c} : stored[x] = commands[x]
    BY <1>6 DEF With
  <1>8. \A x \in DOMAIN commands : commands[x].pos \in Nat /\ commands[x].pos < nextPos
    BY DEF IInv, TypeOK, Entries, PositionsGrow
  <1> HIDE DEF act, stored
  <1>9. Cardinality(Newer(stored, act, c)) < CacheLimit
    <2>1. CASE c \in DOMAIN left
      <3>1. Newer(stored, act, c) \subseteq Newer(commands, act, c)
        BY <2>1, <1>4, <1>6, <1>7, <1>8 DEF Newer
      <3>2. IsFiniteSet(Newer(commands, act, c))
        <4>1. Newer(commands, act, c) \subseteq DOMAIN commands
          BY DEF Newer
        <4>2. QED
          BY <4>1, FS_Subset DEF IInv, CacheIsFinite
      <3>3. /\ Cardinality(Newer(stored, act, c)) <= Cardinality(Newer(commands, act, c))
            /\ Cardinality(Newer(commands, act, c)) \in Nat
            /\ Cardinality(Newer(stored, act, c)) \in Nat
        BY <3>1, <3>2, FS_Subset, FS_CardinalityType
      <3>4. QED
        BY <2>1, <1>6, <3>3, CoordinatorConstants
    <2>2. CASE c \notin DOMAIN left
      <3>1. Newer(stored, act, c) = {}
        BY <2>2, <1>1, <1>4, <1>6, <1>7, <1>8 DEF Newer
      <3>2. QED
        BY <3>1, FS_EmptySet, CoordinatorConstants
    <2>3. QED
      BY <2>1, <2>2
  <1>10. /\ DOMAIN commands' \subseteq DOMAIN stored
         /\ DOMAIN stored \cap DOMAIN act \subseteq DOMAIN commands'
         /\ c \in DOMAIN commands'
         /\ \A x \in DOMAIN commands' : commands'[x] = stored[x]
    BY <1>3, <1>7, <1>9, EvictFacts
  <1>11. DOMAIN active \subseteq DOMAIN commands'
    BY <1>5, <1>6, <1>7, <1>10 DEF IInv, InFlightIsKnown
  <1>12. nextPos' \in Nat /\ nextPos <= nextPos' /\ e.pos < nextPos'
    BY <1>1, <1>3, <1>4, <1>8
  <1>13. QED
    BY <1>1, <1>3, <1>4, <1>5, <1>6, <1>7, <1>10, <1>11, <1>12

LEMMA CompleteInv ==
    ASSUME IInv, NEW c \in DOMAIN active, NEW result \in ResultsOf(commands[c].kind),
           Complete(c, result)
    PROVE  IInv'
  <1> DEFINE res == Fenced(c, result)
  <1>1. /\ c \in DOMAIN commands /\ commands[c].kind \in Kinds
    BY DEF IInv, InFlightIsKnown, TypeOK, Entries
  <1>2. /\ NewState(res) \in States
        /\ NewRun(res) \in Runs \cup {None}
        /\ NewController(res) \in Clients \cup {None}
        /\ NewReason(res) \in Reasons \cup {None}
        /\ NewOutcome(res) \in Outcomes \cup {None}
        /\ NewState(res) = "failed" => NewReason(res) # None
        /\ c \in exitFenced => NewState(res) = "failed"
        /\ commands[c].kind = "internal" => NewState(res) \in {"stopped", "failed"}
    BY <1>1, ResultFacts DEF IInv
  <1>3. /\ state' = NewState(res) /\ runId' = NewRun(res)
        /\ controller' = NewController(res) /\ failureReason' = NewReason(res)
        /\ lastOutcome' = NewOutcome(res) /\ exitFenced' = exitFenced \ {c}
        /\ idleRecovery' = DispatchIdleRecovery(active', idleRecovery)
        /\ UNCHANGED <<stateVersion, draining, exitFailure, accepted>>
    BY DEF Complete
  <1> HIDE DEF res
  <1>4. /\ DOMAIN active' = DOMAIN active \ {c}
        /\ \A x \in DOMAIN active \ {c} : active'[x] = active[x]
        /\ DOMAIN commands' \subseteq DOMAIN commands
        /\ DOMAIN active \subseteq DOMAIN commands'
        /\ \A x \in DOMAIN commands' \ {c} : commands'[x] = commands[x]
        /\ commands'[c] \in Entries /\ commands'[c].status = "completed"
        /\ commands'[c].ctrl = commands[c].ctrl /\ commands'[c].kind = commands[c].kind
        /\ commands'[c].ident = commands[c].ident
        /\ commands'[c].pos < nextPos'
        /\ nextPos' \in Nat /\ nextPos <= nextPos'
    BY CompleteCache
  <1>5. TypeOK'
    <2>1. \A x \in DOMAIN commands' : commands'[x] \in Entries
      BY <1>4 DEF IInv, TypeOK
    <2>2. idleRecovery' \in {"none", "retained", "running"}
      BY <1>3 DEF DispatchIdleRecovery, IInv, TypeOK
    <2>3. QED
      BY <2>1, <2>2, <1>2, <1>3, <1>4 DEF IInv, TypeOK
  <1>6. InFlightIsKnown'
    BY <1>4 DEF IInv, InFlightIsKnown
  <1>7. OverlapIsDisjoint'
    BY <1>4 DEF IInv, OverlapIsDisjoint
  <1>8. PositionsGrow'
    BY <1>4 DEF IInv, PositionsGrow, TypeOK, Entries
  <1>9. CacheIsFinite'
    BY <1>4, FS_Subset DEF IInv, CacheIsFinite
  <1>10. OnlyStopsAfterFailedExit'
    BY <1>3, <1>4 DEF IInv, OnlyStopsAfterFailedExit, InFlightIsKnown
  <1>11. NeverServesAfterFailedExit'
    BY <1>2, <1>3 DEF IInv, NeverServesAfterFailedExit, OnlyStopsAfterFailedExit
  <1>12. FailedHasReason'
    BY <1>2, <1>3 DEF FailedHasReason
  <1>13. AcceptedAtOlderVersion' /\ FenceHasReason'
    BY <1>3 DEF IInv, AcceptedAtOlderVersion, FenceHasReason
  <1>14. ReceiptHasOrigin'
    BY <1>3, <1>4 DEF IInv, ReceiptHasOrigin, Origin
  <1>15. QED
    BY <1>5, <1>6, <1>7, <1>8, <1>9, <1>10, <1>11, <1>12, <1>13, <1>14 DEF IInv

(* A step that leaves the cache and the executing operations alone preserves IInv
   if it keeps the parts of IInv that are about the published state. *)
LEMMA MetadataStepInv ==
    ASSUME IInv, UNCHANGED <<stateVersion, cacheVars, accepted>>,
           state' \in States, runId' \in Runs \cup {None}, controller' \in Clients \cup {None},
           failureReason' \in Reasons \cup {None}, lastOutcome' \in Outcomes \cup {None},
           draining' \in BOOLEAN, exitFailure' \in Reasons \cup {None},
           exitFenced' \subseteq Commands, idleRecovery' \in {"none", "retained", "running"},
           FenceHasReason', FailedHasReason', NeverServesAfterFailedExit',
           OnlyStopsAfterFailedExit'
    PROVE  IInv'
  <1>1. TypeOK'
    BY DEF IInv, TypeOK, cacheVars
  <1>2. InFlightIsKnown' /\ OverlapIsDisjoint' /\ PositionsGrow' /\ CacheIsFinite'
    BY DEF IInv, InFlightIsKnown, OverlapIsDisjoint, PositionsGrow, CacheIsFinite, cacheVars
  <1>3. AcceptedAtOlderVersion' /\ ReceiptHasOrigin'
    BY DEF IInv, AcceptedAtOlderVersion, ReceiptHasOrigin, Origin, cacheVars
  <1>4. QED
    BY <1>1, <1>2, <1>3 DEF IInv

(* The health thread's observations. *)
LEMMA UpdateHealthStateInv ==
    ASSUME IInv, NEW s \in States, NEW r \in Reasons \cup {None}, s = "failed" => r # None,
           UpdateHealthState(s, r)
    PROVE  IInv'
  <1>1. UNCHANGED <<stateVersion, cacheVars, accepted, runId, controller, lastOutcome,
                    draining, exitFailure, exitFenced, idleRecovery>>
    BY DEF UpdateHealthState, exitVars
  <1>2. /\ state' \in States /\ failureReason' \in Reasons \cup {None}
        /\ state' = "failed" => failureReason' # None
        /\ exitFailure # None => state' \notin {"healthy", "degraded"}
    BY DEF UpdateHealthState, States, IInv, TypeOK
  <1>3. FenceHasReason' /\ FailedHasReason' /\ NeverServesAfterFailedExit'
    BY <1>1, <1>2 DEF IInv, FenceHasReason, FailedHasReason, NeverServesAfterFailedExit
  <1>4. OnlyStopsAfterFailedExit'
    BY <1>1 DEF IInv, OnlyStopsAfterFailedExit, cacheVars
  <1>5. QED
    BY <1>1, <1>2, <1>3, <1>4, MetadataStepInv DEF IInv, TypeOK

(* The responsibilities that start() and recover() publish. *)
LEMMA RestoreInv ==
    ASSUME IInv, NEW run \in Runs \cup {Absent}, NEW owner \in Clients,
           NEW s \in {"starting", "recovering", "stopped", "failed"},
           NEW r \in Reasons \cup {None}, s = "failed" => r # None,
           NEW outcome \in Outcomes \cup {None},
           RestoreResponsibility(run, owner, s, r, outcome)
    PROVE  IInv'
  <1>1. UNCHANGED <<stateVersion, cacheVars, accepted, draining, exitFailure, exitFenced,
                    idleRecovery>>
    BY DEF RestoreResponsibility, exitVars
  <1>2. /\ state' = s /\ s \in States /\ failureReason' = r
        /\ runId' \in Runs \cup {None} /\ controller' \in Clients \cup {None}
        /\ lastOutcome' \in Outcomes \cup {None}
    BY DEF RestoreResponsibility, States, IInv, TypeOK
  <1>3. FenceHasReason' /\ FailedHasReason' /\ NeverServesAfterFailedExit'
    BY <1>1, <1>2 DEF IInv, FenceHasReason, FailedHasReason, NeverServesAfterFailedExit
  <1>4. OnlyStopsAfterFailedExit'
    BY <1>1 DEF IInv, OnlyStopsAfterFailedExit, cacheVars
  <1>5. QED
    BY <1>1, <1>2, <1>3, <1>4, MetadataStepInv DEF IInv, TypeOK

LEMMA RecordTerminalFailureInv ==
    ASSUME IInv, NEW r \in Reasons, RecordTerminalFailure(r)
    PROVE  IInv'
  <1>1. UNCHANGED <<stateVersion, cacheVars, accepted, draining, exitFailure, exitFenced,
                    idleRecovery>>
    BY DEF RecordTerminalFailure, exitVars
  <1>2. /\ state' \in {"stopped", "failed"} /\ state' \in States
        /\ failureReason' = r /\ r # None /\ lastOutcome' \in Outcomes
        /\ runId' \in Runs \cup {None} /\ controller' \in Clients \cup {None}
    BY CoordinatorConstants DEF RecordTerminalFailure, States, Outcomes, IInv, TypeOK
  <1>3. FenceHasReason' /\ FailedHasReason' /\ NeverServesAfterFailedExit'
    BY <1>1, <1>2 DEF IInv, FenceHasReason, FailedHasReason, NeverServesAfterFailedExit
  <1>4. OnlyStopsAfterFailedExit'
    BY <1>1 DEF IInv, OnlyStopsAfterFailedExit, cacheVars
  <1>5. QED
    BY <1>1, <1>2, <1>3, <1>4, MetadataStepInv DEF IInv, TypeOK

LEMMA FailControlledExitInv ==
    ASSUME IInv, NEW r \in Reasons, FailControlledExit(r)
    PROVE  IInv'
  <1>1. UNCHANGED <<stateVersion, cacheVars, accepted, runId, controller, lastOutcome,
                    idleRecovery>>
    BY DEF FailControlledExit
  <1>2. /\ state' = "failed" /\ state' \in States /\ r # None
        /\ failureReason' = r /\ exitFailure' = r /\ draining' = TRUE
        /\ exitFenced' = exitFenced \cup DOMAIN active
    BY CoordinatorConstants DEF FailControlledExit, States
  <1>3. FenceHasReason' /\ FailedHasReason' /\ NeverServesAfterFailedExit'
    BY <1>2 DEF FenceHasReason, FailedHasReason, NeverServesAfterFailedExit
  <1>4. OnlyStopsAfterFailedExit'
    BY <1>1, <1>2 DEF OnlyStopsAfterFailedExit, cacheVars
  <1>5. QED
    BY <1>1, <1>2, <1>3, <1>4, MetadataStepInv DEF IInv, TypeOK

(* begin_draining and the deferred recovery change neither state nor cache. *)
LEMMA QuietStepInv ==
    ASSUME IInv, BeginDraining \/ RecoverWhenIdle \/ IdleRecoveryEnds
    PROVE  IInv'
  <1>1. UNCHANGED <<stateVersion, cacheVars, accepted, state, runId, controller, failureReason,
                    lastOutcome, exitFailure, exitFenced>>
        /\ (draining' = draining \/ draining' = TRUE)
    BY DEF BeginDraining, RecoverWhenIdle, IdleRecoveryEnds, metaVars, exitVars
  <1>2. idleRecovery' \in {"none", "retained", "running"}
    BY DEF BeginDraining, RecoverWhenIdle, IdleRecoveryEnds, DispatchIdleRecovery, IInv, TypeOK
  <1>3. FenceHasReason' /\ FailedHasReason' /\ NeverServesAfterFailedExit'
    BY <1>1 DEF IInv, FenceHasReason, FailedHasReason, NeverServesAfterFailedExit
  <1>4. OnlyStopsAfterFailedExit'
    BY <1>1 DEF IInv, OnlyStopsAfterFailedExit, cacheVars
  <1>5. draining' \in BOOLEAN
    BY <1>1 DEF IInv, TypeOK
  <1>6. QED
    BY <1>1, <1>2, <1>3, <1>4, <1>5, MetadataStepInv DEF IInv, TypeOK

LEMMA NewInstanceInv ==
    ASSUME NewInstance
    PROVE  IInv'
  <1>1. DOMAIN commands' = {} /\ DOMAIN active' = {}
    BY DEF NewInstance
  <1>2. CacheIsFinite'
    BY <1>1, FS_EmptySet DEF CacheIsFinite
  <1>3. TypeOK'
    <2>1. stateVersion' \in 1..MaxVersion
      BY CoordinatorConstants DEF NewInstance
    <2>2. QED
      BY <1>1, <2>1 DEF NewInstance, TypeOK, States
  <1>4. QED
    BY <1>1, <1>2, <1>3 DEF NewInstance, IInv, InFlightIsKnown, OverlapIsDisjoint,
         PositionsGrow, AcceptedAtOlderVersion, FenceHasReason, FailedHasReason,
         NeverServesAfterFailedExit, OnlyStopsAfterFailedExit, ReceiptHasOrigin

(* Every step preserves IInv. *)
LEMMA NextInv == IInv /\ [Next]_vars => IInv'
  <1> SUFFICES ASSUME IInv, [Next]_vars PROVE IInv'
    OBVIOUS
  <1>1. CASE Submit
    <2>1. PICK req \in Submissions : Accept(req)
      BY <1>1 DEF Submit
    <2>2. req \in Requests
      BY <2>1, CoordinatorConstants DEF Submissions, Requests, IInv, TypeOK
    <2>3. QED
      BY <2>1, <2>2, AcceptInv
  <1>2. CASE \E c \in DOMAIN active : Finish(c)
    <2>1. PICK c \in DOMAIN active : Finish(c)
      BY <1>2
    <2>2. CASE Fail(c)
      BY <2>2, FailInv
    <2>3. CASE \E res \in ResultsOf(commands[c].kind) : Complete(c, res)
      BY <2>3, CompleteInv
    <2>4. QED
      BY <2>1, <2>2, <2>3 DEF Finish
  <1>3. CASE Observe
    <2>1. /\ {"healthy", "recovering", "degraded", "failed"} \subseteq States
          /\ None \notin Reasons
      BY CoordinatorConstants DEF States
    <2>2. CASE UpdateHealthState("healthy", None) \/ UpdateHealthState("recovering", None)
      BY <2>1, <2>2, UpdateHealthStateInv
    <2>3. CASE \E r \in Reasons : UpdateHealthState("degraded", r) \/ UpdateHealthState("failed", r)
      BY <2>1, <2>3, UpdateHealthStateInv
    <2>4. QED
      BY <1>3, <2>2, <2>3 DEF Observe
  <1>4. CASE Restore
    <2>1. PICK run \in Runs \cup {Absent}, owner \in Clients, outcome \in Outcomes \cup {None} :
            \/ RestoreResponsibility(run, owner, "starting", None, None)
            \/ RestoreResponsibility(run, owner, "recovering", None, None)
            \/ RestoreResponsibility(run, owner, "stopped", None, outcome)
            \/ \E r \in Reasons : RestoreResponsibility(run, owner, "failed", r, outcome)
      BY <1>4 DEF Restore
    <2>2. None \notin Reasons
      BY CoordinatorConstants
    <2>3. QED
      BY <2>1, <2>2, RestoreInv
  <1>5. CASE \E r \in Reasons : RecordTerminalFailure(r)
    BY <1>5, RecordTerminalFailureInv
  <1>6. CASE \E r \in Reasons : FailControlledExit(r)
    BY <1>6, FailControlledExitInv
  <1>7. CASE BeginDraining \/ RecoverWhenIdle \/ IdleRecoveryEnds
    BY <1>7, QuietStepInv
  <1>8. CASE NewInstance
    BY <1>8, NewInstanceInv
  <1>9. CASE UNCHANGED vars
    <2>1. UNCHANGED <<state, stateVersion, runId, controller, failureReason, lastOutcome,
                      commands, nextPos, active, draining, exitFailure, exitFenced,
                      idleRecovery, accepted>>
      BY <1>9 DEF vars, metaVars, cacheVars, exitVars
    <2>2. FenceHasReason' /\ FailedHasReason' /\ NeverServesAfterFailedExit'
          /\ OnlyStopsAfterFailedExit'
      BY <2>1 DEF IInv, FenceHasReason, FailedHasReason, NeverServesAfterFailedExit,
           OnlyStopsAfterFailedExit
    <2>3. QED
      BY <2>1, <2>2, MetadataStepInv DEF IInv, TypeOK, cacheVars
  <1>10. QED
    BY <1>1, <1>2, <1>3, <1>4, <1>5, <1>6, <1>7, <1>8, <1>9 DEF Next

(* IInv is an invariant of the coordinator, whatever its callers do. *)
THEOREM Inductive == Spec => []IInv
  BY InitInv, NextInv, PTL DEF Spec

----------------------------------------------------------------------------
(* The properties. *)

(* Type correctness of the coordinator's state. *)
THEOREM TypeCorrect == Spec => []TypeOK
  <1>1. IInv => TypeOK
    BY DEF IInv
  <1>2. QED
    BY <1>1, Inductive, PTL

(* Overlapping operations touch disjoint configuration names, and what is not a
   configuration mutation never overlaps anything (_active_conflicts). *)
THEOREM Overlap == Spec => []OverlapIsDisjoint
  <1>1. IInv => OverlapIsDisjoint
    BY DEF IInv
  <1>2. QED
    BY <1>1, Inductive, PTL

(* A command in flight is in the cache and marked so, whatever is evicted. *)
THEOREM InFlight == Spec => []InFlightIsKnown
  <1>1. IInv => InFlightIsKnown
    BY DEF IInv
  <1>2. QED
    BY <1>1, Inductive, PTL

(* A failed service has a reason. *)
THEOREM Reason == Spec => []FailedHasReason
  <1>1. IInv => FailedHasReason
    BY DEF IInv
  <1>2. QED
    BY <1>1, Inductive, PTL

(* After a failed controlled exit nothing is reported as serving again. *)
THEOREM NeverServes == Spec => []NeverServesAfterFailedExit
  <1>1. IInv => NeverServesAfterFailedExit
    BY DEF IInv
  <1>2. QED
    BY <1>1, Inductive, PTL

(* A request is executed at most once by an instance, evicted receipt or not: it was
   accepted at a version that is now older than the current one. *)
THEOREM AtMostOnce == Spec => []RetryNeverReexecutes
  <1>1. IInv => RetryNeverReexecutes
    <2> SUFFICES ASSUME IInv, NEW req \in accepted
                 PROVE  Verdict(req) # "accept"
      BY DEF RetryNeverReexecutes
    <2>1. req.ver # stateVersion
      BY DEF IInv, AcceptedAtOlderVersion, TypeOK, Requests
    <2>2. QED
      BY <2>1 DEF Verdict, ReplayVerdict, VersionMatches
  <1>2. QED
    BY <1>1, Inductive, PTL

(* A receipt is replayed only to the controller whose request it answers, and a
   verification's receipt only for that verification. *)
THEOREM ReplayToOrigin == Spec => []ReplayOnlyToOrigin
  <1>1. IInv => ReplayOnlyToOrigin
    <2> SUFFICES ASSUME IInv, NEW req \in Submissions,
                        Verdict(req) \in {"replay", "replay_error"}
                 PROVE  /\ controller \in {None, req.ctrl}
                        /\ \E orig \in accepted :
                             /\ orig.cmd = req.cmd /\ orig.ctrl = req.ctrl
                             /\ "verify_egress" \in {orig.kind, req.kind} =>
                                    orig.kind = req.kind /\ orig.ident = req.ident
      BY DEF ReplayOnlyToOrigin
    <2> DEFINE entry == commands[req.cmd]
    <2>1. /\ controller \in {None, req.ctrl}
          /\ req.cmd \in DOMAIN commands
          /\ req.kind = "verify_egress" => req.ident # None
          /\ entry.ctrl = req.ctrl
          /\ "verify_egress" \in {entry.kind, req.kind} => entry.kind = req.kind
          /\ entry.ident # None /\ req.ident # None => entry.ident = req.ident
      BY DEF Verdict, ReplayVerdict
    <2>2. PICK orig \in accepted : Origin(req.cmd, orig)
      BY <2>1 DEF IInv, ReceiptHasOrigin
    <2>3. /\ orig.cmd = req.cmd /\ orig.ctrl = req.ctrl
          /\ "verify_egress" \in {orig.kind, req.kind} =>
                 orig.kind = req.kind /\ orig.ident = req.ident
      BY <2>1, <2>2 DEF Origin
    <2>4. QED
      BY <2>1, <2>3
  <1>2. QED
    BY <1>1, Inductive, PTL

(* The receipt of a completing operation survives the eviction that its own
   completion runs, however many newer commands finished before it. *)
THEOREM CompletionKeepsIt == Spec => CompletionKeepsReceipt
  <1>1. IInv => \A c \in DOMAIN active :
                  (\E res \in ResultsOf(commands[c].kind) : Complete(c, res)) =>
                      c \in DOMAIN commands' /\ commands'[c].status = "completed"
    BY CompleteCache
  <1>2. QED
    BY <1>1, Inductive, PTL DEF CompletionKeepsReceipt

(* A final receipt does not change while the cache holds it: only the entry of an
   operation in flight is rewritten. *)
THEOREM Receipts == Spec => ReceiptsAreFinal
  <1> DEFINE Final == \A c \in DOMAIN commands \cap DOMAIN commands' :
                        commands[c].status # "in_progress" => commands'[c] = commands[c]
  <1>1. IInv /\ [Next]_vars => Final
    <2> SUFFICES ASSUME IInv, [Next]_vars,
                        NEW c \in DOMAIN commands, c \in DOMAIN commands',
                        commands[c].status # "in_progress"
                 PROVE  commands'[c] = commands[c]
      OBVIOUS
    <2>1. CASE Submit
      BY <2>1 DEF Submit, Accept, Verdict, ReplayVerdict, With
    <2>2. CASE \E d \in DOMAIN active : Finish(d)
      <3>1. PICK d \in DOMAIN active : Finish(d)
        BY <2>2
      <3>2. c # d
        BY DEF IInv, InFlightIsKnown
      <3>3. CASE Fail(d)
        <4> DEFINE cs == [commands EXCEPT ![d].status = "failed"]
        <4>1. commands' = Evict(cs, active') /\ cs[c] = commands[c]
          BY <3>2, <3>3 DEF Fail
        <4>2. QED
          BY <4>1, EvictFacts
      <3>4. CASE \E res \in ResultsOf(commands[d].kind) : Complete(d, res)
        BY <3>2, <3>4, CompleteCache
      <3>5. QED
        BY <3>1, <3>3, <3>4 DEF Finish
    <2>3. CASE Observe \/ Restore \/ (\E r \in Reasons : RecordTerminalFailure(r))
               \/ BeginDraining \/ (\E r \in Reasons : FailControlledExit(r))
               \/ RecoverWhenIdle \/ IdleRecoveryEnds \/ UNCHANGED vars
      BY <2>3 DEF Observe, Restore, UpdateHealthState, RestoreResponsibility,
           RecordTerminalFailure, BeginDraining, FailControlledExit, RecoverWhenIdle,
           IdleRecoveryEnds, vars, cacheVars
    <2>4. CASE NewInstance
      BY <2>4 DEF NewInstance
    <2>5. QED
      BY <2>1, <2>2, <2>3, <2>4 DEF Next
  <1>2. QED
    BY <1>1, Inductive, PTL DEF ReceiptsAreFinal, Spec

(* An operation that a failed controlled exit overtook releases neither the run nor
   its owner nor the failure when it completes at last. *)
THEOREM FencedCompletion == Spec => FencedCompletionReleasesNothing
  <1> DEFINE Kept == \A c \in exitFenced \ exitFenced' :
                       exitFailure' # None =>
                           /\ state' = "failed" /\ failureReason' = exitFailure
                           /\ runId # None => runId' # None
                           /\ controller # None => controller' # None
  <1>1. IInv /\ [Next]_vars => Kept
    <2> SUFFICES ASSUME IInv, [Next]_vars,
                        NEW c \in exitFenced, c \notin exitFenced', exitFailure' # None
                 PROVE  /\ state' = "failed" /\ failureReason' = exitFailure
                        /\ runId # None => runId' # None
                        /\ controller # None => controller' # None
      OBVIOUS
    <2>0. PICK d \in DOMAIN active :
            \E result \in ResultsOf(commands[d].kind) : Complete(d, result)
      BY DEF Next, Submit, Accept, Finish, Fail, Observe, Restore, UpdateHealthState,
           RestoreResponsibility, RecordTerminalFailure, BeginDraining, FailControlledExit,
           RecoverWhenIdle, IdleRecoveryEnds, NewInstance, vars, exitVars
    <2>1. PICK result \in ResultsOf(commands[d].kind) : Complete(d, result)
      BY <2>0
    <2>2. c = d
      BY <2>1 DEF Complete
    <2> DEFINE res == Fenced(d, result)
    <2>3. /\ state' = NewState(res) /\ failureReason' = NewReason(res)
          /\ runId' = NewRun(res) /\ controller' = NewController(res)
      BY <2>1 DEF Complete
    <2>4. result \in Results
      <3>1. commands[d].kind \in Kinds
        BY DEF IInv, InFlightIsKnown, TypeOK, Entries
      <3>2. QED
        BY <3>1, CoordinatorConstants DEF ResultsOf, StartedResults, StoppedResults,
             FailedResults, EchoResults, NoopResults, PlainResults, Results, IInv, TypeOK, States, Outcomes
    <2>5. exitFailure # None
      BY DEF IInv, FenceHasReason
    <2>6. /\ res.state = "failed" /\ res.reason = exitFailure /\ res.release = FALSE
          /\ res.run # None
      BY <2>2, <2>4, CoordinatorConstants DEF Fenced, Results
    <2> HIDE DEF res
    <2>7. QED
      BY <2>3, <2>5, <2>6, CoordinatorConstants
      DEF NewState, NewReason, NewRun, NewController, States
  <1>2. QED
    BY <1>1, Inductive, PTL DEF FencedCompletionReleasesNothing, Spec


----------------------------------------------------------------------------
(* The inductive invariant *)

Serving == {"healthy", "degraded"}
Observations == [run : Runs, verdict : {"healthy", "degraded", "failed"}]
Readings == [ver : Nat, ctrl : Clients \cup {None}]
NoWatch == \A r \in Runs : spc[r] \notin {"probe", "publish"}
CleanIn(ch, en, mk, lock) ==
    ch = None /\ en = "clean" /\ ~NeedsRecovery(mk) /\ lock = FALSE
Clean == CleanIn(child, env, marker, configLock)
Answered == runId = marker.run /\ controller = marker.ctrl

(* The control points of start() and of stop(), from the one where it has read the
   marker. *)
Starting == {"prepare", "mark", "adopt", "spawn", "launch", "watch"}
Stopping == {"revoke", "grace", "terminate", "settle", "fence", "register", "clear"}
StopPoints == Stopping \cup {"stop", "nothing"}
Points == Starting \cup Stopping
          \cup {"idle", "begin", "guard", "stop", "nothing", "blame", "finish", "raise",
                "recover", "orphans", "corrupt", "report", "done"}
WatchPoints == {"off", "probe", "publish", "await", "read", "submit", "execute", "record"}

Shapes ==
    /\ STypeOK
    /\ pc \in [Threads -> Points] /\ spc \in [Submitters -> WatchPoints]
    /\ op \in Operations \cup {None}
    /\ seen \in [Runs -> Observations \cup {None}]
    /\ readAt \in [Submitters -> Readings \cup {None}]
    /\ \A r \in Runs : spc[r] = "publish" => seen[r] \in Observations
    /\ \A s \in Submitters : spc[s] = "submit" => readAt[s] \in Readings

(* The coordinator executes the supervisor's operation and nothing else. *)
OneOperation ==
    /\ ~draining /\ exitFailure = None /\ exitFenced = {}
    /\ op = None <=> pc["op"] = "idle"
    /\ DOMAIN active = IF op = None THEN {} ELSE {op.cmd}
    /\ op # None =>
         /\ op.by = "client" => op.ctrl \in Clients /\ commands[op.cmd].kind = KindOf(op.prog)
         /\ op.by # "client" => op.prog = "stop" /\ commands[op.cmd].kind = "internal"
         /\ op.then # "return" => op.prog \in {"start", "restart"}
         /\ pc["op"] \in Starting \cup {"guard", "blame"} => op.prog \in {"start", "restart"}
         /\ pc["op"] \in Stopping \cup {"stop", "nothing"} => op.prog \in {"start", "restart", "stop"}
         /\ pc["op"] = "blame" => op.then = "blame"

(* The startup recovery is alone. *)
BootIsAlone ==
    pc["boot"] # "done" =>
        /\ op = None /\ state = "recovering" /\ idleRecovery = "none"
        /\ \A s \in Submitters : spc[s] = "off"
        /\ child = None /\ ~configLock /\ capability = "unverified"
        /\ pc["boot"] \notin {"recover", "corrupt"} /\ NeedsRecovery(marker) =>
             bootMarker = marker /\ memMarker = marker
        /\ pc["boot"] \in {"recover", "corrupt"} => runId = None /\ controller = None
        /\ pc["boot"] = "corrupt" => bootMarker = None

(* The marker covers the child and the environment; memory has what is on disk, or
   nothing as long as the marker could not be read. *)
Covered ==
    /\ alive => child # None
    /\ child # None => NeedsRecovery(marker) /\ child.run = marker.run
    /\ env = "dirty" => NeedsRecovery(marker)
Remembered ==
    NeedsRecovery(marker) /\ pc["boot"] # "recover" =>
        \/ memMarker = marker
        \/ memMarker = None /\ child = None

(* The instance found a marker that it could not read, and at most the stop that has
   read it since knows whose it is. *)
Unknown ==
    /\ runId = None /\ controller = None /\ child = None
    /\ pc["boot"] = "corrupt" \/ state = "failed"
    /\ pc["op"] \in StopPoints \cup {"blame"} => op.prog = "stop"
    /\ memMarker # None => \/ pc["op"] \in Stopping
                           \/ pc["op"] = "finish" /\ ret["op"] \in FailedResults

(* What a stop at control point p may rely on. *)
StopFacts(p, revoked, mem, mk, ch, en) ==
    /\ p \in Stopping \cup {"nothing"} => revoked = TRUE /\ mem = mk
    /\ p = "nothing" => ch = None /\ ~NeedsRecovery(mk)
    /\ p \in Stopping => NeedsRecovery(mk)
    /\ p \in {"grace", "terminate"} => ch # None
    /\ p \in {"settle", "fence", "register", "clear"} => ch = None
    /\ p \in {"fence", "register", "clear"} => en = "clean"
StopsAreSound ==
    /\ StopFacts(pc["op"], healthStop, memMarker, marker, child, env)
    /\ StopFacts(pc["boot"], healthStop, memMarker, marker, child, env)

(* What a start may rely on. *)
StartFacts ==
    /\ pc["op"] \in {"prepare", "mark", "adopt", "spawn"} => child = None
    /\ pc["op"] \in {"prepare", "mark"} => ~NeedsRecovery(marker) /\ capability = "verified"
    /\ pc["op"] \in Starting \ {"prepare"} =>
         memMarker = [run |-> op.run, ctrl |-> op.ctrl, needs |-> TRUE] /\ op.run \in Runs
    /\ pc["op"] \in {"adopt", "spawn", "launch", "watch"} => marker = memMarker
    /\ pc["op"] \in {"launch", "watch"} => child # None /\ child.ready
    /\ pc["op"] \in {"spawn", "launch", "watch"} => state \notin Serving \cup {"stopped"}
    /\ pc["op"] \in Starting => healthStop \/ NoWatch
    /\ pc["op"] = "stop" /\ op.then = "blame" => state = "failed" /\ (healthStop \/ NoWatch)

(* A health thread that may still publish watches a child that became ready. *)
WatchFacts ==
    /\ ~healthStop /\ ~NoWatch => child # None /\ child.ready
    /\ child # None /\ ~child.ready => state \notin Serving

(* What the state says. *)
StateFacts ==
    /\ ServingIsReal /\ NoServingDuringStop
    /\ pc["boot"] # "recover" /\ pc["op"] # "adopt" /\ NeedsRecovery(marker) =>
         Answered \/ Unknown
    /\ pc["boot"] = "done" /\ pc["op"] \notin {"prepare", "mark", "adopt"} /\ state = "stopped" =>
         Clean /\ runId = None /\ controller = None
    /\ state = "starting" => \/ pc["op"] \in {"spawn", "launch", "watch"}
                             \/ pc["op"] = "finish" /\ ret["op"].state = "healthy"
    /\ pc["op"] = "begin" /\ op.by = "client" => state # "recovering"

(* What an operation that is about to complete reports. *)
Reported(res, ch, en, mk, mem, lock, run, ctl) ==
    /\ res.state = "stopped" =>
         /\ CleanIn(ch, en, mk, lock)
         /\ (res.run = None /\ res.release) \/ (run = None /\ ctl = None)
    /\ res.state = "healthy" => ch # None /\ ch.ready
    /\ res \in FailedResults \cup StartedResults /\ NeedsRecovery(mk) =>
         \/ res.run = mk.run /\ res.ctrl = mk.ctrl
         \/ res.run = Absent /\ res.ctrl = None /\ mem = None
LifecycleResults == StartedResults \cup StoppedResults \cup FailedResults \cup NoopResults
ReportFacts ==
    /\ pc["op"] \in {"finish", "blame"} =>
         /\ Reported(ret["op"], child, env, marker, memMarker, configLock, runId, controller)
         /\ op.by # "client" \/ pc["op"] = "blame" =>
                ret["op"] \in StoppedResults \cup FailedResults
         /\ op.prog \in {"start", "restart", "stop"} => ret["op"] \in LifecycleResults
         /\ op.prog = "verify" => ret["op"] \in PlainResults
         /\ op.prog = "load" =>
                ret["op"] = EchoResult /\ state \in {"stopped", "failed"} /\ child = None
    /\ pc["boot"] = "report" =>
         /\ Reported(ret["boot"], child, env, marker, memMarker, configLock, runId, controller)
         /\ ret["boot"] \in StoppedResults \cup FailedResults
         /\ ret["boot"].state = "stopped" => ret["boot"].reason = None

SupIInv ==
    /\ IInv /\ Shapes /\ OneOperation /\ BootIsAlone /\ Covered /\ Remembered
    /\ StopsAreSound /\ StartFacts /\ WatchFacts /\ StateFacts
    /\ ReportFacts

----------------------------------------------------------------------------
(* The results of stop() *)

LEMMA ResultTypes ==
    /\ \A m \in Markers \cup {None} : FailedResult(m, "stop_failed") \in FailedResults
    /\ \A c \in BOOLEAN : StoppedResult(c) \in StoppedResults
    /\ StoppedResults \cup FailedResults \subseteq Results
    /\ \A c \in BOOLEAN : [StoppedResult(c) EXCEPT !.outcome = "failed"] \in StoppedResults
  <1>1. "stop_failed" \in Reasons
    BY SupervisorConstants
  <1>2. TRUE \in BOOLEAN /\ FALSE \in BOOLEAN
    BY Zenon
  <1>3. \A m \in Markers \cup {None} : FailedResult(m, "stop_failed") \in FailedResults
    <2>1. FailedResult(None, "stop_failed") \in FailedResults
      BY <1>1 DEF FailedResult, FailedResults
    <2>2. ASSUME NEW m \in Markers PROVE FailedResult(m, "stop_failed") \in FailedResults
      <3>1. m # None /\ m.run \in Runs /\ m.ctrl \in Clients
        BY SupervisorConstants DEF Markers
      <3>2. QED
        BY <1>1, <3>1 DEF FailedResult, FailedResults
    <2>3. QED
      BY <2>1, <2>2
  <1>4. \A c \in BOOLEAN : StoppedResult(c) \in StoppedResults
    <2>1. ASSUME NEW c \in BOOLEAN PROVE StoppedResult(c) \in StoppedResults
      <3>1. (IF runFailed THEN "failed" ELSE IF c THEN "ok" ELSE Absent) \in Outcomes \cup {Absent}
        BY Zenon DEF Outcomes
      <3>2. QED
        BY <1>2, <3>1 DEF StoppedResult, StoppedResults
    <2>2. QED
      BY <2>1
  <1>5. StoppedResults \cup FailedResults \subseteq Results
    <2>1. StoppedResults \subseteq Results
      BY <1>2 DEF StoppedResults, Results, States
    <2>2. FailedResults \subseteq Results
      BY <1>2 DEF FailedResults, Results, States, Outcomes
    <2>3. QED
      BY <2>1, <2>2
  <1>6. \A c \in BOOLEAN : [StoppedResult(c) EXCEPT !.outcome = "failed"] \in StoppedResults
    BY <1>4 DEF StoppedResults, Outcomes
  <1>7. QED
    BY <1>3, <1>4, <1>5, <1>6

(* The two kinds of result stop() returns, by their state. *)
LEMMA ResultKinds ==
    /\ \A res \in StoppedResults : /\ res.state = "stopped" /\ res.run = None /\ res.release
                                   /\ res \notin FailedResults \cup StartedResults
    /\ \A res \in FailedResults : res.state = "failed" /\ ~res.release
  BY DEF StoppedResults, FailedResults, StartedResults

LEMMA ReturnFacts ==
    ASSUME Shapes, NEW t \in Threads, NEW res \in StoppedResults \cup FailedResults, Return(t, res)
    PROVE  /\ ret' \in [Threads -> {None} \cup Results] /\ ret'[t] = res
           /\ \A u \in Threads : u # t => ret'[u] = ret[u]
           /\ pc' = [pc EXCEPT ![t] = AfterStop(t, res)]
           /\ lifeLock' \in Threads \cup {"free"}
           /\ graceError' \in [Threads -> BOOLEAN]
           /\ runFailed' \in BOOLEAN /\ observer' \in BOOLEAN
           /\ UNCHANGED <<op, bootMarker>>
  <1>1. ret' \in [Threads -> {None} \cup Results] /\ ret'[t] = res
        /\ \A u \in Threads : u # t => ret'[u] = ret[u]
    BY ResultTypes DEF Return, Shapes, STypeOK
  <1>2. /\ pc' = [pc EXCEPT ![t] = AfterStop(t, res)] /\ UNCHANGED <<op, bootMarker>>
        /\ lifeLock' \in Threads \cup {"free"}
    BY DEF Return, Goto, Threads
  <1>3. graceError' \in [Threads -> BOOLEAN]
    BY DEF Return, Shapes, STypeOK
  <1>4. runFailed' \in BOOLEAN /\ observer' \in BOOLEAN
    BY DEF Return, Shapes, STypeOK
  <1>5. QED
    BY <1>1, <1>2, <1>3, <1>4

----------------------------------------------------------------------------
(* Every step of stop(): what it needs to preserve SupIInv. *)

LEMMA StopStep ==
    ASSUME SupIInv, IInv', STypeOK', NEW t \in Threads, pc[t] \in StopPoints,
           NEW p \in Points, pc' = [pc EXCEPT ![t] = p],
           UNCHANGED <<runId, controller, commands, active, draining, exitFailure, exitFenced,
                       idleRecovery, op, bootMarker, watchVars>>,
           state' = state \/ state' \in {"recovering", "failed"}, t = "boot" => state' = "recovering",
           state = "failed" => state' = "failed",
           healthStop' = TRUE, Covered', Remembered',
           memMarker' = marker' \/ (memMarker' = memMarker /\ marker' = marker),
           marker' = marker \/ ~NeedsRecovery(marker'),
           child' = child \/ child' = None,
           state' \in Serving => /\ state' = state /\ child' = child /\ marker' = marker
                                 /\ p \notin Stopping \ {"revoke"},
           t = "boot" => ~configLock' /\ capability' = "unverified",
           state' = "stopped" => Clean',
           \/ /\ p \in Stopping \cup {"nothing"}
              /\ StopFacts(p, healthStop', memMarker', marker', child', env')
           \/ /\ p = AfterStop(t, ret'[t])
              /\ Reported(ret'[t], child', env', marker', memMarker', configLock', runId, controller)
              /\ ret'[t] \in StoppedResults \cup FailedResults
              /\ t = "boot" /\ ret'[t].state = "stopped" => ret'[t].reason = None
    PROVE  SupIInv'
  <1>1. /\ pc'[t] = p /\ \A u \in Threads : u # t => pc'[u] = pc[u]
        /\ pc' \in [Threads -> Points]
    BY DEF SupIInv, Shapes
  <1>2. Shapes'
    BY <1>1 DEF SupIInv, Shapes, watchVars
  <1>3. t = "op" => op # None /\ pc["boot"] = "done" /\ pc'["boot"] = "done"
    BY <1>1 DEF SupIInv, OneOperation, BootIsAlone, StopPoints, Stopping, Threads
  <1>4. t = "boot" => op = None /\ pc["op"] = "idle" /\ pc'["op"] = "idle" /\ child = None
                      /\ pc["boot"] \notin {"recover", "corrupt", "done"}
    BY <1>1 DEF SupIInv, OneOperation, BootIsAlone, StopPoints, Stopping, Threads
  <1>5. /\ t = "op" => p \in Stopping \cup {"nothing", "blame", "guard", "finish"}
        /\ t = "op" /\ p = "blame" => op.then = "blame"
        /\ t = "op" /\ p = "guard" => op.then = "start"
        /\ t = "boot" => p \in Stopping \cup {"nothing", "report"}
    BY DEF AfterStop, Threads, Stopping
  <1>6. OneOperation'
    BY <1>1, <1>3, <1>4, <1>5 DEF SupIInv, OneOperation, Stopping, Starting, Threads, StopPoints
  <1>7. BootIsAlone'
    BY <1>1, <1>3, <1>4, <1>5 DEF SupIInv, BootIsAlone, Stopping, Threads, watchVars
  <1>8. Remembered'
    OBVIOUS
  <1>9. StopsAreSound'
    <2>1. \A q \in Points : q \notin Stopping \cup {"nothing"} =>
            StopFacts(q, healthStop', memMarker', marker', child', env')
      BY DEF StopFacts, Stopping
    <2>2. StopFacts(p, healthStop', memMarker', marker', child', env')
      BY <2>1 DEF AfterStop, Stopping
    <2>3. CASE t = "op"
      BY <1>1, <1>3, <2>1, <2>2, <2>3 DEF Stopping, Threads, StopsAreSound
    <2>4. CASE t = "boot"
      BY <1>1, <1>4, <2>1, <2>2, <2>4 DEF Stopping, Threads, StopsAreSound
    <2>5. QED
      BY <2>3, <2>4 DEF Threads
  <1>10. StartFacts'
    BY <1>1, <1>3, <1>4, <1>5 DEF StartFacts, Starting, Stopping, Threads
  <1>11. WatchFacts'
    BY DEF SupIInv, WatchFacts
  <1>12. StateFacts'
    <2>1. ServingIsReal'
      BY DEF SupIInv, StateFacts, ServingIsReal, Serving
    <2>2. NoServingDuringStop'
      BY <1>1, <1>3, <1>4 DEF NoServingDuringStop, Serving, Stopping, Threads
    <2>3. ASSUME NeedsRecovery(marker') PROVE Answered' \/ Unknown'
      <3>1. marker' = marker
        BY <2>3
      <3>2. Answered \/ Unknown
        BY <1>3, <1>4, <2>3, <3>1 DEF SupIInv, StateFacts, Threads, StopPoints, Stopping
      <3>3. CASE Answered
        BY <3>1, <3>3 DEF Answered
      <3>4. CASE Unknown
        <4>1. t = "op" /\ state' = "failed" /\ child' = None
          <5>1. t # "boot"
            BY <1>4, <3>4 DEF SupIInv, BootIsAlone, Unknown
          <5>2. t = "op" /\ pc["boot"] = "done"
            BY <1>3, <5>1 DEF Threads
          <5>3. state = "failed" /\ child = None
            BY <3>4, <5>2 DEF Unknown
          <5> QED
            BY <5>2, <5>3
        <4>2. op.prog = "stop" /\ op.then = "return"
          BY <1>3, <3>4, <4>1 DEF SupIInv, Shapes, OneOperation, Unknown, Operations
        <4>3. p \in Stopping \/ p = "nothing" \/ (p = "finish" /\ ret'["op"] \in FailedResults)
          <5>1. CASE p \in Stopping \cup {"nothing"}
            BY <5>1
          <5>2. CASE p \notin Stopping \cup {"nothing"}
            <6>1. /\ p = AfterStop(t, ret'[t]) /\ ret'[t] \in StoppedResults \cup FailedResults
                  /\ ret'[t].state = "stopped" => ~NeedsRecovery(marker')
              BY <5>2 DEF Reported, CleanIn
            <6>2. ret'["op"] \in FailedResults
              BY <2>3, <4>1, <6>1, ResultKinds
            <6>3. p = "finish"
              BY <4>1, <4>2, <6>1 DEF AfterStop
            <6> QED
              BY <6>2, <6>3
          <5> QED
            BY <5>1, <5>2
        <4>4. p # "nothing"
          BY <2>3, <4>1 DEF StopFacts, AfterStop, Stopping
        <4>5. Unknown'
          BY <1>1, <3>4, <4>1, <4>2, <4>3, <4>4 DEF Unknown
        <4> QED
          BY <4>5
      <3> QED
        BY <3>2, <3>3, <3>4
    <2>4. state' = "stopped" => Clean' /\ runId' = None /\ controller' = None
      BY <1>3, <1>4 DEF SupIInv, StateFacts, Threads, StopPoints, Stopping
    <2>5. state' # "starting"
      BY <1>3, <1>4 DEF SupIInv, StateFacts, BootIsAlone, Threads, StopPoints, Stopping
    <2>6. pc'["op"] # "begin"
      BY <1>1, <1>3, <1>4, <1>5 DEF Stopping, Threads
    <2>7. QED
      BY <2>1, <2>2, <2>3, <2>4, <2>5, <2>6 DEF StateFacts
  <1>13. ReportFacts'
    <2>1. ASSUME t = "op", p \in {"finish", "blame"} PROVE ReportFacts'
      <3>1. /\ Reported(ret'["op"], child', env', marker', memMarker', configLock', runId', controller')
            /\ ret'["op"] \in StoppedResults \cup FailedResults
        BY <2>1 DEF Stopping
      <3>2. op.prog \in {"start", "restart", "stop"}
        BY <1>3, <2>1 DEF SupIInv, OneOperation, StopPoints
      <3>3. ret'["op"] \in LifecycleResults
        BY <3>1 DEF LifecycleResults
      <3>4. pc'["boot"] # "report" /\ op' = op
        BY <1>3, <2>1
      <3>5. QED
        BY <2>1, <3>1, <3>2, <3>3, <3>4 DEF ReportFacts
    <2>2. ASSUME t = "boot", p = "report" PROVE ReportFacts'
      <3>1. /\ Reported(ret'["boot"], child', env', marker', memMarker', configLock', runId', controller')
            /\ ret'["boot"] \in StoppedResults \cup FailedResults
            /\ ret'["boot"].state = "stopped" => ret'["boot"].reason = None
        BY <2>2 DEF Stopping
      <3>2. QED
        BY <1>1, <1>4, <2>2, <3>1 DEF ReportFacts, Threads
    <2>3. ASSUME ~(t = "op" /\ p \in {"finish", "blame"}), ~(t = "boot" /\ p = "report")
          PROVE  ReportFacts'
      BY <1>1, <1>3, <1>4, <2>3 DEF ReportFacts, Threads
    <2>4. QED
      BY <2>1, <2>2, <2>3
  <1>14. QED
    BY <1>2, <1>6, <1>7, <1>8, <1>9, <1>10, <1>11, <1>12, <1>13 DEF SupIInv

----------------------------------------------------------------------------
(* The supervisor's threads drive the coordinator as module Coordinator says. *)

LEMMA Observes ==
    ASSUME NEW s \in {"healthy", "recovering", "degraded", "failed"}, NEW r \in Reasons \cup {None},
           s \in {"healthy", "recovering"} => r = None, s \notin {"healthy", "recovering"} => r \in Reasons,
           UpdateHealthState(s, r)
    PROVE  Next
  BY DEF Next, Observe

LEMMA Restores ==
    ASSUME SupIInv, NEW m \in Markers \cup {None}, NEW r \in Reasons \cup {None},
           NEW s \in {"recovering", "stopped", "failed"}, NEW o \in Outcomes \cup {None},
           s = "failed" <=> r \in Reasons, s = "recovering" => o = None,
           RestoreResponsibility(MarkerRun(m), MarkerOwner(m), s, r, o)
    PROVE  Next
  <1>1. PICK c : c \in Clients
    BY SupervisorConstants
  <1>2. s # "failed" => r = None
    OBVIOUS
  <1>3. CASE NeedsRecovery(m)
    <2>1. MarkerRun(m) \in Runs /\ MarkerOwner(m) \in Clients
      BY <1>3 DEF NeedsRecovery, MarkerRun, MarkerOwner, Markers
    <2>2. Restore
      BY <1>2, <2>1 DEF Restore
    <2>3. QED
      BY <2>2 DEF Next
  <1>4. CASE ~NeedsRecovery(m)
    <2>1. RestoreResponsibility(Absent, c, s, r, o)
      BY <1>4 DEF MarkerRun, RestoreResponsibility
    <2>2. Restore
      BY <1>1, <1>2, <2>1 DEF Restore
    <2>3. QED
      BY <2>2 DEF Next
  <1>5. QED
    BY <1>3, <1>4

LEMMA CompletesWithItsKind ==
    ASSUME SupIInv, pc["op"] = "finish"
    PROVE  op # None /\ op.cmd \in DOMAIN active /\ ret["op"] \in ResultsOf(commands[op.cmd].kind)
  <1>1. op # None /\ op \in Operations /\ op.cmd \in DOMAIN active
    BY DEF SupIInv, OneOperation, Shapes
  <1>2. op.prog \in Programs
    BY <1>1 DEF Operations
  <1>3. CASE op.by # "client"
    <2>1. commands[op.cmd].kind = "internal" /\ ret["op"] \in StoppedResults \cup FailedResults
      BY <1>1, <1>3 DEF SupIInv, OneOperation, ReportFacts
    <2>2. QED
      BY <1>1, <2>1 DEF ResultsOf
  <1>4. CASE op.by = "client" /\ op.prog \in {"start", "stop", "restart"}
    <2>1. commands[op.cmd].kind = "lifecycle"
      BY <1>1, <1>4 DEF SupIInv, OneOperation, KindOf
    <2>2. ret["op"] \in LifecycleResults
      BY <1>4 DEF SupIInv, ReportFacts
    <2>3. QED
      BY <1>1, <2>1, <2>2 DEF ResultsOf, LifecycleResults
  <1>5. CASE op.by = "client" /\ op.prog = "load"
    <2>1. commands[op.cmd].kind = "load_config"
      BY <1>1, <1>5 DEF SupIInv, OneOperation, KindOf
    <2>2. ret["op"] = EchoResult
      BY <1>5 DEF SupIInv, ReportFacts
    <2>3. TRUE \in BOOLEAN
      BY Zenon
    <2>4. EchoResult \in EchoResults
      BY <2>3 DEF EchoResult, NoResult, EchoResults
    <2>5. QED
      BY <1>1, <2>1, <2>2, <2>4 DEF ResultsOf
  <1>6. CASE op.by = "client" /\ op.prog = "verify"
    <2>1. commands[op.cmd].kind = "verify_egress"
      BY <1>1, <1>6 DEF SupIInv, OneOperation, KindOf
    <2>2. ret["op"] \in PlainResults
      BY <1>6 DEF SupIInv, ReportFacts
    <2>3. QED
      BY <1>1, <2>1, <2>2 DEF ResultsOf
  <1>7. QED
    BY <1>2, <1>3, <1>4, <1>5, <1>6 DEF Programs

(* The requests the supervisor's clients and threads submit *)
LEMMA ClientRequest ==
    ASSUME SupIInv, NEW c \in Commands, NEW ctrl \in Clients, NEW prog \in Programs, NEW req,
           req = [cmd |-> c, ctrl |-> ctrl, valid |-> TRUE, ver |-> stateVersion,
                  kind |-> KindOf(prog), scope |-> None,
                  ident |-> IF prog = "verify" THEN CHOOSE i \in Idents : TRUE ELSE None]
    PROVE  req \in Submissions
  <1>1. (CHOOSE i \in Idents : TRUE) \in Idents
    BY SupervisorConstants
  <1>2. KindOf(prog) \in {"load_config", "verify_egress", "lifecycle"}
        /\ (prog = "verify" <=> KindOf(prog) = "verify_egress")
    BY DEF KindOf, Programs
  <1>3. TRUE \in BOOLEAN /\ None \in Scopes
    BY Zenon DEF Scopes
  <1>4. req \in [cmd : Commands, ctrl : Clients \cup {None}, valid : BOOLEAN,
              ver : {stateVersion}, kind : Kinds, scope : Scopes, ident : Idents \cup {None}]
    BY <1>1, <1>2, <1>3 DEF Kinds, ClientKinds
  <1>5. WellFormed(req)
    BY <1>2 DEF WellFormed
  <1>6. QED
    BY <1>4, <1>5 DEF Submissions

LEMMA ThreadRequest ==
    ASSUME SupIInv, NEW s \in Submitters, spc[s] = "submit", NEW c \in Commands,
           Verdict(ProtectiveRequest(s, c)) = "accept"
    PROVE  ProtectiveRequest(s, c) \in Submissions
  <1> DEFINE req == ProtectiveRequest(s, c)
  <1>1. readAt[s].ctrl \in Clients \cup {None}
    BY DEF SupIInv, Shapes, Readings
  <1>2. req.ver = stateVersion
    BY DEF Verdict, VersionMatches, ReplayVerdict
  <1>3. /\ req.cmd = c /\ req.ctrl = readAt[s].ctrl /\ req.valid = TRUE /\ req.ver = readAt[s].ver
        /\ req.kind = "internal" /\ req.scope = None /\ req.ident = None
    BY DEF ProtectiveRequest
  <1>4. TRUE \in BOOLEAN /\ None \in Scopes
    BY Zenon DEF Scopes
  <1>5. req \in [cmd : Commands, ctrl : Clients \cup {None}, valid : BOOLEAN,
              ver : {stateVersion}, kind : Kinds, scope : Scopes, ident : Idents \cup {None}]
    BY <1>1, <1>2, <1>3, <1>4 DEF Kinds, ProtectiveRequest
  <1>6. WellFormed(req)
    BY <1>3 DEF WellFormed
  <1>7. QED
    BY <1>5, <1>6 DEF Submissions

LEMMA CoordinatorStep == SupIInv /\ [SNext]_allVars => [Next]_vars
  <1> SUFFICES ASSUME SupIInv, [SNext]_allVars PROVE Next \/ UNCHANGED vars
    BY DEF vars
  <1>0. {"start_failed", "stop_failed", "probe_failed"} \subseteq Reasons
    BY SupervisorConstants
  <1>1. CASE ClientSubmits
    <2>1. PICK c \in Commands, ctrl \in Clients, prog \in Programs :
            Begin([cmd |-> c, ctrl |-> ctrl, valid |-> TRUE, ver |-> stateVersion,
                   kind |-> KindOf(prog), scope |-> None,
                   ident |-> IF prog = "verify" THEN CHOOSE i \in Idents : TRUE ELSE None],
                  prog, "client")
      BY <1>1 DEF ClientSubmits
    <2>2. QED
      BY <2>1, ClientRequest DEF Begin, Next, Submit
  <1>2. CASE OpCompletes
    BY <1>2, CompletesWithItsKind DEF OpCompletes, Next, Finish
  <1>3. CASE OpRaises
    BY <1>3 DEF OpRaises, SupIInv, OneOperation, Next, Finish
  <1>4. CASE Execute \/ ChildDies
    BY <1>4 DEF Execute, ChildDies
  <1>5. CASE StartGuard \/ StartWatch
    BY <1>5 DEF StartGuard, StartWatch
  <1>6. CASE StartPrepare \/ StartMark \/ StartSpawn \/ StartLaunch
    <2>1. UpdateHealthState("failed", "start_failed") \/ UNCHANGED vars
      BY <1>6 DEF StartPrepare, StartMark, StartSpawn, StartLaunch, StartFails
    <2>2. QED
      BY <1>0, <2>1, Observes
  <1>7. CASE StartAdopt
    <2>1. memMarker.run \in Runs /\ memMarker.ctrl \in Clients
      <3>1. memMarker = [run |-> op.run, ctrl |-> op.ctrl, needs |-> TRUE]
        BY <1>7 DEF StartAdopt, SupIInv, StartFacts, Starting
      <3>2. op # None /\ op.prog \in {"start", "restart"}
        BY <1>7 DEF StartAdopt, SupIInv, OneOperation, Starting
      <3>3. op.ctrl \in Clients /\ op.run \in Runs
        BY <1>7, <3>2 DEF StartAdopt, SupIInv, OneOperation, StartFacts, Starting
      <3>4. QED
        BY <3>1, <3>3
    <2>2. QED
      BY <1>7, <2>1, CoordinatorConstants DEF StartAdopt, Next, Restore
  <1>8. CASE StartBlame
    BY <1>0, <1>8 DEF StartBlame, Next
  <1>9. ASSUME NEW t \in Threads, Stop(t) PROVE Next \/ UNCHANGED vars
    <2>1. \/ UpdateHealthState("recovering", None) \/ UpdateHealthState("failed", "stop_failed")
          \/ UNCHANGED vars
      BY <1>9 DEF Stop, StopEnter, StopNothing, StopRevoke, StopGrace, StopTerminate, StopSettle,
                  StopFence, StopRegister, StopClear
    <2>2. QED
      BY <1>0, <2>1, Observes
  <1>10. ASSUME NEW r \in Runs, Watch(r) PROVE Next \/ UNCHANGED vars
    <2>1. CASE Probe(r)
      BY <2>1 DEF Probe
    <2>2. CASE Publish(r)
      <3>1. seen[r] \in Observations
        BY <2>2 DEF Publish, SupIInv, Shapes
      <3>2. seen[r].verdict \in {"healthy", "degraded", "failed"}
        BY <3>1 DEF Observations
      <3>3. QED
        BY <1>0, <2>2, <3>2, Observes DEF Publish
    <2>3. CASE AwaitIdle(r)
      BY <2>3 DEF AwaitIdle, Next
    <2>4. QED
      BY <1>10, <2>1, <2>2, <2>3 DEF Watch
  <1>11. ASSUME NEW s \in Submitters, Protect(s) PROVE Next \/ UNCHANGED vars
    <2>1. CASE ProtectiveRead(s)
      BY <2>1 DEF ProtectiveRead
    <2>2. CASE ProtectiveSubmit(s)
      <3>1. \/ UNCHANGED vars
            \/ \E c \in Commands : Verdict(ProtectiveRequest(s, c)) = "accept"
                                   /\ Accept(ProtectiveRequest(s, c))
        BY <2>2 DEF ProtectiveSubmit, Begin
      <3>2. spc[s] = "submit"
        BY <2>2 DEF ProtectiveSubmit
      <3>3. QED
        BY <3>1, <3>2, ThreadRequest DEF Next, Submit
    <2>3. CASE ThreadEnds(s)
      BY <1>0, <2>3 DEF ThreadEnds, Next
    <2>4. QED
      BY <1>11, <2>1, <2>2, <2>3 DEF Protect
  <1>12. CASE Boot
    <2>0. marker \in Markers \cup {None} /\ bootMarker \in Markers \cup {None}
      BY DEF SupIInv, Shapes, STypeOK
    <2>1. CASE BootReads
      BY <2>0, <2>1, Restores, CoordinatorConstants DEF BootReads
    <2>2. CASE BootOrphans
      BY <1>0, <2>0, <2>2, Restores, CoordinatorConstants DEF BootOrphans
    <2>3. CASE BootReports
      <3> DEFINE res == ret["boot"]
                 o == IF res.outcome = Absent THEN None ELSE res.outcome
      <3>1. /\ res \in StoppedResults \cup FailedResults
            /\ res.state = "stopped" => res.reason = None
        BY <2>3 DEF BootReports, SupIInv, ReportFacts
      <3>2. RestoreResponsibility(MarkerRun(bootMarker), MarkerOwner(bootMarker), res.state,
                                  res.reason, o)
        BY <2>3 DEF BootReports
      <3>3. /\ res.state \in {"stopped", "failed"} /\ o \in Outcomes \cup {None}
            /\ res.state = "failed" => res.reason \in Reasons
        BY <3>1 DEF StoppedResults, FailedResults, Outcomes
      <3>4. res.state = "failed" <=> res.reason \in Reasons
        BY <3>1, <3>3, CoordinatorConstants
      <3> HIDE DEF o, res
      <3>5. res.reason \in Reasons \cup {None}
        BY <3>1, <3>3
      <3>6. QED
        BY <2>0, <3>2, <3>3, <3>4, <3>5, Restores
    <2>4. QED
      BY <1>12, <2>1, <2>2, <2>3 DEF Boot
  <1>13. CASE Crash
    BY <1>13 DEF Crash, Next
  <1>14. CASE UNCHANGED allVars
    BY <1>14 DEF allVars
  <1>15. QED
    BY <1>1, <1>2, <1>3, <1>4, <1>5, <1>6, <1>7, <1>8, <1>9, <1>10, <1>11, <1>12, <1>13, <1>14
       DEF SNext, Start

----------------------------------------------------------------------------
(* The steps of stop() *)

(* A stop that fails keeps the marker, and reports the run and the owner it names, or none
   if it could not read it. *)
LEMMA FailedStop ==
    ASSUME SupIInv, IInv', NEW t \in Threads, pc[t] \in StopPoints,
           NEW known \in {marker, memMarker}, Return(t, FailedResult(known, "stop_failed")),
           UNCHANGED <<vars, diskVars, watchVars, used, crashes>>,
           healthStop' = TRUE, memMarker' = known,
           child' \in {child, None}, alive' \in {alive, FALSE}, alive' = TRUE => child' # None,
           env' \in {env, "clean"}, configLock' \in {configLock, FALSE},
           capability' \in {"unverified", capability},
           fate' \in [Runs -> {"unknown", "failed", "stopping"}],
           state \in Serving => child' = child
    PROVE  SupIInv'
  <1> DEFINE res == FailedResult(known, "stop_failed")
             p == AfterStop(t, res)
  <1>0. UNCHANGED <<state, runId, controller, commands, active, draining, exitFailure, exitFenced,
                    idleRecovery, watchVars, marker, baseline>>
    BY DEF vars, metaVars, cacheVars, exitVars, diskVars
  <1>1. known \in Markers \cup {None} /\ STypeOK /\ Shapes
    BY DEF SupIInv, Shapes, STypeOK
  <1>2. res \in FailedResults
    BY <1>1, ResultTypes
  <1>3. /\ ret' \in [Threads -> {None} \cup Results] /\ ret'[t] = res
        /\ pc' = [pc EXCEPT ![t] = p]
        /\ lifeLock' \in Threads \cup {"free"} /\ graceError' \in [Threads -> BOOLEAN]
        /\ runFailed' \in BOOLEAN /\ observer' \in BOOLEAN
        /\ UNCHANGED <<op, bootMarker>>
    BY <1>1, <1>2, ReturnFacts
  <1>4. p \in Points
    BY DEF AfterStop, Points
  <1>5. alive' \in BOOLEAN /\ configLock' \in BOOLEAN /\ healthStop' \in BOOLEAN
    BY <1>1, Zenon DEF STypeOK
  <1>6. STypeOK'
    <2>1. child' \in {None} \cup Children /\ env' \in {"clean", "dirty"}
          /\ capability' \in {"unverified", "pending", "verified"}
      BY <1>1 DEF STypeOK
    <2>2. (op = None \/ op.cmd \in DOMAIN active)'
      BY <1>0, <1>1, <1>3 DEF STypeOK
    <2>3. misses' = misses /\ used' = used /\ crashes' = crashes
      BY DEF watchVars
    <2>4. TypeOK'
      BY DEF IInv
    <2>5. QED
      BY <1>0, <1>1, <1>3, <1>5, <2>1, <2>2, <2>3, <2>4 DEF STypeOK
  <1>7. Covered'
    BY <1>0, <1>5 DEF SupIInv, Covered
  <1>8. /\ res.state = "failed" /\ (known # None => res.run = known.run /\ res.ctrl = known.ctrl)
        /\ known = None => res.run = Absent /\ res.ctrl = None
    BY DEF FailedResult
  <1>15. NeedsRecovery(marker) => known = marker \/ (known = None /\ child' = None)
    BY DEF SupIInv, Remembered, BootIsAlone, OneOperation, StopPoints, Stopping, Threads
  <1>16. Remembered'
    BY <1>0, <1>15 DEF Remembered
  <1>9. Reported(res, child', env', marker', memMarker', configLock', runId, controller)
    BY <1>0, <1>8, <1>15 DEF Reported, NeedsRecovery
  <1>10. t = "boot" => /\ state = "recovering" /\ ~configLock' /\ capability' = "unverified"
    BY <1>5 DEF SupIInv, BootIsAlone, StopPoints, Stopping
  <1>11. state = "stopped" => Clean /\ pc["boot"] = "done"
    BY DEF SupIInv, BootIsAlone, StateFacts, StopPoints, Stopping, Threads, OneOperation
  <1>12. state' = "stopped" => Clean'
    BY <1>0, <1>11, <1>5 DEF Clean, CleanIn
  <1>13. state' \in Serving => p \notin Stopping
    BY DEF AfterStop, Stopping
  <1> HIDE DEF res, p
  <1>14. QED
    BY <1>0, <1>2, <1>3, <1>4, <1>6, <1>7, <1>8, <1>9, <1>10, <1>12, <1>13, <1>16, StopStep DEF p

(* A step of stop() that does not return keeps the marker too. *)
LEMMA StopGoesOn ==
    ASSUME SupIInv, IInv', NEW t \in Threads, pc[t] \in StopPoints,
           NEW p \in Stopping \cup {"nothing"}, Goto(t, p),
           UNCHANGED <<runId, controller, commands, active, draining, exitFailure, exitFenced,
                       idleRecovery, diskVars, ret, op, bootMarker, configLock, watchVars, used, crashes>>,
           state' = state \/ state' \in {"recovering", "failed"}, t = "boot" => state' = "recovering",
           state = "failed" => state' = "failed",
           healthStop' = TRUE, memMarker' = marker,
           child' \in {child, None}, alive' \in {alive, FALSE}, alive' = TRUE => child' # None,
           env' \in {env, "clean"}, capability' \in {"unverified", capability},
           fate' \in [Runs -> {"unknown", "failed", "stopping"}],
           runFailed' \in BOOLEAN, observer' \in BOOLEAN,
           lifeLock' \in Threads \cup {"free"}, graceError' \in [Threads -> BOOLEAN],
           StopFacts(p, TRUE, marker, marker, child', env'),
           state' \in Serving => state' = state /\ child' = child /\ p \notin Stopping \ {"revoke"}
    PROVE  SupIInv'
  <1>0. marker' = marker /\ baseline' = baseline
    BY DEF diskVars
  <1>1. STypeOK /\ Shapes
    BY DEF SupIInv, Shapes
  <1>2. pc' = [pc EXCEPT ![t] = p] /\ p \in Points
    BY DEF Goto, Points
  <1>3. alive' \in BOOLEAN /\ healthStop' \in BOOLEAN
    BY <1>1, Zenon DEF STypeOK
  <1>4. STypeOK'
    <2>1. child' \in {None} \cup Children /\ env' \in {"clean", "dirty"}
          /\ capability' \in {"unverified", "pending", "verified"}
      BY <1>1 DEF STypeOK
    <2>2. (op = None \/ op.cmd \in DOMAIN active)'
      BY <1>1 DEF STypeOK
    <2>3. misses' = misses
      BY DEF watchVars
    <2>4. TypeOK'
      BY DEF IInv
    <2>5. QED
      BY <1>0, <1>1, <1>3, <2>1, <2>2, <2>3, <2>4 DEF STypeOK
  <1>5. Covered'
    BY <1>0, <1>3 DEF SupIInv, Covered
  <1>6. t = "boot" => ~configLock' /\ capability' = "unverified"
    BY DEF SupIInv, BootIsAlone, StopPoints, Stopping
  <1>7. state = "stopped" => Clean
    BY DEF SupIInv, BootIsAlone, StateFacts, StopPoints, Stopping, Threads, OneOperation
  <1>8. state' = "stopped" => Clean'
    BY <1>0, <1>7 DEF Clean, CleanIn
  <1>9. Remembered'
    BY <1>0 DEF Remembered
  <1>10. QED
    BY <1>0, <1>2, <1>4, <1>5, <1>6, <1>8, <1>9, StopStep

(* What stop() knows after it has read the marker. *)
LEMMA StopContext ==
    ASSUME SupIInv, NEW t \in Threads, pc[t] \in Stopping \cup {"nothing"}
    PROVE  /\ pc[t] \in StopPoints /\ healthStop = TRUE /\ memMarker = marker
           /\ StopFacts(pc[t], TRUE, marker, marker, child, env)
           /\ t = "boot" => state = "recovering" /\ ~configLock /\ capability = "unverified"
                            /\ child = None
           /\ pc[t] \in Stopping \ {"revoke"} => state \notin Serving
           /\ alive = TRUE => child # None
           /\ STypeOK /\ op \in Operations \cup {None}
  <1>1. StopFacts(pc[t], healthStop, memMarker, marker, child, env)
    BY DEF SupIInv, StopsAreSound, Threads
  <1>2. healthStop = TRUE /\ memMarker = marker
    BY <1>1 DEF StopFacts
  <1>3. t = "boot" => state = "recovering" /\ ~configLock /\ capability = "unverified" /\ child = None
    BY DEF SupIInv, BootIsAlone, Stopping
  <1>4. pc[t] \in Stopping \ {"revoke"} => state \notin Serving
    BY <1>3 DEF SupIInv, StateFacts, NoServingDuringStop, Serving, Stopping, Threads
  <1>5. QED
    BY <1>1, <1>2, <1>3, <1>4 DEF SupIInv, Shapes, Covered, StopPoints

LEMMA StopEnterInv ==
    ASSUME SupIInv, IInv', NEW t \in Threads, StopEnter(t) PROVE SupIInv'
  <1>0. UNCHANGED <<state, runId, controller, commands, active, draining, exitFailure, exitFenced,
                    idleRecovery, watchVars, diskVars, env, configLock, used, crashes, marker>>
        /\ UNCHANGED vars
    BY DEF StopEnter, vars, metaVars, cacheVars, exitVars, diskVars
  <1>1. STypeOK /\ Covered /\ WatchFacts /\ BootIsAlone /\ Remembered
    BY DEF SupIInv, Shapes
  <1>2. pc[t] = "stop" /\ pc[t] \in StopPoints /\ healthStop' = TRUE
    BY DEF StopEnter, StopPoints
  <1>3. fate' \in [Runs -> {"unknown", "failed", "stopping"}]
    BY <1>1 DEF StopEnter, AttendTo, STypeOK, Children
  <1>4. t = "boot" => pc["op"] = "idle"
    BY <1>2 DEF SupIInv, BootIsAlone, OneOperation
  <1>5. CASE /\ capability = "pending" \/ (child # None /\ ~child.ready)
             /\ Return(t, FailedResult(memMarker, "stop_failed"))
             /\ UNCHANGED <<child, alive, memMarker, capability>>
    <2>2. alive' \in {alive, FALSE} /\ (alive' = TRUE => child' # None)
      BY <1>1, <1>5 DEF Covered
    <2>3. QED
      BY <1>0, <1>2, <1>3, <1>5, <2>2, FailedStop
  <1>6. CASE /\ capability' = IF capability = "pending" THEN "unverified" ELSE capability
             /\ child' = IF child # None /\ ~child.ready THEN None ELSE child
             /\ alive' = (alive /\ child' # None)
             /\ \/ /\ marker # None /\ memMarker' = memMarker
                   /\ Return(t, FailedResult(memMarker, "stop_failed"))
                \/ /\ memMarker' = marker
                   /\ NeedsRecovery(marker) \/ child' # None
                   /\ Return(t, FailedResult(marker, "stop_failed"))
                \/ /\ memMarker' = marker
                   /\ Goto(t, IF NeedsRecovery(marker) \/ child' # None THEN "revoke" ELSE "nothing")
                   /\ lifeLock' = t
                   /\ runFailed' \in {runFailed, runFailed \/ capability = "pending"}
                   /\ UNCHANGED <<ret, graceError, observer, op, bootMarker>>
    <2>1. child' \in {child, None} /\ capability' \in {"unverified", capability}
      BY <1>6
    <2>2. alive' \in {alive, FALSE} /\ (alive' = TRUE => child' # None)
      BY <1>1, <1>6, Zenon DEF STypeOK
    <2>3. state \in Serving => child' = child
      BY <1>1, <1>6 DEF WatchFacts
    <2>4. CASE \E known \in {marker, memMarker} :
                 memMarker' = known /\ Return(t, FailedResult(known, "stop_failed"))
      BY <1>0, <1>2, <1>3, <2>1, <2>2, <2>3, <2>4, FailedStop
    <2>5. CASE /\ memMarker' = marker
               /\ Goto(t, IF NeedsRecovery(marker) \/ child' # None THEN "revoke" ELSE "nothing")
               /\ lifeLock' = t
               /\ runFailed' \in {runFailed, runFailed \/ capability = "pending"}
               /\ UNCHANGED <<ret, graceError, observer, op, bootMarker>>
      <3>1. child' # None => NeedsRecovery(marker)
        BY <1>1, <2>1 DEF Covered
      <3>2. PICK p \in {"revoke", "nothing"} :
              /\ Goto(t, p)
              /\ p = "revoke" => NeedsRecovery(marker)
              /\ p = "nothing" => ~NeedsRecovery(marker) /\ child' = None
        BY <2>5, <3>1
      <3>3. StopFacts(p, TRUE, marker, marker, child', env') /\ p \in Stopping \cup {"nothing"}
            /\ p \notin Stopping \ {"revoke"}
        BY <3>2 DEF StopFacts, Stopping
      <3>4. runFailed' \in BOOLEAN /\ observer' \in BOOLEAN /\ lifeLock' \in Threads \cup {"free"}
            /\ graceError' \in [Threads -> BOOLEAN]
        BY <1>1, <2>5 DEF STypeOK
      <3>5. t = "boot" => state' = "recovering"
        BY <1>0, <1>1, <1>2 DEF BootIsAlone
      <3>6. env' \in {env, "clean"} /\ UNCHANGED <<ret, op, bootMarker>> /\ memMarker' = marker
        BY <1>0, <1>6, <2>5
      <3>7. QED
        BY <1>0, <1>2, <1>3, <2>1, <2>2, <2>3, <3>2, <3>3, <3>4, <3>5, <3>6, StopGoesOn
    <2>6. QED
      BY <1>6, <2>4, <2>5
  <1>7. QED
    BY <1>5, <1>6 DEF StopEnter

(* A successful return of stop(): nothing of the run is left. *)
LEMMA SuccessfulStop ==
    ASSUME SupIInv, IInv', NEW t \in Threads, pc[t] \in Stopping \cup {"nothing"},
           NEW res \in StoppedResults, Return(t, res), res.reason = None,
           UNCHANGED <<vars, hostVars, child, capability, healthStop, watchVars, used, fate, crashes,
                       baseline>>,
           marker' \in Markers \cup {None}, memMarker' = marker', configLock' = FALSE,
           child = None, env = "clean", ~NeedsRecovery(marker'),
           state \in Serving => marker' = marker
    PROVE  SupIInv'
  <1> DEFINE p == AfterStop(t, res)
  <1>0. UNCHANGED <<state, runId, controller, commands, active, draining, exitFailure, exitFenced,
                    idleRecovery, env, alive>>
    BY DEF vars, metaVars, cacheVars, exitVars, hostVars
  <1>1. STypeOK /\ Shapes /\ Covered
    BY DEF SupIInv, Shapes
  <1>2. /\ pc[t] \in StopPoints /\ healthStop = TRUE
        /\ t = "boot" => state = "recovering" /\ capability = "unverified"
    BY StopContext
  <1>3. /\ ret' \in [Threads -> {None} \cup Results] /\ ret'[t] = res
        /\ pc' = [pc EXCEPT ![t] = p]
        /\ lifeLock' \in Threads \cup {"free"} /\ graceError' \in [Threads -> BOOLEAN]
        /\ runFailed' \in BOOLEAN /\ observer' \in BOOLEAN
        /\ UNCHANGED <<op, bootMarker>>
    BY <1>1, ReturnFacts
  <1>4. p \in Points /\ p \notin Stopping
    BY DEF AfterStop, Points, Stopping
  <1>5. configLock' \in BOOLEAN
    BY Zenon
  <1>6. STypeOK'
    <2>1. (op = None \/ op.cmd \in DOMAIN active)'
      BY <1>0, <1>1, <1>3 DEF STypeOK
    <2>2. misses' = misses
      BY DEF watchVars
    <2>3. TypeOK'
      BY DEF IInv
    <2>4. QED
      BY <1>0, <1>1, <1>3, <1>5, <2>1, <2>2, <2>3 DEF STypeOK
  <1>7. Covered' /\ Remembered' /\ CleanIn(child', env', marker', configLock')
    BY <1>0, <1>1 DEF Covered, Remembered, CleanIn
  <1>8. res.state = "stopped" /\ res.run = None /\ res.release
        /\ res \notin FailedResults \cup StartedResults
    BY ResultKinds
  <1>9. Reported(res, child', env', marker', memMarker', configLock', runId, controller)
    BY <1>7, <1>8 DEF Reported
  <1>10. Clean'
    BY <1>7 DEF Clean
  <1> HIDE DEF p
  <1>11. QED
    BY <1>0, <1>2, <1>3, <1>4, <1>6, <1>7, <1>8, <1>9, <1>10, StopStep DEF p

LEMMA StopNothingInv ==
    ASSUME SupIInv, IInv', NEW t \in Threads, StopNothing(t) PROVE SupIInv'
  <1>1. pc[t] = "nothing"
    BY DEF StopNothing
  <1>2. /\ pc[t] \in StopPoints /\ healthStop = TRUE /\ memMarker = marker /\ STypeOK
        /\ StopFacts(pc[t], TRUE, marker, marker, child, env) /\ (alive = TRUE => child # None)
    BY <1>1, StopContext
  <1>3. child = None /\ ~NeedsRecovery(marker)
    BY <1>1, <1>2 DEF StopFacts
  <1>4. UNCHANGED <<vars, diskVars, hostVars, child, memMarker, capability, healthStop, watchVars,
                    used, fate, crashes>>
    BY DEF StopNothing
  <1>5. CASE Return(t, StoppedResult(FALSE)) /\ observer' = FALSE /\ configLock' = FALSE
    <2>1. FALSE \in BOOLEAN
      BY Zenon
    <2>2. StoppedResult(FALSE) \in StoppedResults /\ StoppedResult(FALSE).reason = None
      BY <2>1, ResultTypes DEF StoppedResult
    <2>3. env = "clean"
      BY <1>2, <1>3 DEF SupIInv, Covered, STypeOK
    <2>4. marker' = marker /\ marker \in Markers \cup {None} /\ baseline' = baseline
      BY <1>2, <1>4 DEF diskVars, STypeOK
    <2>5. QED
      BY <1>1, <1>2, <1>3, <1>4, <1>5, <2>2, <2>3, <2>4, SuccessfulStop
  <1>6. CASE /\ observer /\ UNCHANGED configLock
             /\ Return(t, FailedResult(memMarker, "stop_failed"))
    BY <1>2, <1>4, <1>6, FailedStop DEF STypeOK, hostVars
  <1>7. QED
    BY <1>5, <1>6 DEF StopNothing

LEMMA StopRevokeInv ==
    ASSUME SupIInv, IInv', NEW t \in Threads, StopRevoke(t) PROVE SupIInv'
  <1>1. pc[t] = "revoke"
    BY DEF StopRevoke
  <1>2. /\ pc[t] \in StopPoints /\ healthStop = TRUE /\ memMarker = marker /\ STypeOK
        /\ StopFacts(pc[t], TRUE, marker, marker, child, env) /\ (alive = TRUE => child # None)
        /\ t = "boot" => state = "recovering"
    BY <1>1, StopContext DEF Stopping
  <1>3. UNCHANGED <<diskVars, hostVars, memVars, lifeLock, ret, graceError, op, bootMarker, watchVars,
                    used, fate, crashes>>
    BY DEF StopRevoke
  <1>4. UNCHANGED <<env, alive, child, memMarker, configLock, capability, observer, healthStop,
                    runFailed>>
    BY <1>3 DEF hostVars, memVars
  <1>5. /\ state' \in {"recovering", "failed"} /\ (t = "boot" => state' = "recovering")
        /\ state = "failed" => state' = "failed"
        /\ UNCHANGED <<runId, controller, commands, active, draining, exitFailure, exitFenced,
                       idleRecovery>>
    BY <1>2 DEF StopRevoke, UpdateHealthState, vars, metaVars, cacheVars, exitVars
  <1>6. PICK p \in {"settle", "grace"} : Goto(t, p) /\ (p = "settle" <=> child = None)
    BY DEF StopRevoke
  <1>7. StopFacts(p, TRUE, marker, marker, child', env') /\ p \in Stopping
    BY <1>1, <1>2, <1>4, <1>6 DEF StopFacts, Stopping
  <1>8. state' \notin Serving
    BY <1>5 DEF Serving
  <1>9. QED
    BY <1>2, <1>3, <1>4, <1>5, <1>6, <1>7, <1>8, StopGoesOn DEF STypeOK

LEMMA StopGraceInv ==
    ASSUME SupIInv, IInv', NEW t \in Threads, StopGrace(t) PROVE SupIInv'
  <1>1. pc[t] = "grace"
    BY DEF StopGrace
  <1>2. /\ pc[t] \in StopPoints /\ healthStop = TRUE /\ memMarker = marker /\ STypeOK
        /\ StopFacts(pc[t], TRUE, marker, marker, child, env) /\ (alive = TRUE => child # None)
        /\ (t = "boot" => child = None) /\ state \notin Serving
    BY <1>1, StopContext DEF Stopping
  <1>3. UNCHANGED <<diskVars, env, memVars, lifeLock, ret, op, bootMarker, watchVars, used, fate,
                    crashes>>
    BY DEF StopGrace
  <1>4. UNCHANGED <<child, memMarker, configLock, capability, observer, healthStop, runFailed>>
    BY <1>3 DEF memVars
  <1>5. /\ state' = state \/ state' = "failed"
        /\ UNCHANGED <<runId, controller, commands, active, draining, exitFailure, exitFenced,
                       idleRecovery>>
    BY <1>2 DEF StopGrace, UpdateHealthState, vars, metaVars, cacheVars, exitVars
  <1>6. Goto(t, "terminate") /\ alive' \in {alive, FALSE}
    BY DEF StopGrace
  <1>7. graceError' \in [Threads -> BOOLEAN]
    BY <1>2 DEF StopGrace, STypeOK
  <1>8. child # None /\ t # "boot" /\ NeedsRecovery(marker)
    BY <1>1, <1>2 DEF StopFacts, Stopping
  <1>9. StopFacts("terminate", TRUE, marker, marker, child', env') /\ "terminate" \in Stopping
    BY <1>4, <1>8 DEF StopFacts, Stopping
  <1>10. state' \notin Serving
    BY <1>2, <1>5 DEF Serving
  <1>11. QED
    BY <1>2, <1>3, <1>4, <1>5, <1>6, <1>7, <1>8, <1>9, <1>10, StopGoesOn DEF STypeOK

LEMMA StopTerminateInv ==
    ASSUME SupIInv, IInv', NEW t \in Threads, StopTerminate(t) PROVE SupIInv'
  <1>1. pc[t] = "terminate"
    BY DEF StopTerminate
  <1>2. /\ pc[t] \in StopPoints /\ healthStop = TRUE /\ memMarker = marker /\ STypeOK
        /\ StopFacts(pc[t], TRUE, marker, marker, child, env) /\ (alive = TRUE => child # None)
        /\ (t = "boot" => state = "recovering") /\ state \notin Serving
    BY <1>1, StopContext DEF Stopping
  <1>3. UNCHANGED <<vars, diskVars, env, memMarker, configLock, capability, healthStop, watchVars,
                    used, fate, crashes>>
    BY DEF StopTerminate
  <1>4. UNCHANGED <<state, runId, controller, commands, active, draining, exitFailure, exitFenced,
                    idleRecovery>>
    BY <1>3 DEF vars, metaVars, cacheVars, exitVars
  <1>5. CASE /\ alive' = FALSE /\ child' = None
             /\ Goto(t, "settle") /\ lifeLock' = "free"
             /\ UNCHANGED <<ret, graceError, runFailed, observer, op, bootMarker>>
    <2>1. StopFacts("settle", TRUE, marker, marker, child', env') /\ "settle" \in Stopping
      BY <1>1, <1>2, <1>5 DEF StopFacts, Stopping
    <2>2. QED
      BY <1>2, <1>3, <1>4, <1>5, <2>1, StopGoesOn DEF STypeOK
  <1>6. CASE /\ alive' \in {alive, FALSE} /\ child' = child
             /\ Return(t, FailedResult(memMarker, "stop_failed"))
    BY <1>2, <1>3, <1>6, FailedStop DEF STypeOK
  <1>7. QED
    BY <1>5, <1>6 DEF StopTerminate

LEMMA StopSettleInv ==
    ASSUME SupIInv, IInv', NEW t \in Threads, StopSettle(t) PROVE SupIInv'
  <1>1. pc[t] = "settle"
    BY DEF StopSettle
  <1>2. /\ pc[t] \in StopPoints /\ healthStop = TRUE /\ memMarker = marker /\ STypeOK
        /\ StopFacts(pc[t], TRUE, marker, marker, child, env) /\ (alive = TRUE => child # None)
        /\ (t = "boot" => state = "recovering") /\ state \notin Serving
    BY <1>1, StopContext DEF Stopping
  <1>3. UNCHANGED <<vars, diskVars, alive, child, memMarker, configLock, capability, healthStop,
                    watchVars, used, fate, crashes>>
    BY DEF StopSettle
  <1>4. UNCHANGED <<state, runId, controller, commands, active, draining, exitFailure, exitFenced,
                    idleRecovery>>
    BY <1>3 DEF vars, metaVars, cacheVars, exitVars
  <1>5. CASE /\ env' = "clean" /\ observer' = FALSE
             /\ \E incomplete \in BOOLEAN : runFailed' = (runFailed \/ incomplete)
             /\ Goto(t, "fence") /\ lifeLock' = t
             /\ UNCHANGED <<ret, graceError, op, bootMarker>>
    <2>1. StopFacts("fence", TRUE, marker, marker, child', env') /\ "fence" \in Stopping
      BY <1>1, <1>2, <1>3, <1>5 DEF StopFacts, Stopping
    <2>2. runFailed' \in BOOLEAN /\ observer' \in BOOLEAN
      BY <1>5, Zenon
    <2>3. QED
      BY <1>2, <1>3, <1>4, <1>5, <2>1, <2>2, StopGoesOn DEF STypeOK
  <1>6. CASE /\ env' \in {env, "clean"}
             /\ Return(t, FailedResult(memMarker, "stop_failed"))
    BY <1>2, <1>3, <1>6, FailedStop DEF STypeOK
  <1>7. QED
    BY <1>5, <1>6 DEF StopSettle

LEMMA StopFenceInv ==
    ASSUME SupIInv, IInv', NEW t \in Threads, StopFence(t) PROVE SupIInv'
  <1>1. pc[t] = "fence"
    BY DEF StopFence
  <1>2. /\ pc[t] \in StopPoints /\ healthStop = TRUE /\ memMarker = marker /\ STypeOK
        /\ StopFacts(pc[t], TRUE, marker, marker, child, env) /\ (alive = TRUE => child # None)
        /\ (t = "boot" => state = "recovering") /\ state \notin Serving
    BY <1>1, StopContext DEF Stopping
  <1>3. UNCHANGED <<vars, diskVars, hostVars, child, memMarker, configLock, capability,
                    healthStop, watchVars, used, fate, crashes>>
    BY DEF StopFence
  <1>4. UNCHANGED <<state, runId, controller, commands, active, draining, exitFailure, exitFenced,
                    idleRecovery, env, alive>>
    BY <1>3 DEF vars, metaVars, cacheVars, exitVars, hostVars
  <1>5. ~OperationFenced(t)
    BY DEF OperationFenced, SupIInv, OneOperation
  <1>6. /\ Goto(t, "register") /\ lifeLock' = "free"
        /\ UNCHANGED <<ret, graceError, runFailed, observer, op, bootMarker>>
    BY <1>5 DEF StopFence
  <1>7. StopFacts("register", TRUE, marker, marker, child', env') /\ "register" \in Stopping
    BY <1>1, <1>2, <1>3, <1>4 DEF StopFacts, Stopping
  <1>8. QED
    BY <1>2, <1>3, <1>4, <1>6, <1>7, StopGoesOn DEF STypeOK

LEMMA StopRegisterInv ==
    ASSUME SupIInv, IInv', NEW t \in Threads, StopRegister(t) PROVE SupIInv'
  <1>1. pc[t] = "register"
    BY DEF StopRegister
  <1>2. /\ pc[t] \in StopPoints /\ healthStop = TRUE /\ memMarker = marker /\ STypeOK
        /\ StopFacts(pc[t], TRUE, marker, marker, child, env) /\ (alive = TRUE => child # None)
        /\ (t = "boot" => state = "recovering") /\ state \notin Serving
    BY <1>1, StopContext DEF Stopping
  <1>3. UNCHANGED <<vars, diskVars, hostVars, child, memMarker, configLock, capability, healthStop,
                    watchVars, used, fate, crashes>>
    BY DEF StopRegister
  <1>4. UNCHANGED <<state, runId, controller, commands, active, draining, exitFailure, exitFenced,
                    idleRecovery, env, alive>>
    BY <1>3 DEF vars, metaVars, cacheVars, exitVars, hostVars
  <1>5. CASE /\ Goto(t, "clear") /\ lifeLock' = t
             /\ UNCHANGED <<ret, graceError, runFailed, observer, op, bootMarker>>
    <2>1. StopFacts("clear", TRUE, marker, marker, child', env') /\ "clear" \in Stopping
      BY <1>1, <1>2, <1>3, <1>4 DEF StopFacts, Stopping
    <2>2. QED
      BY <1>2, <1>3, <1>4, <1>5, <2>1, StopGoesOn DEF STypeOK
  <1>6. CASE Return(t, FailedResult(memMarker, "stop_failed"))
    BY <1>2, <1>3, <1>4, <1>6, FailedStop DEF STypeOK
  <1>7. QED
    BY <1>5, <1>6 DEF StopRegister

LEMMA StopClearInv ==
    ASSUME SupIInv, IInv', NEW t \in Threads, StopClear(t) PROVE SupIInv'
  <1>1. pc[t] = "clear"
    BY DEF StopClear
  <1>2. /\ pc[t] \in StopPoints /\ healthStop = TRUE /\ memMarker = marker /\ STypeOK
        /\ StopFacts(pc[t], TRUE, marker, marker, child, env) /\ (alive = TRUE => child # None)
        /\ state \notin Serving
    BY <1>1, StopContext DEF Stopping
  <1>3. UNCHANGED <<vars, baseline, hostVars, child, capability, healthStop, watchVars, used,
                    fate, crashes>>
    BY DEF StopClear
  <1>4. child = None /\ env = "clean" /\ NeedsRecovery(marker)
    BY <1>1, <1>2 DEF StopFacts, Stopping
  <1>5. CASE /\ configLock' = FALSE
             /\ marker' = [marker EXCEPT !.needs = FALSE]
             /\ memMarker' = marker'
             /\ Return(t, IF graceError[t] THEN [StoppedResult(TRUE) EXCEPT !.outcome = "failed"]
                          ELSE StoppedResult(TRUE))
    <2>1. TRUE \in BOOLEAN /\ FALSE \in BOOLEAN
      BY Zenon
    <2>2. PICK res \in StoppedResults : Return(t, res) /\ res.reason = None
      <3>1. StoppedResult(TRUE) \in StoppedResults /\ StoppedResult(TRUE).reason = None
        BY <2>1, ResultTypes DEF StoppedResult
      <3>2. /\ [StoppedResult(TRUE) EXCEPT !.outcome = "failed"] \in StoppedResults
            /\ [StoppedResult(TRUE) EXCEPT !.outcome = "failed"].reason = None
        BY <2>1, ResultTypes DEF StoppedResult
      <3>3. QED
        BY <1>5, <3>1, <3>2
    <2>3. marker \in Markers
      BY <1>2, <1>4 DEF STypeOK, NeedsRecovery
    <2>4. marker' \in Markers /\ ~NeedsRecovery(marker')
      BY <1>2, <1>5, <2>1, <2>3 DEF Markers, NeedsRecovery
    <2>5. pc[t] \in Stopping
      BY <1>1 DEF Stopping
    <2>6. QED
      BY <1>2, <1>3, <1>4, <1>5, <2>2, <2>4, <2>5, SuccessfulStop
  <1>6. CASE /\ configLock' \in {configLock, FALSE}
             /\ UNCHANGED <<marker, memMarker>>
             /\ Return(t, FailedResult(memMarker, "stop_failed"))
    BY <1>2, <1>3, <1>6, FailedStop DEF STypeOK, hostVars, diskVars
  <1>7. QED
    BY <1>5, <1>6 DEF StopClear

----------------------------------------------------------------------------
(* The steps of the operation thread that are not steps of stop() *)

LEMMA OpContext ==
    ASSUME SupIInv, pc["op"] # "idle"
    PROVE  op # None /\ op \in Operations /\ pc["boot"] = "done" /\ op.cmd \in DOMAIN active
  BY DEF SupIInv, OneOperation, Shapes, BootIsAlone

LEMMA OpStep ==
    ASSUME SupIInv, IInv', STypeOK', NEW p \in Points \ {"idle"}, pc["op"] # "idle",
           pc' = [pc EXCEPT !["op"] = p],
           op' \in Operations, op'.cmd = op.cmd, op'.by = op.by, op'.prog = op.prog, op'.ctrl = op.ctrl,
           UNCHANGED <<commands, active, draining, exitFailure, exitFenced, idleRecovery, seen, readAt>>,
           spc' \in [Submitters -> WatchPoints], \A s \in Submitters : spc'[s] \in {spc[s], "probe"},
           op'.then # "return" => op.prog \in {"start", "restart"},
           p \in Starting \cup {"guard", "blame"} => op.prog \in {"start", "restart"},
           p \in Stopping \cup {"stop", "nothing"} => op.prog \in {"start", "restart", "stop"},
           p = "blame" => op'.then = "blame"
    PROVE  /\ Shapes' /\ OneOperation' /\ BootIsAlone'
           /\ pc'["op"] = p /\ pc["boot"] = "done" /\ pc'["boot"] = "done"
           /\ p \notin Stopping \cup {"nothing"} => StopsAreSound'
           /\ p \notin {"finish", "blame"} => ReportFacts'
  <1>1. /\ op # None /\ op' # None /\ pc["boot"] = "done"
    BY OpContext, SupervisorConstants
  <1>2. /\ pc'["op"] = p /\ pc'["boot"] = "done" /\ pc' \in [Threads -> Points]
    BY <1>1 DEF SupIInv, Shapes, Threads
  <1>3. Shapes'
    <2>1. \A r \in Runs : spc'[r] = "publish" => seen'[r] \in Observations
      BY DEF SupIInv, Shapes, Submitters
    <2>2. \A s \in Submitters : spc'[s] = "submit" => readAt'[s] \in Readings
      BY DEF SupIInv, Shapes
    <2>3. seen' \in [Runs -> Observations \cup {None}] /\ readAt' \in [Submitters -> Readings \cup {None}]
      BY DEF SupIInv, Shapes
    <2>4. QED
      BY <1>2, <2>1, <2>2, <2>3 DEF Shapes
  <1>4. OneOperation'
    <2>1. ~draining' /\ exitFailure' = None /\ exitFenced' = {}
      BY DEF SupIInv, OneOperation
    <2>2. DOMAIN active' = {op'.cmd} /\ commands'[op'.cmd].kind = commands[op.cmd].kind
      BY <1>1 DEF SupIInv, OneOperation
    <2>3. /\ op'.by = "client" => op'.ctrl \in Clients /\ commands'[op'.cmd].kind = KindOf(op'.prog)
          /\ op'.by # "client" => op'.prog = "stop" /\ commands'[op'.cmd].kind = "internal"
      BY <1>1, <2>2 DEF SupIInv, OneOperation
    <2>4. QED
      BY <1>1, <1>2, <2>1, <2>2, <2>3 DEF OneOperation
  <1>5. BootIsAlone'
    BY <1>2 DEF BootIsAlone
  <1>6. p \notin Stopping \cup {"nothing"} => StopsAreSound'
    BY <1>2 DEF StopsAreSound, StopFacts, Stopping
  <1>7. p \notin {"finish", "blame"} => ReportFacts'
    BY <1>2 DEF ReportFacts
  <1>8. QED
    BY <1>1, <1>2, <1>3, <1>4, <1>5, <1>6, <1>7

LEMMA StartGuardInv == ASSUME SupIInv, IInv', StartGuard PROVE SupIInv'
  <1>0. UNCHANGED <<vars, diskVars, hostVars, child, memMarker, healthStop, runFailed, ret,
                    graceError, op, bootMarker, watchVars, used, fate, crashes>>
    BY DEF StartGuard
  <1>1. UNCHANGED <<state, runId, controller, commands, active, draining, exitFailure, exitFenced,
                    idleRecovery, marker, baseline, env, alive, spc, seen, misses, readAt>>
    BY <1>0 DEF vars, metaVars, cacheVars, exitVars, diskVars, hostVars, watchVars
  <1>2. pc["op"] = "guard" /\ STypeOK /\ op \in Operations /\ pc["boot"] = "done"
        /\ op.prog \in {"start", "restart"} /\ (op.then # "return" => op.prog \in {"start", "restart"})
    BY OpContext DEF StartGuard, SupIInv, Shapes, OneOperation
  <1>4. PICK p \in {"prepare", "raise"} :
          /\ pc' = [pc EXCEPT !["op"] = p]
          /\ p = "prepare" => child = None /\ ~NeedsRecovery(marker) /\ capability' = "verified"
          /\ p = "raise" => configLock' = configLock
    BY DEF StartGuard, Goto
  <1>5. STypeOK'
    <2>1. configLock' \in BOOLEAN /\ observer' \in BOOLEAN
      BY <1>2, Zenon DEF StartGuard, STypeOK
    <2>2. capability' \in {"unverified", "pending", "verified"} /\ lifeLock' \in Threads \cup {"free"}
      BY <1>2 DEF StartGuard, STypeOK, Threads
    <2>3. TypeOK' /\ (op = None \/ op.cmd \in DOMAIN active)'
      BY <1>0, <1>1, <1>2 DEF IInv, STypeOK
    <2>4. QED
      BY <1>0, <1>1, <1>2, <2>1, <2>2, <2>3 DEF STypeOK
  <1>6. p \in Points \ {"idle"} /\ p \notin Stopping \cup {"stop", "nothing", "blame", "finish"}
    BY DEF Points, Starting, Stopping
  <1>7. /\ Shapes' /\ OneOperation' /\ BootIsAlone' /\ StopsAreSound' /\ ReportFacts'
        /\ pc'["op"] = p /\ pc'["boot"] = "done"
    <2>1. spc' \in [Submitters -> WatchPoints] /\ \A s \in Submitters : spc'[s] \in {spc[s], "probe"}
      BY <1>1 DEF SupIInv, Shapes
    <2>2. QED
      BY <1>0, <1>1, <1>2, <1>4, <1>5, <1>6, <2>1, OpStep
  <1>8. Covered' /\ Remembered' /\ WatchFacts'
    BY <1>0, <1>1, <1>2 DEF SupIInv, Covered, Remembered, WatchFacts, NoWatch
  <1>9. StartFacts'
    <2>1. p = "prepare" => healthStop \/ NoWatch
      BY <1>4 DEF SupIInv, WatchFacts
    <2>2. NoWatch => NoWatch'
      BY <1>1 DEF NoWatch
    <2>3. QED
      BY <1>0, <1>1, <1>4, <1>7, <2>1, <2>2 DEF StartFacts, Starting
  <1>10. StateFacts'
    <2>1. ServingIsReal' /\ NoServingDuringStop'
      BY <1>0, <1>1, <1>7 DEF SupIInv, StateFacts, ServingIsReal, NoServingDuringStop
    <2>2. NeedsRecovery(marker') => Answered' \/ Unknown'
      BY <1>0, <1>1, <1>2, <1>6, <1>7 DEF SupIInv, StateFacts, Answered, Unknown, StopPoints, Stopping
    <2>3. p = "raise" /\ state' = "stopped" => Clean' /\ runId' = None /\ controller' = None
      BY <1>0, <1>1, <1>2, <1>4 DEF SupIInv, StateFacts, Clean, CleanIn
    <2>4. state' # "starting"
      BY <1>1, <1>2 DEF SupIInv, StateFacts
    <2>5. QED
      BY <1>4, <1>7, <2>1, <2>2, <2>3, <2>4 DEF StateFacts
  <1>11. QED
    BY <1>7, <1>8, <1>9, <1>10 DEF SupIInv

LEMMA StartPrepareInv == ASSUME SupIInv, IInv', StartPrepare PROVE SupIInv'
  <1>0. UNCHANGED <<marker, hostVars, child, capability, healthStop, ret, graceError, bootMarker,
                    watchVars, fate, crashes>>
    BY DEF StartPrepare
  <1>1. UNCHANGED <<runId, controller, commands, active, draining, exitFailure, exitFenced,
                    idleRecovery, env, alive, spc, seen, misses, readAt>>
    BY <1>0 DEF StartPrepare, UpdateHealthState, vars, metaVars, cacheVars, exitVars, hostVars, watchVars
  <1>2. pc["op"] = "prepare" /\ STypeOK /\ op \in Operations /\ pc["boot"] = "done" /\ op # None
        /\ op.prog \in {"start", "restart"} /\ (op.then # "return" => op.prog \in {"start", "restart"})
        /\ op.ctrl \in Clients
    BY OpContext DEF StartPrepare, SupIInv, Shapes, OneOperation, Starting
  <1>3. /\ child = None /\ ~NeedsRecovery(marker) /\ capability = "verified"
        /\ healthStop \/ NoWatch
    BY <1>2 DEF SupIInv, StartFacts, Starting
  <1>4. spc' \in [Submitters -> WatchPoints] /\ \A s \in Submitters : spc'[s] \in {spc[s], "probe"}
    BY <1>1 DEF SupIInv, Shapes
  <1>5. Covered' /\ WatchFacts' /\ (NoWatch => NoWatch')
    BY <1>0, <1>1, <1>3 DEF SupIInv, Covered, WatchFacts, NoWatch
  <1>6. state \notin Serving \cup {"starting"}
    BY <1>2, <1>3 DEF SupIInv, StateFacts, ServingIsReal, Serving
  <1>7. CASE /\ baseline' = TRUE
             /\ \E r \in Runs \ used :
                  /\ used' = used \cup {r} /\ op' = [op EXCEPT !.run = r]
                  /\ memMarker' = [run |-> r, ctrl |-> op.ctrl, needs |-> TRUE]
             /\ observer' = TRUE /\ runFailed' = FALSE
             /\ Goto("op", "mark")
             /\ UNCHANGED <<vars, configLock, lifeLock>>
    <2>1. PICK r \in Runs \ used :
                  /\ used' = used \cup {r} /\ op' = [op EXCEPT !.run = r]
                  /\ memMarker' = [run |-> r, ctrl |-> op.ctrl, needs |-> TRUE]
      BY <1>7
    <2>2. /\ op' \in Operations /\ op'.cmd = op.cmd /\ op'.by = op.by /\ op'.prog = op.prog
          /\ op'.ctrl = op.ctrl /\ op'.then = op.then /\ op'.run = r
      BY <1>2, <2>1 DEF Operations
    <2>3. STypeOK'
      <3>1. baseline' \in BOOLEAN /\ observer' \in BOOLEAN /\ runFailed' \in BOOLEAN /\ TRUE \in BOOLEAN
        BY <1>7, Zenon
      <3>2. memMarker' \in Markers
        BY <1>2, <2>1, <3>1 DEF Markers
      <3>3. TypeOK' /\ (op = None \/ op.cmd \in DOMAIN active)' /\ used' \subseteq Runs
        BY <1>1, <1>2, <2>1, <2>2 DEF IInv, STypeOK
      <3>4. QED
        BY <1>0, <1>1, <1>2, <1>7, <3>1, <3>2, <3>3 DEF STypeOK
    <2>4. /\ Shapes' /\ OneOperation' /\ BootIsAlone' /\ StopsAreSound' /\ ReportFacts'
          /\ pc'["op"] = "mark" /\ pc'["boot"] = "done"
      <3>1. pc' = [pc EXCEPT !["op"] = "mark"] /\ "mark" \in Points \ {"idle"}
            /\ "mark" \notin Stopping \cup {"stop", "nothing", "blame", "finish"}
        BY <1>7 DEF Goto, Points, Starting, Stopping
      <3>2. QED
        BY <1>0, <1>1, <1>2, <1>4, <2>2, <2>3, <3>1, OpStep
    <2>5. state' = state
      BY <1>7 DEF vars, metaVars
    <2>6. Remembered' /\ StartFacts'
      BY <1>0, <1>3, <1>5, <2>1, <2>2, <2>4 DEF Remembered, StartFacts, Starting
    <2>7. StateFacts'
      BY <1>0, <1>3, <1>6, <2>4, <2>5 DEF StateFacts, ServingIsReal, NoServingDuringStop, Serving
    <2>8. QED
      BY <1>5, <2>4, <2>6, <2>7 DEF SupIInv
  <1>8. CASE /\ UpdateHealthState("failed", "start_failed")
             /\ configLock' = FALSE /\ lifeLock' = "free" /\ Goto("op", "raise")
             /\ \E begun \in BOOLEAN :
                  runFailed' = (runFailed /\ ~begun) /\ observer' \in {FALSE, begun}
             /\ UNCHANGED <<baseline, used, op, memMarker>>
    <2>1. STypeOK'
      <3>1. configLock' \in BOOLEAN /\ observer' \in BOOLEAN /\ runFailed' \in BOOLEAN
        BY <1>8, Zenon
      <3>2. TypeOK' /\ (op = None \/ op.cmd \in DOMAIN active)'
        BY <1>1, <1>2, <1>8 DEF IInv, STypeOK
      <3>3. QED
        BY <1>0, <1>1, <1>2, <1>8, <3>1, <3>2 DEF STypeOK
    <2>2. /\ Shapes' /\ OneOperation' /\ BootIsAlone' /\ StopsAreSound' /\ ReportFacts'
          /\ pc'["op"] = "raise" /\ pc'["boot"] = "done"
      <3>1. pc' = [pc EXCEPT !["op"] = "raise"] /\ "raise" \in Points \ {"idle"}
            /\ "raise" \notin Starting \cup Stopping \cup {"guard", "stop", "nothing", "blame", "finish"}
        BY <1>8 DEF Goto, Points, Starting, Stopping
      <3>2. QED
        BY <1>0, <1>1, <1>2, <1>4, <1>8, <2>1, <3>1, OpStep
    <2>3. state' = "failed"
      BY <1>8 DEF UpdateHealthState
    <2>4. Remembered' /\ StartFacts'
      BY <1>0, <1>3, <1>8, <2>2 DEF Remembered, StartFacts, Starting
    <2>5. StateFacts'
      BY <1>0, <1>3, <2>2, <2>3 DEF StateFacts, ServingIsReal, NoServingDuringStop, Serving
    <2>6. QED
      BY <1>5, <2>2, <2>4, <2>5 DEF SupIInv
  <1>9. QED
    BY <1>7, <1>8 DEF StartPrepare

(* A start that fails after the marker was to be written goes on with an inline stop. *)
LEMMA StartFailsInv ==
    ASSUME SupIInv, IInv', pc["op"] \in {"mark", "spawn", "launch"}, StartFails,
           UNCHANGED <<diskVars, memMarker, configLock, capability, observer, healthStop, runFailed,
                       lifeLock, ret, graceError, bootMarker, watchVars, used, fate, crashes>>,
           alive' \in BOOLEAN, env' \in {env, "dirty"}, child' \in Children \cup {None},
           Covered', pc["op"] = "mark" => child' = None
    PROVE  SupIInv'
  <1>1. UNCHANGED <<runId, controller, commands, active, draining, exitFailure, exitFenced,
                    idleRecovery, marker, baseline, spc, seen, misses, readAt>>
        /\ state' = "failed"
    BY DEF StartFails, UpdateHealthState, cacheVars, exitVars, diskVars, watchVars
  <1>2. STypeOK /\ op \in Operations /\ pc["boot"] = "done" /\ op # None
        /\ op.prog \in {"start", "restart"} /\ pc["op"] # "idle"
    BY OpContext DEF SupIInv, Shapes, OneOperation, Starting
  <1>3. /\ op' \in Operations /\ op'.cmd = op.cmd /\ op'.by = op.by /\ op'.prog = op.prog
        /\ op'.ctrl = op.ctrl /\ op'.then = "blame"
    BY <1>2 DEF StartFails, Operations
  <1>4. STypeOK'
    <2>1. TypeOK' /\ (op = None \/ op.cmd \in DOMAIN active)' /\ env' \in {"clean", "dirty"}
      BY <1>1, <1>2, <1>3 DEF IInv, STypeOK
    <2>2. QED
      BY <1>1, <1>2, <2>1 DEF STypeOK
  <1>5. /\ Shapes' /\ OneOperation' /\ BootIsAlone' /\ StopsAreSound' /\ ReportFacts'
        /\ pc'["op"] = "stop" /\ pc'["boot"] = "done"
    <2>1. spc' \in [Submitters -> WatchPoints] /\ \A s \in Submitters : spc'[s] \in {spc[s], "probe"}
      BY <1>1 DEF SupIInv, Shapes
    <2>2. pc' = [pc EXCEPT !["op"] = "stop"] /\ "stop" \in Points \ {"idle"}
          /\ "stop" \notin Stopping \cup {"nothing", "finish", "blame"}
      BY DEF StartFails, Goto, Points, Starting, Stopping
    <2>3. QED
      BY <1>1, <1>2, <1>3, <1>4, <2>1, <2>2, OpStep
  <1>6. /\ pc["op"] \in {"spawn", "launch"} => marker = memMarker
        /\ pc["op"] = "mark" => ~NeedsRecovery(marker) /\ capability = "verified"
        /\ healthStop \/ NoWatch
    BY DEF SupIInv, StartFacts, Starting
  <1>7. Remembered'
    BY <1>1, <1>3, <1>5, <1>6 DEF Remembered
  <1>8. StartFacts' /\ WatchFacts'
    <2>1. healthStop' \/ NoWatch'
      BY <1>1, <1>6 DEF NoWatch
    <2>2. QED
      BY <1>1, <1>5, <2>1 DEF StartFacts, Starting, WatchFacts, Serving
  <1>9. StateFacts'
    <2>1. NeedsRecovery(marker') => Answered'
      BY <1>1, <1>2, <1>6 DEF SupIInv, StateFacts, Answered, Unknown, Stopping, NeedsRecovery
    <2>2. QED
      BY <1>1, <1>5, <2>1 DEF StateFacts, ServingIsReal, NoServingDuringStop, Serving
  <1>10. QED
    BY <1>5, <1>7, <1>8, <1>9 DEF SupIInv

LEMMA StartMarkInv == ASSUME SupIInv, IInv', StartMark PROVE SupIInv'
  <1>0. UNCHANGED <<baseline, hostVars, memVars, lifeLock, ret, graceError, bootMarker, watchVars,
                    used, fate, crashes>>
    BY DEF StartMark
  <1>1. UNCHANGED <<env, alive, spc, seen, misses, readAt, child, memMarker, configLock, capability,
                    observer, healthStop, runFailed>>
    BY <1>0 DEF hostVars, watchVars, memVars
  <1>2. pc["op"] = "mark" /\ STypeOK /\ op \in Operations /\ pc["boot"] = "done" /\ op # None
        /\ op.prog \in {"start", "restart"} /\ (op.then # "return" => op.prog \in {"start", "restart"})
    BY OpContext DEF StartMark, SupIInv, Shapes, OneOperation, Starting
  <1>3. /\ memMarker = [run |-> op.run, ctrl |-> op.ctrl, needs |-> TRUE] /\ op.run \in Runs
        /\ child = None /\ ~NeedsRecovery(marker) /\ capability = "verified"
        /\ healthStop \/ NoWatch
    BY <1>2 DEF SupIInv, StartFacts, Starting
  <1>4. CASE marker' = memMarker /\ Goto("op", "adopt") /\ UNCHANGED <<vars, op>>
    <2>1. UNCHANGED <<state, runId, controller, commands, active, draining, exitFailure, exitFenced,
                      idleRecovery>>
      BY <1>4 DEF vars, metaVars, cacheVars, exitVars
    <2>2. STypeOK'
      <3>1. TypeOK' /\ (op = None \/ op.cmd \in DOMAIN active)'
        BY <1>2, <1>4, <2>1 DEF IInv, STypeOK
      <3>2. QED
        BY <1>0, <1>1, <1>2, <1>4, <3>1 DEF STypeOK
    <2>3. /\ Shapes' /\ OneOperation' /\ BootIsAlone' /\ StopsAreSound' /\ ReportFacts'
          /\ pc'["op"] = "adopt" /\ pc'["boot"] = "done"
      <3>1. spc' \in [Submitters -> WatchPoints] /\ \A s \in Submitters : spc'[s] \in {spc[s], "probe"}
        BY <1>1 DEF SupIInv, Shapes
      <3>2. pc' = [pc EXCEPT !["op"] = "adopt"] /\ "adopt" \in Points \ {"idle"}
            /\ "adopt" \notin Stopping \cup {"stop", "nothing", "finish", "blame"}
        BY <1>4 DEF Goto, Points, Starting, Stopping
      <3>3. QED
        BY <1>1, <1>2, <1>4, <2>1, <2>2, <3>1, <3>2, OpStep
    <2>4. memMarker # None /\ memMarker.needs = TRUE
      <3>1. op.ctrl \in Clients /\ TRUE \in BOOLEAN
        BY <1>2 DEF SupIInv, OneOperation
      <3>2. memMarker \in Markers /\ memMarker.needs = TRUE
        BY <1>3, <3>1 DEF Markers
      <3>3. QED
        BY <3>2, SupervisorConstants
    <2>5. Covered' /\ Remembered'
      BY <1>1, <1>3, <1>4, <2>4 DEF SupIInv, Covered, Remembered, NeedsRecovery
    <2>6. StartFacts' /\ WatchFacts'
      <3>1. NoWatch => NoWatch'
        BY <1>1 DEF NoWatch
      <3>2. QED
        BY <1>1, <1>3, <1>4, <2>3, <3>1 DEF StartFacts, Starting, WatchFacts
    <2>7. StateFacts'
      <3>1. state \notin Serving \cup {"starting"}
        BY <1>2, <1>3 DEF SupIInv, StateFacts, ServingIsReal, Serving
      <3>2. QED
        BY <2>1, <2>3, <3>1 DEF StateFacts, ServingIsReal, NoServingDuringStop, Serving
    <2>8. QED
      BY <2>3, <2>5, <2>6, <2>7 DEF SupIInv
  <1>5. CASE marker' = marker /\ StartFails
    <2>1. Covered'
      BY <1>1, <1>5 DEF SupIInv, Covered
    <2>2. UNCHANGED diskVars
      BY <1>0, <1>5 DEF diskVars
    <2>3. QED
      BY <1>0, <1>1, <1>2, <1>3, <1>5, <2>1, <2>2, StartFailsInv DEF STypeOK
  <1>6. QED
    BY <1>4, <1>5 DEF StartMark

LEMMA StartAdoptInv == ASSUME SupIInv, IInv', StartAdopt PROVE SupIInv'
  <1>0. UNCHANGED <<diskVars, hostVars, memVars, lifeLock, ret, graceError, op, bootMarker,
                    watchVars, used, fate, crashes>>
    BY DEF StartAdopt
  <1>1. UNCHANGED <<marker, baseline, env, alive, spc, seen, misses, readAt, child, memMarker,
                    configLock, capability, observer, healthStop, runFailed>>
    BY <1>0 DEF hostVars, watchVars, memVars, diskVars
  <1>2. pc["op"] = "adopt" /\ STypeOK /\ op \in Operations /\ pc["boot"] = "done" /\ op # None
        /\ op.prog \in {"start", "restart"} /\ (op.then # "return" => op.prog \in {"start", "restart"})
    BY OpContext DEF StartAdopt, SupIInv, Shapes, OneOperation, Starting
  <1>3. /\ memMarker = [run |-> op.run, ctrl |-> op.ctrl, needs |-> TRUE] /\ op.run \in Runs
        /\ child = None /\ marker = memMarker /\ (healthStop \/ NoWatch)
    BY <1>2 DEF SupIInv, StartFacts, Starting
  <1>4. /\ state' = "starting" /\ runId' = marker.run /\ controller' = marker.ctrl
        /\ UNCHANGED <<commands, active, draining, exitFailure, exitFenced, idleRecovery>>
    BY <1>3, CoordinatorConstants DEF StartAdopt, RestoreResponsibility, cacheVars, exitVars
  <1>5. STypeOK'
    <2>1. TypeOK' /\ (op = None \/ op.cmd \in DOMAIN active)'
      BY <1>0, <1>2, <1>4 DEF IInv, STypeOK
    <2>2. QED
      BY <1>0, <1>1, <1>2, <2>1 DEF STypeOK
  <1>6. /\ Shapes' /\ OneOperation' /\ BootIsAlone' /\ StopsAreSound' /\ ReportFacts'
        /\ pc'["op"] = "spawn" /\ pc'["boot"] = "done"
    <2>1. spc' \in [Submitters -> WatchPoints] /\ \A s \in Submitters : spc'[s] \in {spc[s], "probe"}
      BY <1>1 DEF SupIInv, Shapes
    <2>2. pc' = [pc EXCEPT !["op"] = "spawn"] /\ "spawn" \in Points \ {"idle"}
          /\ "spawn" \notin Stopping \cup {"stop", "nothing", "finish", "blame"}
      BY DEF StartAdopt, Goto, Points, Starting, Stopping
    <2>3. QED
      BY <1>0, <1>1, <1>2, <1>4, <1>5, <2>1, <2>2, OpStep
  <1>7. Covered' /\ Remembered'
    BY <1>1, <1>3 DEF SupIInv, Covered, Remembered
  <1>8. StartFacts' /\ WatchFacts'
    <2>1. NoWatch => NoWatch'
      BY <1>1 DEF NoWatch
    <2>2. QED
      BY <1>0, <1>1, <1>3, <1>4, <1>6, <2>1 DEF StartFacts, Starting, WatchFacts, Serving
  <1>9. StateFacts'
    BY <1>1, <1>4, <1>6 DEF StateFacts, ServingIsReal, NoServingDuringStop, Serving, Answered
  <1>10. QED
    BY <1>6, <1>7, <1>8, <1>9 DEF SupIInv

LEMMA StartSpawnInv == ASSUME SupIInv, IInv', StartSpawn PROVE SupIInv'
  <1>0. UNCHANGED <<diskVars, env, memMarker, configLock, capability, observer, healthStop, runFailed,
                    lifeLock, ret, graceError, bootMarker, watchVars, used, fate, crashes>>
    BY DEF StartSpawn
  <1>1. UNCHANGED <<marker, baseline, spc, seen, misses, readAt>>
    BY <1>0 DEF watchVars, diskVars
  <1>2. pc["op"] = "spawn" /\ STypeOK /\ op \in Operations /\ pc["boot"] = "done" /\ op # None
        /\ op.prog \in {"start", "restart"} /\ (op.then # "return" => op.prog \in {"start", "restart"})
    BY OpContext DEF StartSpawn, SupIInv, Shapes, OneOperation, Starting
  <1>3. /\ memMarker = [run |-> op.run, ctrl |-> op.ctrl, needs |-> TRUE] /\ op.run \in Runs
        /\ child = None /\ marker = memMarker /\ (healthStop \/ NoWatch)
        /\ state \notin Serving \cup {"stopped"}
    BY <1>2 DEF SupIInv, StartFacts, Starting
  <1>4. marker # None /\ NeedsRecovery(marker) /\ marker.run = op.run
    <2>1. op.ctrl \in Clients /\ TRUE \in BOOLEAN
      BY <1>2 DEF SupIInv, OneOperation
    <2>2. marker \in Markers /\ marker.needs = TRUE /\ marker.run = op.run
      BY <1>3, <2>1 DEF Markers
    <2>3. QED
      BY <2>2, SupervisorConstants DEF NeedsRecovery
  <1>5. TRUE \in BOOLEAN /\ FALSE \in BOOLEAN
    BY Zenon
  <1>6. \A b \in BOOLEAN : /\ [run |-> op.run, ready |-> b] \in Children
                           /\ [run |-> op.run, ready |-> b] # None
    BY <1>3, SupervisorConstants DEF Children
  <1>7. CASE /\ child' = [run |-> op.run, ready |-> TRUE] /\ alive' = TRUE
             /\ Goto("op", "launch") /\ UNCHANGED <<vars, op>>
    <2>1. UNCHANGED <<state, runId, controller, commands, active, draining, exitFailure, exitFenced,
                      idleRecovery>>
      BY <1>7 DEF vars, metaVars, cacheVars, exitVars
    <2>2. /\ child' \in Children /\ child' # None /\ child'.ready = TRUE /\ child'.run = op.run
          /\ alive' \in BOOLEAN
      BY <1>5, <1>6, <1>7
    <2>3. STypeOK'
      <3>1. TypeOK' /\ (op = None \/ op.cmd \in DOMAIN active)'
        BY <1>2, <1>7, <2>1 DEF IInv, STypeOK
      <3>2. QED
        BY <1>0, <1>1, <1>2, <2>2, <3>1 DEF STypeOK
    <2>4. /\ Shapes' /\ OneOperation' /\ BootIsAlone' /\ StopsAreSound' /\ ReportFacts'
          /\ pc'["op"] = "launch" /\ pc'["boot"] = "done"
      <3>1. spc' \in [Submitters -> WatchPoints] /\ \A s \in Submitters : spc'[s] \in {spc[s], "probe"}
        BY <1>1 DEF SupIInv, Shapes
      <3>2. pc' = [pc EXCEPT !["op"] = "launch"] /\ "launch" \in Points \ {"idle"}
            /\ "launch" \notin Stopping \cup {"stop", "nothing", "finish", "blame"}
        BY <1>7 DEF Goto, Points, Starting, Stopping
      <3>3. QED
        BY <1>1, <1>2, <1>7, <2>1, <2>3, <3>1, <3>2, OpStep
    <2>5. Covered' /\ Remembered'
      BY <1>0, <1>1, <1>3, <1>4, <2>2 DEF Covered, Remembered
    <2>6. StartFacts' /\ WatchFacts'
      <3>1. NoWatch => NoWatch'
        BY <1>1 DEF NoWatch
      <3>2. QED
        BY <1>0, <1>1, <1>3, <1>7, <2>1, <2>2, <2>4, <3>1 DEF StartFacts, Starting, WatchFacts
    <2>7. StateFacts'
      <3>1. ~Unknown
        BY <1>2, <1>3, <1>4 DEF Unknown, Stopping
      <3>2. Answered'
        BY <1>1, <1>2, <1>4, <2>1, <3>1 DEF SupIInv, StateFacts, Answered
      <3>3. QED
        BY <1>3, <2>1, <2>4, <3>2 DEF StateFacts, ServingIsReal, NoServingDuringStop, Serving
    <2>8. QED
      BY <2>4, <2>5, <2>6, <2>7 DEF SupIInv
  <1>8. CASE /\ StartFails
             /\ \/ child' = None /\ alive' = FALSE
                \/ child' = [run |-> op.run, ready |-> FALSE] /\ alive' = TRUE
    <2>1. /\ child' \in Children \cup {None} /\ (child' # None => child'.run = op.run)
          /\ alive' \in BOOLEAN /\ (alive' = TRUE => child' # None)
      <3>1. CASE child' = None /\ alive' = FALSE
        BY <1>5, <3>1
      <3>2. CASE child' = [run |-> op.run, ready |-> FALSE] /\ alive' = TRUE
        BY <1>5, <1>6, <3>2
      <3>3. QED
        BY <1>8, <3>1, <3>2
    <2>2. Covered'
      BY <1>0, <1>1, <1>4, <2>1 DEF Covered
    <2>3. QED
      BY <1>0, <1>2, <1>8, <2>1, <2>2, StartFailsInv
  <1>9. QED
    BY <1>7, <1>8 DEF StartSpawn

LEMMA StartLaunchInv == ASSUME SupIInv, IInv', StartLaunch PROVE SupIInv'
  <1>0. UNCHANGED <<diskVars, alive, memVars, lifeLock, ret, graceError, bootMarker, watchVars,
                    used, fate, crashes>>
    BY DEF StartLaunch
  <1>1. UNCHANGED <<marker, baseline, spc, seen, misses, readAt, child, memMarker, configLock,
                    capability, observer, healthStop, runFailed>>
    BY <1>0 DEF watchVars, diskVars, memVars
  <1>2. pc["op"] = "launch" /\ STypeOK /\ op \in Operations /\ pc["boot"] = "done" /\ op # None
        /\ op.prog \in {"start", "restart"} /\ (op.then # "return" => op.prog \in {"start", "restart"})
    BY OpContext DEF StartLaunch, SupIInv, Shapes, OneOperation, Starting
  <1>3. /\ memMarker = [run |-> op.run, ctrl |-> op.ctrl, needs |-> TRUE] /\ op.run \in Runs
        /\ child # None /\ child.ready /\ marker = memMarker /\ (healthStop \/ NoWatch)
        /\ state \notin Serving \cup {"stopped"}
    BY <1>2 DEF SupIInv, StartFacts, Starting
  <1>4. Covered'
    BY <1>0, <1>1, <1>3 DEF SupIInv, Covered
  <1>5. CASE env' = "dirty" /\ Goto("op", "watch") /\ UNCHANGED <<vars, op>>
    <2>1. UNCHANGED <<state, runId, controller, commands, active, draining, exitFailure, exitFenced,
                      idleRecovery>>
      BY <1>5 DEF vars, metaVars, cacheVars, exitVars
    <2>2. STypeOK'
      <3>1. TypeOK' /\ (op = None \/ op.cmd \in DOMAIN active)'
        BY <1>2, <1>5, <2>1 DEF IInv, STypeOK
      <3>2. QED
        BY <1>0, <1>1, <1>2, <1>5, <3>1 DEF STypeOK
    <2>3. /\ Shapes' /\ OneOperation' /\ BootIsAlone' /\ StopsAreSound' /\ ReportFacts'
          /\ pc'["op"] = "watch" /\ pc'["boot"] = "done"
      <3>1. spc' \in [Submitters -> WatchPoints] /\ \A s \in Submitters : spc'[s] \in {spc[s], "probe"}
        BY <1>1 DEF SupIInv, Shapes
      <3>2. pc' = [pc EXCEPT !["op"] = "watch"] /\ "watch" \in Points \ {"idle"}
            /\ "watch" \notin Stopping \cup {"stop", "nothing", "finish", "blame"}
        BY <1>5 DEF Goto, Points, Starting, Stopping
      <3>3. QED
        BY <1>1, <1>2, <1>5, <2>1, <2>2, <3>1, <3>2, OpStep
    <2>4. Remembered'
      BY <1>1, <1>3 DEF Remembered
    <2>5. StartFacts' /\ WatchFacts'
      <3>1. NoWatch => NoWatch'
        BY <1>1 DEF NoWatch
      <3>2. QED
        BY <1>0, <1>1, <1>3, <1>5, <2>1, <2>3, <3>1 DEF StartFacts, Starting, WatchFacts
    <2>6. StateFacts'
      <3>1. NeedsRecovery(marker') => Answered'
        BY <1>1, <1>2, <1>3, <2>1 DEF SupIInv, StateFacts, Answered, Unknown
      <3>2. QED
        BY <1>3, <2>1, <2>3, <3>1 DEF StateFacts, ServingIsReal, NoServingDuringStop, Serving
    <2>7. QED
      BY <1>4, <2>3, <2>4, <2>5, <2>6 DEF SupIInv
  <1>6. CASE env' \in {env, "dirty"} /\ StartFails
    BY <1>0, <1>1, <1>2, <1>4, <1>6, StartFailsInv DEF STypeOK
  <1>7. QED
    BY <1>5, <1>6 DEF StartLaunch

LEMMA StartWatchInv == ASSUME SupIInv, IInv', StartWatch PROVE SupIInv'
  <1>0. /\ UNCHANGED <<vars, diskVars, hostVars, child, memMarker, configLock, capability, observer,
                       graceError, op, bootMarker, seen, misses, readAt, used, fate, crashes>>
        /\ ret' = [ret EXCEPT !["op"] = HealthyResult(op.run, op.ctrl)]
        /\ healthStop' = FALSE /\ spc' = [spc EXCEPT ![op.run] = "probe"] /\ runFailed' = runFailed
        /\ lifeLock' = "free"
    <2>1. ~OperationFenced("op")
      BY DEF OperationFenced, SupIInv, OneOperation
    <2>2. QED
      BY <2>1 DEF StartWatch
  <1>1. UNCHANGED <<marker, baseline, env, alive, state, runId, controller, commands, active, draining,
                    exitFailure, exitFenced, idleRecovery>>
    BY <1>0 DEF hostVars, diskVars, vars, metaVars, cacheVars, exitVars
  <1>2. pc["op"] = "watch" /\ STypeOK /\ op \in Operations /\ pc["boot"] = "done" /\ op # None
        /\ op.prog \in {"start", "restart"} /\ (op.then # "return" => op.prog \in {"start", "restart"})
        /\ op.ctrl \in Clients /\ op.by = "client"
    BY OpContext DEF StartWatch, SupIInv, Shapes, OneOperation, Starting
  <1>3. /\ memMarker = [run |-> op.run, ctrl |-> op.ctrl, needs |-> TRUE] /\ op.run \in Runs
        /\ child # None /\ child.ready /\ marker = memMarker /\ state \notin Serving \cup {"stopped"}
    BY <1>2 DEF SupIInv, StartFacts, Starting
  <1>4. HealthyResult(op.run, op.ctrl) \in StartedResults /\ StartedResults \subseteq Results
    <2>1. TRUE \in BOOLEAN /\ FALSE \in BOOLEAN
      BY Zenon
    <2>2. QED
      BY <1>2, <1>3, <2>1 DEF HealthyResult, StartedResults, Results, States
  <1>5. ret' \in [Threads -> {None} \cup Results] /\ ret'["op"] = HealthyResult(op.run, op.ctrl)
    BY <1>0, <1>2, <1>4 DEF STypeOK, Threads
  <1>6. STypeOK'
    <2>1. TypeOK' /\ (op = None \/ op.cmd \in DOMAIN active)' /\ healthStop' \in BOOLEAN
      BY <1>0, <1>1, <1>2 DEF IInv, STypeOK
    <2>2. QED
      BY <1>0, <1>1, <1>2, <1>5, <2>1 DEF STypeOK
  <1>7. /\ Shapes' /\ OneOperation' /\ BootIsAlone' /\ StopsAreSound'
        /\ pc'["op"] = "finish" /\ pc'["boot"] = "done"
    <2>1. spc' \in [Submitters -> WatchPoints] /\ \A s \in Submitters : spc'[s] \in {spc[s], "probe"}
      BY <1>0 DEF SupIInv, Shapes, WatchPoints
    <2>2. pc' = [pc EXCEPT !["op"] = "finish"] /\ "finish" \in Points \ {"idle"}
          /\ "finish" \notin Starting \cup Stopping \cup {"stop", "nothing", "guard", "blame"}
      BY DEF StartWatch, Goto, Points, Starting, Stopping
    <2>3. QED
      BY <1>0, <1>1, <1>2, <1>6, <2>1, <2>2, OpStep
  <1>8. Covered' /\ Remembered'
    BY <1>0, <1>1, <1>3 DEF SupIInv, Covered, Remembered
  <1>9. StartFacts' /\ WatchFacts'
    BY <1>0, <1>3, <1>7 DEF StartFacts, Starting, WatchFacts
  <1>10. StateFacts'
    <2>1. NeedsRecovery(marker') => Answered'
      BY <1>1, <1>2, <1>3 DEF SupIInv, StateFacts, Answered, Unknown
    <2>2. ret'["op"].state = "healthy"
      BY <1>5 DEF HealthyResult
    <2>3. QED
      BY <1>1, <1>3, <1>7, <2>1, <2>2 DEF StateFacts, ServingIsReal, NoServingDuringStop, Serving
  <1>11. ReportFacts'
    <2> DEFINE res == HealthyResult(op.run, op.ctrl)
    <2>1. res.state = "healthy" /\ res.run = marker.run /\ res.ctrl = marker.ctrl
      BY <1>3 DEF HealthyResult
    <2>2. Reported(ret'["op"], child', env', marker', memMarker', configLock', runId', controller')
      BY <1>0, <1>1, <1>3, <1>5, <2>1 DEF Reported
    <2>3. ret'["op"] \in LifecycleResults
      BY <1>4, <1>5 DEF LifecycleResults
    <2>4. op' = op
      BY <1>0
    <2>5. QED
      BY <1>2, <1>7, <2>2, <2>3, <2>4 DEF ReportFacts
  <1>12. QED
    BY <1>7, <1>8, <1>9, <1>10, <1>11 DEF SupIInv

LEMMA StartBlameInv == ASSUME SupIInv, IInv', StartBlame PROVE SupIInv'
  <1> DEFINE res == [ret["op"] EXCEPT !.outcome = "failed", !.reason = "start_failed"]
  <1>0. /\ UNCHANGED <<diskVars, hostVars, memVars, graceError, op, bootMarker, watchVars, used, fate,
                       crashes>>
        /\ ret' = [ret EXCEPT !["op"] = res] /\ lifeLock' = "free"
    BY DEF StartBlame
  <1>1. /\ UNCHANGED <<marker, baseline, env, alive, spc, seen, misses, readAt, child, memMarker,
                       configLock, capability, observer, healthStop, runFailed>>
        /\ UNCHANGED <<commands, active, draining, exitFailure, exitFenced, idleRecovery>>
        /\ state' = IF state = "stopped" THEN state ELSE "failed"
        /\ runId' = IF state = "stopped" THEN None ELSE runId
        /\ controller' = IF state = "stopped" THEN None ELSE controller
    BY <1>0 DEF hostVars, diskVars, watchVars, memVars, StartBlame, RecordTerminalFailure, cacheVars,
                exitVars
  <1>2. pc["op"] = "blame" /\ STypeOK /\ op \in Operations /\ pc["boot"] = "done" /\ op # None
        /\ op.prog \in {"start", "restart"} /\ (op.then # "return" => op.prog \in {"start", "restart"})
        /\ op.by = "client"
    BY OpContext DEF StartBlame, SupIInv, Shapes, OneOperation, Starting
  <1>3. ~Unknown
    BY <1>2 DEF Unknown
  <1>4. /\ ret["op"] \in StoppedResults \cup FailedResults
        /\ Reported(ret["op"], child, env, marker, memMarker, configLock, runId, controller)
    BY <1>2 DEF SupIInv, ReportFacts
  <1>5. /\ res \in StoppedResults \cup FailedResults
        /\ res.state = ret["op"].state /\ res.run = ret["op"].run /\ res.ctrl = ret["op"].ctrl
        /\ ret["op"] \in StoppedResults <=> res \in StoppedResults
    BY <1>4, SupervisorConstants DEF StoppedResults, FailedResults, Outcomes
  <1>6. ret' \in [Threads -> {None} \cup Results] /\ ret'["op"] = res
    <2>1. res \in Results
      BY <1>5, ResultTypes
    <2> HIDE DEF res
    <2>2. QED
      BY <1>0, <1>2, <2>1 DEF STypeOK, Threads
  <1>7. STypeOK'
    <2>1. TypeOK' /\ (op = None \/ op.cmd \in DOMAIN active)'
      BY <1>0, <1>1, <1>2 DEF IInv, STypeOK
    <2>2. QED
      BY <1>0, <1>1, <1>2, <1>6, <2>1 DEF STypeOK
  <1>8. /\ Shapes' /\ OneOperation' /\ BootIsAlone' /\ StopsAreSound'
        /\ pc'["op"] = "finish" /\ pc'["boot"] = "done"
    <2>1. spc' \in [Submitters -> WatchPoints] /\ \A s \in Submitters : spc'[s] \in {spc[s], "probe"}
      BY <1>1 DEF SupIInv, Shapes
    <2>2. pc' = [pc EXCEPT !["op"] = "finish"] /\ "finish" \in Points \ {"idle"}
          /\ "finish" \notin Starting \cup Stopping \cup {"stop", "nothing", "guard", "blame"}
      BY DEF StartBlame, Goto, Points, Starting, Stopping
    <2>3. QED
      BY <1>0, <1>1, <1>2, <1>7, <2>1, <2>2, OpStep
  <1>9. Covered' /\ Remembered'
    BY <1>1, <1>2, <1>8 DEF SupIInv, Covered, Remembered
  <1>10. StartFacts' /\ WatchFacts'
    BY <1>1, <1>8 DEF SupIInv, StartFacts, Starting, WatchFacts, NoWatch, Serving
  <1>11. StateFacts'
    <2>1. state = "stopped" => Clean /\ runId = None /\ controller = None
      BY <1>2 DEF SupIInv, StateFacts
    <2>2. NeedsRecovery(marker') => Answered'
      BY <1>1, <1>2, <1>3, <2>1 DEF SupIInv, StateFacts, Answered, Clean, CleanIn
    <2>3. state' = "stopped" => Clean' /\ runId' = None /\ controller' = None
      BY <1>1, <2>1 DEF Clean
    <2>4. QED
      BY <1>1, <1>8, <2>2, <2>3 DEF StateFacts, ServingIsReal, NoServingDuringStop, Serving
  <1>12. ReportFacts'
    <2>1. Reported(res, child, env, marker, memMarker, configLock, runId', controller')
      <3>1. CASE ret["op"] \in StoppedResults
        <4>1. res.state = "stopped" /\ res.run = None /\ res.release
              /\ res \notin FailedResults \cup StartedResults
          BY <1>5, <3>1, ResultKinds
        <4>2. CleanIn(child, env, marker, configLock)
          BY <1>4, <1>5, <4>1 DEF Reported
        <4> HIDE DEF res
        <4>3. QED
          BY <4>1, <4>2 DEF Reported
      <3>2. CASE ret["op"] \in FailedResults
        <4>1. res.state = "failed"
          BY <1>5, <3>2, ResultKinds
        <4>2. NeedsRecovery(marker) => \/ res.run = marker.run /\ res.ctrl = marker.ctrl
                                       \/ res.run = Absent /\ res.ctrl = None /\ memMarker = None
          BY <1>4, <1>5, <3>2 DEF Reported
        <4> HIDE DEF res
        <4>3. QED
          BY <4>1, <4>2 DEF Reported
      <3>3. QED
        BY <1>4, <3>1, <3>2
    <2>2. res \in LifecycleResults
      BY <1>5 DEF LifecycleResults
    <2> HIDE DEF res
    <2>3. op' = op
      BY <1>0
    <2>4. QED
      BY <1>1, <1>2, <1>5, <1>6, <1>8, <2>1, <2>2, <2>3 DEF ReportFacts
  <1>13. QED
    BY <1>8, <1>9, <1>10, <1>11, <1>12 DEF SupIInv

(* execute() either answers by itself, or goes on with start() or stop(). *)
LEMMA ExecuteInv == ASSUME SupIInv, IInv', Execute PROVE SupIInv'
  <1>0. UNCHANGED <<vars, diskVars, hostVars, memVars, lifeLock, graceError, bootMarker, watchVars,
                    used, fate, crashes>>
    BY DEF Execute
  <1>1. UNCHANGED <<marker, baseline, env, alive, spc, seen, misses, readAt, child, memMarker,
                    configLock, capability, observer, healthStop, runFailed,
                    state, runId, controller, commands, active, draining, exitFailure, exitFenced,
                    idleRecovery>>
    BY <1>0 DEF hostVars, diskVars, watchVars, memVars, vars, metaVars, cacheVars, exitVars
  <1>2. /\ pc["op"] = "begin" /\ STypeOK /\ op \in Operations /\ pc["boot"] = "done" /\ op # None
        /\ (op.then # "return" => op.prog \in {"start", "restart"})
        /\ (op.by # "client" => op.prog = "stop") /\ op.prog \in Programs
    BY OpContext DEF Execute, SupIInv, Shapes, OneOperation, Operations
  <1>3. /\ state # "starting"
        /\ NeedsRecovery(marker) => Answered \/ Unknown
        /\ state = "stopped" => Clean /\ runId = None /\ controller = None
        /\ op.by = "client" => state # "recovering"
    BY <1>2 DEF SupIInv, StateFacts
  <1>4. Covered' /\ Remembered' /\ WatchFacts'
    BY <1>1, <1>2 DEF SupIInv, Covered, Remembered, WatchFacts, NoWatch
  (* What the five programs do. *)
  <1>5. PICK p \in {"guard", "stop", "finish", "raise"} :
          /\ pc' = [pc EXCEPT !["op"] = p]
          /\ p = "guard" => op.prog = "start"
          /\ p = "stop" => op.prog = "stop" \/ (op.prog = "restart" /\ runId # None)
          /\ p # "finish" => ret' = ret
          /\ op' = IF p = "stop" /\ op.prog = "restart" THEN [op EXCEPT !.then = "start"] ELSE op
          /\ p = "finish" => op' = op /\
               \/ /\ op.prog = "stop" /\ op.by = "client" /\ runId = None
                  /\ state \notin {"failed", "recovering"}
                  /\ ret' = [ret EXCEPT !["op"] = NoopResult]
               \/ op.prog = "load" /\ runId = None /\ ret' = [ret EXCEPT !["op"] = EchoResult]
               \/ op.prog = "verify" /\ ret' = [ret EXCEPT !["op"] = NoResult(FALSE)]
    <2>1. CASE op.prog = "start"
      BY <2>1 DEF Execute, Goto
    <2>2. CASE op.prog = "restart"
      BY <2>2 DEF Execute, Goto
    <2>3. CASE op.prog = "stop"
      BY <2>3 DEF Execute, Goto
    <2>4. CASE op.prog = "load"
      BY <2>4 DEF Execute, Goto
    <2>5. CASE op.prog = "verify"
      BY <2>5 DEF Execute, Goto
    <2>6. QED
      BY <1>2, <2>1, <2>2, <2>3, <2>4, <2>5 DEF Programs
  <1>6. /\ op' \in Operations /\ op'.cmd = op.cmd /\ op'.by = op.by /\ op'.prog = op.prog
        /\ op'.ctrl = op.ctrl
        /\ op'.then # "return" => op.prog \in {"start", "restart"}
        /\ p = "stop" => op'.then # "blame"
    BY <1>2, <1>5 DEF Operations
  (* Inputs of the answers *)
  <1>7. p = "finish" =>
          /\ ret'["op"] \in Results /\ ret' \in [Threads -> {None} \cup Results]
          /\ Reported(ret'["op"], child, env, marker, memMarker, configLock, runId, controller)
          /\ op.by = "client"
          /\ op.prog = "stop" => ret'["op"] \in NoopResults
          /\ op.prog = "verify" => ret'["op"] \in PlainResults
          /\ op.prog = "load" => ret'["op"] = EchoResult /\ state \in {"stopped", "failed"} /\ child = None
          /\ op.prog \in {"stop", "verify", "load"}
    <2> SUFFICES ASSUME p = "finish"
                 PROVE  /\ ret'["op"] \in Results /\ ret' \in [Threads -> {None} \cup Results]
                        /\ Reported(ret'["op"], child, env, marker, memMarker, configLock, runId, controller)
                        /\ op.by = "client"
                        /\ op.prog = "stop" => ret'["op"] \in NoopResults
                        /\ op.prog = "verify" => ret'["op"] \in PlainResults
                        /\ op.prog = "load" => /\ ret'["op"] = EchoResult
                                               /\ state \in {"stopped", "failed"} /\ child = None
                        /\ op.prog \in {"stop", "verify", "load"}
      OBVIOUS
    <2>1. \A x \in Results : ret' = [ret EXCEPT !["op"] = x] =>
            ret'["op"] = x /\ ret' \in [Threads -> {None} \cup Results]
      BY <1>2 DEF STypeOK, Threads
    <2>2. TRUE \in BOOLEAN /\ FALSE \in BOOLEAN
      BY Zenon
    <2>3. NeedsRecovery(marker) => runId \in Runs \/ Unknown
      BY <1>2, <1>3 DEF STypeOK, NeedsRecovery, Markers, Answered
    <2>4. runId = None => child = None /\ state \notin Serving
      BY <1>2, <2>3, CoordinatorConstants
      DEF SupIInv, StateFacts, ServingIsReal, Covered, Serving, Unknown
    <2>5. CASE /\ op.prog = "stop" /\ op.by = "client" /\ runId = None
               /\ state \notin {"failed", "recovering"}
               /\ ret' = [ret EXCEPT !["op"] = NoopResult]
      <3>1. NoopResult \in NoopResults /\ NoopResults \subseteq Results
        BY <2>2 DEF NoopResult, NoResult, NoopResults, Results, States
      <3>2. state = "stopped"
        BY <1>2, <1>3, <2>4, <2>5 DEF STypeOK, TypeOK, States, Serving
      <3>3. NoopResult.state = "stopped" /\ NoopResult \notin FailedResults \cup StartedResults
        BY <3>1 DEF NoopResults, FailedResults, StartedResults
      <3>4. Reported(NoopResult, child, env, marker, memMarker, configLock, runId, controller)
        BY <1>3, <3>2, <3>3 DEF Reported, Clean
      <3>5. QED
        BY <2>1, <2>5, <3>1, <3>4
    <2>6. CASE op.prog = "load" /\ runId = None /\ ret' = [ret EXCEPT !["op"] = EchoResult]
      <3>1. op.by = "client" /\ state \in {"stopped", "failed"} /\ child = None
        BY <1>2, <1>3, <2>4, <2>6 DEF STypeOK, TypeOK, States, Serving
      <3>2. EchoResult \in Results
        BY <1>2, <2>2 DEF EchoResult, NoResult, Results, STypeOK, TypeOK
      <3>3. EchoResult.state = state /\ EchoResult.run = Absent
        BY DEF EchoResult, NoResult
      <3>4. EchoResult \notin FailedResults \cup StartedResults
        <4>1. EchoResult.outcome = Absent
          BY DEF EchoResult, NoResult
        <4>2. EchoResult \notin FailedResults
          BY <4>1, CoordinatorConstants DEF FailedResults, Outcomes
        <4>3. EchoResult \notin StartedResults
          BY <3>1, <3>3 DEF StartedResults
        <4>4. QED
          BY <4>2, <4>3
      <3>5. Reported(EchoResult, child, env, marker, memMarker, configLock, runId, controller)
        BY <1>3, <3>1, <3>3, <3>4 DEF Reported, Clean
      <3>6. QED
        BY <2>1, <2>6, <3>1, <3>2, <3>5
    <2>7. CASE op.prog = "verify" /\ ret' = [ret EXCEPT !["op"] = NoResult(FALSE)]
      <3>1. NoResult(FALSE) \in PlainResults /\ PlainResults \subseteq Results
        BY <2>2 DEF NoResult, PlainResults, Results
      <3>2. NoResult(FALSE).state = Absent
        BY DEF NoResult
      <3>3. Absent \notin {"stopped", "healthy", "failed"}
        BY CoordinatorConstants DEF States
      <3>4. NoResult(FALSE) \notin FailedResults \cup StartedResults
        BY <3>2, <3>3 DEF FailedResults, StartedResults
      <3>5. Reported(NoResult(FALSE), child, env, marker, memMarker, configLock, runId, controller)
        BY <3>2, <3>3, <3>4 DEF Reported
      <3>6. op.by = "client"
        BY <1>2, <2>7
      <3>7. QED
        BY <2>1, <2>7, <3>1, <3>5, <3>6
    <2>8. QED
      BY <1>5, <2>5, <2>6, <2>7
  <1>8. STypeOK'
    <2>1. TypeOK' /\ (op = None \/ op.cmd \in DOMAIN active)'
      BY <1>1, <1>2, <1>6 DEF IInv, STypeOK
    <2>2. ret' \in [Threads -> {None} \cup Results]
      BY <1>2, <1>5, <1>7 DEF STypeOK
    <2>3. QED
      BY <1>0, <1>1, <1>2, <2>1, <2>2 DEF STypeOK
  <1>9. /\ Shapes' /\ OneOperation' /\ BootIsAlone' /\ StopsAreSound'
        /\ pc'["op"] = p /\ pc'["boot"] = "done" /\ (p # "finish" => ReportFacts')
    <2>1. spc' \in [Submitters -> WatchPoints] /\ \A s \in Submitters : spc'[s] \in {spc[s], "probe"}
      BY <1>1 DEF SupIInv, Shapes
    <2>2. p \in Points \ {"idle"} /\ p \notin Starting \cup Stopping \cup {"nothing", "blame"}
      BY DEF Points, Starting, Stopping
    <2>3. QED
      BY <1>1, <1>2, <1>5, <1>6, <1>8, <2>1, <2>2, OpStep
  <1>10. StartFacts'
    <2>1. p = "stop" => op'.then # "blame"
      BY <1>6
    <2>2. QED
      BY <1>9, <2>1 DEF StartFacts, Starting
  <1>11. StateFacts'
    <2>1. Unknown => Unknown'
      <3>1. ASSUME Unknown PROVE p \in StopPoints \cup {"blame"} => op'.prog = "stop"
        BY <1>5, <1>6, <3>1 DEF Unknown, StopPoints, Stopping
      <3>2. QED
        BY <1>1, <1>2, <1>9, <3>1 DEF Unknown, Stopping
    <2>2. QED
      BY <1>1, <1>2, <1>3, <1>9, <2>1
      DEF SupIInv, StateFacts, ServingIsReal, NoServingDuringStop, Answered, Clean
  <1>12. ReportFacts'
    <2>1. CASE p # "finish"
      BY <1>9, <2>1
    <2>2. CASE p = "finish"
      <3>1. op' = op /\ (op.prog = "stop" => ret'["op"] \in LifecycleResults)
        BY <1>5, <1>7, <2>2 DEF LifecycleResults
      <3>2. EchoResult' = EchoResult
        BY <1>1 DEF EchoResult
      <3>3. QED
        BY <1>1, <1>7, <1>9, <2>2, <3>1, <3>2 DEF ReportFacts
    <2>3. QED
      BY <2>1, <2>2
  <1>13. QED
    BY <1>4, <1>9, <1>10, <1>11, <1>12 DEF SupIInv

----------------------------------------------------------------------------
(* An operation begins *)

LEMMA BeginInv ==
    ASSUME SupIInv, IInv', NEW req, NEW prog \in Programs, NEW by \in Submitters \cup {"client"},
           Begin(req, prog, by), pc["boot"] = "done",
           req.cmd \in Commands, req.ctrl \in Clients \cup {None},
           by = "client" => req.ctrl \in Clients /\ req.kind = KindOf(prog) /\ state # "recovering",
           by # "client" => prog = "stop" /\ req.kind = "internal",
           UNCHANGED <<diskVars, hostVars, memVars, lifeLock, ret, graceError, bootMarker, seen, misses,
                       used, fate, crashes>>,
           spc' \in [Submitters -> WatchPoints], readAt' \in [Submitters -> Readings \cup {None}],
           \A s \in Submitters : \/ spc'[s] = spc[s] /\ readAt'[s] = readAt[s]
                                 \/ spc'[s] = "execute"
    PROVE  SupIInv'
  <1>1. /\ UNCHANGED <<marker, baseline, env, alive, child, memMarker,
                       configLock, capability, observer, healthStop, runFailed,
                       state, runId, controller, draining, exitFailure, exitFenced, idleRecovery>>
        /\ active' = With(active, req.cmd, req.scope) /\ op = None
        /\ commands' = With(commands, req.cmd,
             [ctrl |-> req.ctrl, kind |-> req.kind, ident |-> req.ident,
              status |-> "in_progress", pos |-> nextPos,
              resp |-> [state |-> state, run |-> runId]])
        /\ op' = [cmd |-> req.cmd, prog |-> prog, by |-> by, ctrl |-> req.ctrl, run |-> None,
                  then |-> "return"]
        /\ pc' = [pc EXCEPT !["op"] = "begin"]
    BY DEF hostVars, diskVars, memVars, Begin, Accept, exitVars, Goto
  <1>2. pc["op"] = "idle" /\ DOMAIN active = {} /\ STypeOK
        /\ ~draining /\ exitFailure = None /\ exitFenced = {}
    BY <1>1 DEF SupIInv, OneOperation, Shapes
  <1>3. DOMAIN active' = {req.cmd} /\ commands'[req.cmd].kind = req.kind
    BY <1>1, <1>2 DEF With
  <1>4. /\ op' \in Operations /\ op' # None /\ op'.cmd = req.cmd /\ op'.by = by /\ op'.prog = prog
        /\ op'.ctrl = req.ctrl /\ op'.then = "return"
    <2>1. op' \in Operations
      BY <1>1 DEF Operations
    <2>2. op' # None
      BY <2>1, SupervisorConstants
    <2>3. QED
      BY <1>1, <2>1, <2>2
  <1>5. pc'["op"] = "begin" /\ pc'["boot"] = "done" /\ pc' \in [Threads -> Points]
    BY <1>1 DEF SupIInv, Shapes, Threads, Points
  <1>6. Shapes'
    <2>1. STypeOK'
      <3>1. TypeOK' /\ (op = None \/ op.cmd \in DOMAIN active)'
        BY <1>3, <1>4 DEF IInv
      <3>2. QED
        BY <1>1, <1>2, <3>1 DEF STypeOK
    <2>2. \A r \in Runs : spc'[r] = "publish" => seen'[r] \in Observations
      BY DEF SupIInv, Shapes, Submitters
    <2>3. \A s \in Submitters : spc'[s] = "submit" => readAt'[s] \in Readings
      BY DEF SupIInv, Shapes
    <2>4. seen' \in [Runs -> Observations \cup {None}]
      BY DEF SupIInv, Shapes
    <2>5. QED
      BY <1>4, <1>5, <2>1, <2>2, <2>3, <2>4 DEF Shapes
  <1>7. OneOperation'
    BY <1>1, <1>2, <1>3, <1>4, <1>5 DEF OneOperation, Starting, Stopping
  <1>8. NoWatch => NoWatch'
    BY DEF NoWatch, Submitters
  <1>9. /\ BootIsAlone' /\ StopsAreSound' /\ ReportFacts' /\ StartFacts'
    <2>1. BootIsAlone' /\ StartFacts'
      BY <1>5 DEF BootIsAlone, StartFacts, Starting
    <2>2. StopsAreSound'
      BY <1>5 DEF StopsAreSound, StopFacts, Stopping
    <2>3. ReportFacts'
      BY <1>5 DEF ReportFacts
    <2>4. QED
      BY <2>1, <2>2, <2>3
  <1>10. Covered' /\ Remembered' /\ WatchFacts'
    BY <1>1, <1>5, <1>8 DEF SupIInv, Covered, Remembered, WatchFacts
  <1>11. StateFacts'
    <2>1. Unknown => Unknown'
      BY <1>1, <1>2, <1>5 DEF Unknown, StopPoints, Stopping
    <2>2. QED
      BY <1>1, <1>2, <1>4, <1>5, <2>1
      DEF SupIInv, StateFacts, ServingIsReal, NoServingDuringStop, Answered, Clean
  <1>12. QED
    BY <1>6, <1>7, <1>9, <1>10, <1>11 DEF SupIInv

LEMMA ClientSubmitsInv == ASSUME SupIInv, IInv', ClientSubmits PROVE SupIInv'
  <1>1. PICK c \in Commands, ctrl \in Clients, prog \in Programs :
            Begin([cmd |-> c, ctrl |-> ctrl, valid |-> TRUE, ver |-> stateVersion,
                   kind |-> KindOf(prog), scope |-> None,
                   ident |-> IF prog = "verify" THEN CHOOSE i \in Idents : TRUE ELSE None],
                  prog, "client")
    BY DEF ClientSubmits
  <1> DEFINE req == [cmd |-> c, ctrl |-> ctrl, valid |-> TRUE, ver |-> stateVersion,
                     kind |-> KindOf(prog), scope |-> None,
                     ident |-> IF prog = "verify" THEN CHOOSE i \in Idents : TRUE ELSE None]
  <1>2. /\ req.cmd = c /\ req.ctrl = ctrl /\ req.kind = KindOf(prog) /\ req.kind # "internal"
    BY DEF KindOf
  <1>3. state # "recovering"
    BY <1>1, <1>2 DEF Begin, Accept, Verdict
  <1>4. pc["boot"] = "done"
    BY <1>3 DEF SupIInv, BootIsAlone
  <1>5. UNCHANGED <<diskVars, hostVars, memVars, lifeLock, ret, graceError, bootMarker, watchVars,
                    used, fate, crashes>>
    BY DEF ClientSubmits
  <1>6. /\ UNCHANGED <<spc, seen, misses, readAt>> /\ spc' \in [Submitters -> WatchPoints]
        /\ readAt' \in [Submitters -> Readings \cup {None}]
    BY <1>5 DEF watchVars, SupIInv, Shapes
  <1>7. Begin(req, prog, "client")
    BY <1>1
  <1> HIDE DEF req
  <1>8. QED
    BY <1>2, <1>3, <1>4, <1>5, <1>6, <1>7, BeginInv

----------------------------------------------------------------------------
(* The threads that watch and protect a run *)

(* A step of one of them leaves the lifecycle thread and what is on disk alone. *)
LEMMA WatcherStep ==
    ASSUME SupIInv, IInv', pc["boot"] = "done",
           UNCHANGED <<diskVars, hostVars, memVars, threadVars, used, crashes>>,
           UNCHANGED <<commands, active, draining, exitFailure, exitFenced>>,
           spc' \in [Submitters -> WatchPoints], seen' \in [Runs -> Observations \cup {None}],
           misses' \in [Runs -> 0..1], readAt' \in [Submitters -> Readings \cup {None}],
           fate' \in [Runs -> {"unknown", "failed", "stopping"}],
           \A r \in Runs : spc'[r] = "publish" => seen'[r] \in Observations,
           \A s \in Submitters : spc'[s] = "submit" => readAt'[s] \in Readings,
           NoWatch => NoWatch'
    PROVE  /\ Shapes' /\ OneOperation' /\ BootIsAlone' /\ Covered' /\ Remembered' /\ StopsAreSound'
           /\ UNCHANGED <<marker, child, env, memMarker, configLock, healthStop, pc, ret, op, capability>>
           /\ UNCHANGED <<state, runId, controller>> => SupIInv'
  <1>1. UNCHANGED <<marker, baseline, env, alive, child, memMarker, configLock, capability, observer,
                    healthStop, runFailed, lifeLock, pc, ret, graceError, op, bootMarker>>
    BY DEF hostVars, diskVars, memVars, threadVars
  <1>2. Shapes'
    <2>1. STypeOK'
      <3>1. TypeOK' /\ (op = None \/ op.cmd \in DOMAIN active)'
        BY <1>1 DEF IInv, SupIInv, Shapes, STypeOK
      <3>2. QED
        BY <1>1, <3>1 DEF SupIInv, Shapes, STypeOK
    <2>2. QED
      BY <1>1, <2>1 DEF SupIInv, Shapes
  <1>3. OneOperation' /\ BootIsAlone' /\ Covered' /\ Remembered' /\ StopsAreSound'
    BY <1>1 DEF SupIInv, OneOperation, BootIsAlone, Covered, Remembered, StopsAreSound
  <1>4. ASSUME UNCHANGED <<state, runId, controller>> PROVE SupIInv'
    <2>1. StartFacts' /\ WatchFacts'
      BY <1>1, <1>4 DEF SupIInv, StartFacts, WatchFacts
    <2>2. StateFacts'
      BY <1>1, <1>4 DEF SupIInv, StateFacts, ServingIsReal, NoServingDuringStop, Answered, Unknown,
           Clean
    <2>3. ReportFacts'
      BY <1>1, <1>4 DEF SupIInv, ReportFacts, EchoResult
    <2>4. QED
      BY <1>2, <1>3, <2>1, <2>2, <2>3 DEF SupIInv
  <1>5. QED
    BY <1>1, <1>2, <1>3, <1>4

(* A thread that is on goes to a point where it neither publishes nor submits. *)
LEMMA WatcherMoves ==
    ASSUME SupIInv, IInv', NEW s \in Submitters, spc[s] # "off" \/ idleRecovery # "none",
           NEW p \in WatchPoints \ {"probe", "publish", "submit"}, spc' = [spc EXCEPT ![s] = p],
           UNCHANGED <<diskVars, hostVars, memVars, threadVars, used, crashes>>,
           UNCHANGED <<commands, active, draining, exitFailure, exitFenced>>,
           UNCHANGED <<seen, misses, fate>>, readAt' \in {readAt, [readAt EXCEPT ![s] = None]}
    PROVE  /\ Shapes' /\ OneOperation' /\ BootIsAlone' /\ Covered' /\ Remembered' /\ StopsAreSound'
           /\ UNCHANGED <<marker, child, env, memMarker, configLock, healthStop, pc, ret, op, capability>>
           /\ (NoWatch => NoWatch') /\ pc["boot"] = "done"
           /\ UNCHANGED <<state, runId, controller>> => SupIInv'
  <1>1. pc["boot"] = "done" /\ Shapes /\ STypeOK
    BY DEF SupIInv, Shapes, BootIsAlone
  <1>2. /\ spc' \in [Submitters -> WatchPoints] /\ readAt' \in [Submitters -> Readings \cup {None}]
        /\ \A r \in Runs : spc'[r] = "publish" => seen'[r] \in Observations
        /\ \A u \in Submitters : spc'[u] = "submit" => readAt'[u] \in Readings
    BY <1>1 DEF Shapes, Submitters
  <1>3. NoWatch => NoWatch'
    BY <1>1 DEF NoWatch, Submitters, Shapes
  <1>4. /\ seen' \in [Runs -> Observations \cup {None}] /\ misses' \in [Runs -> 0..1]
        /\ fate' \in [Runs -> {"unknown", "failed", "stopping"}]
    BY <1>1 DEF Shapes, STypeOK
  <1>5. QED
    BY <1>1, <1>2, <1>3, <1>4, WatcherStep

LEMMA ProtectiveSubmitInv ==
    ASSUME SupIInv, IInv', NEW s \in Submitters, ProtectiveSubmit(s) PROVE SupIInv'
  <1>0. /\ readAt' = [readAt EXCEPT ![s] = None] /\ spc[s] = "submit"
        /\ UNCHANGED <<diskVars, hostVars, memVars, lifeLock, ret, graceError, bootMarker, seen,
                       misses, used, fate, crashes>>
    BY DEF ProtectiveSubmit
  <1>1. /\ pc["boot"] = "done" /\ readAt[s] \in Readings /\ Shapes
    BY <1>0 DEF SupIInv, Shapes, BootIsAlone
  <1>2. readAt' \in [Submitters -> Readings \cup {None}]
    BY <1>0, <1>1 DEF Shapes
  <1>3. ASSUME NEW c \in Commands \ DOMAIN commands, Begin(ProtectiveRequest(s, c), "stop", s),
               spc' = [spc EXCEPT ![s] = "execute"]
        PROVE  SupIInv'
    <2> DEFINE req == ProtectiveRequest(s, c)
    <2>1. req.cmd = c /\ req.ctrl = readAt[s].ctrl /\ req.kind = "internal"
      BY DEF ProtectiveRequest
    <2>2. readAt[s].ctrl \in Clients \cup {None} /\ s # "client" /\ "stop" \in Programs
      BY <1>1, SupervisorConstants DEF Readings, Submitters, Programs
    <2>3. /\ spc' \in [Submitters -> WatchPoints]
          /\ \A u \in Submitters : \/ spc'[u] = spc[u] /\ readAt'[u] = readAt[u]
                                   \/ spc'[u] = "execute"
      BY <1>0, <1>1, <1>3 DEF Shapes, WatchPoints
    <2> HIDE DEF req
    <2>4. QED
      BY <1>0, <1>1, <1>2, <1>3, <2>1, <2>2, <2>3, BeginInv DEF req
  <1>4. ASSUME spc' = [spc EXCEPT ![s] = "record"], UNCHANGED <<vars, op, pc>>
        PROVE  SupIInv'
    <2>1. UNCHANGED threadVars
      BY <1>0, <1>4 DEF threadVars
    <2>2. UNCHANGED <<state, runId, controller, commands, active, draining, exitFailure, exitFenced>>
      BY <1>4 DEF vars, metaVars, cacheVars, exitVars
    <2>3. "record" \in WatchPoints \ {"probe", "publish", "submit"}
      BY DEF WatchPoints
    <2>4. QED
      BY <1>0, <1>4, <2>1, <2>2, <2>3, WatcherMoves
  <1>5. QED
    BY <1>3, <1>4 DEF ProtectiveSubmit

LEMMA ProbeInv == ASSUME SupIInv, IInv', NEW r \in Runs, Probe(r) PROVE SupIInv'
  <1>0. /\ UNCHANGED <<vars, diskVars, hostVars, memVars, threadVars, readAt, used, fate, crashes>>
        /\ spc[r] = "probe" /\ r \in Submitters
    BY DEF Probe, Submitters
  <1>1. UNCHANGED <<state, runId, controller, commands, active, draining, exitFailure, exitFenced>>
    BY <1>0 DEF vars, metaVars, cacheVars, exitVars
  <1>2. CASE healthStop \/ child = None
    <2>1. spc' = [spc EXCEPT ![r] = "off"] /\ UNCHANGED <<seen, misses>>
      BY <1>2 DEF Probe
    <2>2. "off" \in WatchPoints \ {"probe", "publish", "submit"}
      BY DEF WatchPoints
    <2>3. QED
      BY <1>0, <1>1, <2>1, <2>2, WatcherMoves
  <1>3. CASE ~(healthStop \/ child = None)
    <2>1. PICK healthy \in BOOLEAN, timedOut \in BOOLEAN :
              /\ seen' = [seen EXCEPT ![r] =
                            [run |-> child.run, verdict |-> HealthVerdict(r, healthy, timedOut)]]
              /\ misses' = [misses EXCEPT ![r] = IF timedOut /\ @ = 0 THEN 1 ELSE 0]
              /\ spc' = [spc EXCEPT ![r] = "publish"]
      BY <1>3 DEF Probe
    <2>2. child \in Children /\ Shapes /\ STypeOK
      BY <1>3 DEF SupIInv, Shapes, STypeOK
    <2>3. [run |-> child.run, verdict |-> HealthVerdict(r, healthy, timedOut)] \in Observations
      BY <2>2 DEF Children, HealthVerdict, Observations
    <2>4. /\ seen' \in [Runs -> Observations \cup {None}] /\ seen'[r] \in Observations
          /\ \A q \in Runs : q # r => seen'[q] = seen[q]
      BY <2>1, <2>2, <2>3 DEF Shapes
    <2>5. misses' \in [Runs -> 0..1] /\ fate' \in [Runs -> {"unknown", "failed", "stopping"}]
      BY <1>0, <2>1, <2>2 DEF STypeOK
    <2>6. spc' \in [Submitters -> WatchPoints] /\ \A u \in Submitters : u # r => spc'[u] = spc[u]
      BY <2>1, <2>2 DEF Shapes, WatchPoints
    <2>7. \A q \in Runs : spc'[q] = "publish" => seen'[q] \in Observations
      BY <2>2, <2>4, <2>6 DEF Shapes, Submitters
    <2>8. spc'[r] # "submit"
      BY <1>0, <2>1, <2>2 DEF Shapes
    <2>9. \A u \in Submitters : spc'[u] = "submit" => readAt'[u] \in Readings
      BY <1>0, <2>2, <2>6, <2>8 DEF Shapes
    <2>10. ~NoWatch /\ readAt' \in [Submitters -> Readings \cup {None}]
      BY <1>0, <2>2 DEF NoWatch, Shapes
    <2>11. pc["boot"] = "done"
      BY <1>0 DEF SupIInv, BootIsAlone
    <2>12. QED
      BY <1>0, <1>1, <2>4, <2>5, <2>6, <2>7, <2>9, <2>10, <2>11, WatcherStep
  <1>4. QED
    BY <1>2, <1>3

LEMMA PublishInv == ASSUME SupIInv, IInv', NEW r \in Runs, Publish(r) PROVE SupIInv'
  <1>0. /\ UNCHANGED <<diskVars, hostVars, memVars, threadVars, misses, readAt, used, crashes>>
        /\ spc[r] = "publish" /\ r \in Submitters /\ seen' = [seen EXCEPT ![r] = None]
    BY DEF Publish, Submitters
  <1>1. /\ pc["boot"] = "done" /\ Shapes /\ STypeOK /\ seen[r] \in Observations /\ ~NoWatch
    BY <1>0 DEF SupIInv, Shapes, BootIsAlone, NoWatch
  <1>2. PICK p \in {"await", "probe", "off"} : spc' = [spc EXCEPT ![r] = p]
    BY DEF Publish
  <1>3. fate' \in [Runs -> {"unknown", "failed", "stopping"}]
    BY <1>1 DEF Publish, STypeOK
  <1>4. UNCHANGED <<runId, controller, commands, active, draining, exitFailure, exitFenced>>
    BY DEF Publish, UpdateHealthState, vars, metaVars, cacheVars, exitVars
  <1>5. /\ Shapes' /\ OneOperation' /\ BootIsAlone' /\ Covered' /\ Remembered' /\ StopsAreSound'
        /\ UNCHANGED <<marker, child, env, memMarker, configLock, healthStop, pc, ret, op, capability>>
        /\ state' = state => SupIInv'
    <2>1. /\ spc' \in [Submitters -> WatchPoints] /\ \A u \in Submitters : u # r => spc'[u] = spc[u]
          /\ spc'[r] \notin {"publish", "submit"}
      BY <1>0, <1>1, <1>2 DEF Shapes, WatchPoints
    <2>2. /\ seen' \in [Runs -> Observations \cup {None}] /\ \A q \in Runs : q # r => seen'[q] = seen[q]
      BY <1>0, <1>1 DEF Shapes
    <2>3. \A q \in Runs : spc'[q] = "publish" => seen'[q] \in Observations
      BY <1>1, <2>1, <2>2 DEF Shapes, Submitters
    <2>4. \A u \in Submitters : spc'[u] = "submit" => readAt'[u] \in Readings
      BY <1>0, <1>1, <2>1 DEF Shapes
    <2>5. misses' \in [Runs -> 0..1] /\ readAt' \in [Submitters -> Readings \cup {None}]
      BY <1>0, <1>1 DEF Shapes, STypeOK
    <2>6. QED
      BY <1>0, <1>1, <1>3, <1>4, <2>1, <2>2, <2>3, <2>4, <2>5, WatcherStep
  <1>6. CASE ~MayPublish(r)
    <2>1. state' = state
      BY <1>6 DEF Publish, vars, metaVars
    <2>2. QED
      BY <1>5, <2>1
  <1>7. CASE MayPublish(r)
    <2>1. state' \in Serving \cup {"failed"}
      <3>1. seen[r].verdict \in Serving \cup {"failed"}
        BY <1>1 DEF Observations, Serving
      <3>2. exitFailure = None
        BY DEF SupIInv, OneOperation
      <3>3. QED
        BY <1>7, <3>1, <3>2 DEF Publish, UpdateHealthState
    <2>2. ~healthStop /\ child # None /\ child.ready
      BY <1>1, <1>7 DEF MayPublish, SupIInv, WatchFacts
    <2>3. /\ pc["op"] \notin Stopping \cup Starting \cup {"nothing"}
          /\ ~(pc["op"] = "stop" /\ op.then = "blame")
      BY <1>1, <2>2 DEF SupIInv, StopsAreSound, StopFacts, StartFacts
    <2>4. StartFacts' /\ WatchFacts'
      BY <1>5, <2>2, <2>3 DEF StartFacts, WatchFacts, Starting
    <2>5. NeedsRecovery(marker) /\ child.run = marker.run /\ Answered
      BY <1>1, <2>2, <2>3 DEF SupIInv, Covered, StateFacts, Starting, Unknown
    <2>6. StateFacts'
      BY <1>4, <1>5, <2>1, <2>2, <2>3, <2>5 DEF StateFacts, ServingIsReal, NoServingDuringStop, Answered,
           Stopping, Serving
    <2>7. ReportFacts'
      BY <1>1, <1>4, <1>5, <2>2 DEF SupIInv, ReportFacts
    <2>8. QED
      BY <1>5, <2>4, <2>6, <2>7 DEF SupIInv
  <1>8. QED
    BY <1>6, <1>7

LEMMA AwaitIdleInv == ASSUME SupIInv, IInv', NEW r \in Runs, AwaitIdle(r) PROVE SupIInv'
  <1>0. /\ UNCHANGED <<diskVars, hostVars, memVars, threadVars, seen, misses, readAt, used, fate, crashes>>
        /\ spc[r] = "await" /\ r \in Submitters
    BY DEF AwaitIdle, Submitters
  <1>1. UNCHANGED <<state, runId, controller, commands, active, draining, exitFailure, exitFenced>>
    BY DEF AwaitIdle, RecoverWhenIdle, vars, metaVars, cacheVars, exitVars
  <1>2. PICK p \in {"read", "record"} : spc' = [spc EXCEPT ![r] = p]
    BY DEF AwaitIdle
  <1>3. p \in WatchPoints \ {"probe", "publish", "submit"}
    BY DEF WatchPoints
  <1>4. QED
    BY <1>0, <1>1, <1>2, <1>3, WatcherMoves

LEMMA ProtectiveReadInv ==
    ASSUME SupIInv, IInv', NEW s \in Submitters, ProtectiveRead(s) PROVE SupIInv'
  <1>0. /\ UNCHANGED <<vars, diskVars, hostVars, memVars, threadVars, seen, misses, used, fate, crashes>>
        /\ readAt' = [readAt EXCEPT ![s] = [ver |-> stateVersion, ctrl |-> controller]]
        /\ spc' = [spc EXCEPT ![s] = "submit"]
        /\ spc[s] = "read" \/ idleRecovery = "running"
    BY DEF ProtectiveRead
  <1>1. UNCHANGED <<state, runId, controller, commands, active, draining, exitFailure, exitFenced>>
    BY <1>0 DEF vars, metaVars, cacheVars, exitVars
  <1>2. pc["boot"] = "done" /\ Shapes /\ STypeOK
    BY <1>0 DEF SupIInv, BootIsAlone, Shapes
  <1>3. [ver |-> stateVersion, ctrl |-> controller] \in Readings
    <2>1. stateVersion \in Nat
      BY CoordinatorConstants DEF SupIInv, IInv, TypeOK
    <2>2. QED
      BY <1>2, <2>1 DEF STypeOK, TypeOK, Readings
  <1>4. /\ readAt' \in [Submitters -> Readings \cup {None}] /\ readAt'[s] \in Readings
        /\ \A u \in Submitters : u # s => readAt'[u] = readAt[u]
    BY <1>0, <1>2, <1>3 DEF Shapes
  <1>5. /\ spc' \in [Submitters -> WatchPoints] /\ \A u \in Submitters : u # s => spc'[u] = spc[u]
        /\ spc'[s] = "submit"
    BY <1>0, <1>2 DEF Shapes, WatchPoints
  <1>6. \A u \in Submitters : spc'[u] = "submit" => readAt'[u] \in Readings
    BY <1>2, <1>4, <1>5 DEF Shapes
  <1>7. \A r \in Runs : spc'[r] = "publish" => seen'[r] \in Observations
    BY <1>0, <1>2, <1>5 DEF Shapes, Submitters
  <1>8. NoWatch => NoWatch'
    BY <1>5 DEF NoWatch, Submitters
  <1>9. /\ seen' \in [Runs -> Observations \cup {None}] /\ misses' \in [Runs -> 0..1]
        /\ fate' \in [Runs -> {"unknown", "failed", "stopping"}]
    BY <1>0, <1>2 DEF Shapes, STypeOK
  <1>10. QED
    BY <1>0, <1>1, <1>2, <1>4, <1>5, <1>6, <1>7, <1>8, <1>9, WatcherStep

LEMMA ThreadEndsInv ==
    ASSUME SupIInv, IInv', NEW s \in Submitters, ThreadEnds(s) PROVE SupIInv'
  <1>0. /\ UNCHANGED <<diskVars, hostVars, memVars, threadVars, seen, misses, readAt, used, fate, crashes>>
        /\ spc[s] = "record" /\ spc' = [spc EXCEPT ![s] = "off"]
    BY DEF ThreadEnds
  <1>1. UNCHANGED <<commands, active, draining, exitFailure, exitFenced>>
    BY DEF ThreadEnds, IdleRecoveryEnds, RecordTerminalFailure, cacheVars, exitVars
  <1>2. /\ Shapes' /\ OneOperation' /\ BootIsAlone' /\ Covered' /\ Remembered' /\ StopsAreSound'
        /\ UNCHANGED <<marker, child, env, memMarker, configLock, healthStop, pc, ret, op, capability>>
        /\ (NoWatch => NoWatch') /\ pc["boot"] = "done"
        /\ UNCHANGED <<state, runId, controller>> => SupIInv'
    <2>1. "off" \in WatchPoints \ {"probe", "publish", "submit"}
      BY DEF WatchPoints
    <2>2. QED
      BY <1>0, <1>1, <2>1, WatcherMoves
  <1>3. CASE s = "idle"
    <2>1. UNCHANGED <<state, runId, controller>>
      BY <1>3 DEF ThreadEnds, IdleRecoveryEnds, metaVars
    <2>2. QED
      BY <1>2, <2>1
  <1>4. CASE s # "idle"
    <2>1. /\ state' = IF state = "stopped" THEN state ELSE "failed"
          /\ runId' = IF state = "stopped" THEN None ELSE runId
          /\ controller' = IF state = "stopped" THEN None ELSE controller
      BY <1>4 DEF ThreadEnds, RecordTerminalFailure
    <2>2. StartFacts' /\ WatchFacts'
      BY <1>2, <2>1 DEF SupIInv, StartFacts, WatchFacts, Serving
    <2>3. pc["op"] # "adopt" /\ NeedsRecovery(marker') => Answered' \/ Unknown'
      BY <1>2, <2>1 DEF SupIInv, StateFacts, StartFacts, Answered, Unknown, Clean, CleanIn
    <2>4. pc["op"] \notin {"prepare", "mark", "adopt"} /\ state' = "stopped" =>
            Clean' /\ runId' = None /\ controller' = None
      BY <1>2, <2>1 DEF SupIInv, StateFacts, Clean
    <2>5. StateFacts'
      BY <1>2, <2>1, <2>3, <2>4 DEF StateFacts, ServingIsReal, NoServingDuringStop, Serving
    <2>6. ReportFacts'
      <3>1. ASSUME pc["op"] \in {"finish", "blame"}
            PROVE  Reported(ret["op"], child, env, marker, memMarker, configLock, runId', controller')
        <4>1. Reported(ret["op"], child, env, marker, memMarker, configLock, runId, controller)
          BY <3>1 DEF SupIInv, ReportFacts
        <4>2. QED
          BY <2>1, <4>1 DEF Reported
      <3>2. state \in {"stopped", "failed"} => EchoResult' = EchoResult /\ state' = state
        BY <2>1 DEF EchoResult
      <3>3. QED
        BY <1>2, <3>1, <3>2 DEF SupIInv, ReportFacts
    <2>7. QED
      BY <1>2, <2>2, <2>5, <2>6 DEF SupIInv
  <1>5. QED
    BY <1>3, <1>4

----------------------------------------------------------------------------
(* An operation ends *)

LEMMA EndsStep ==
    ASSUME SupIInv, IInv', pc["op"] \in {"finish", "raise"}, Ends, active' = Without(active, op.cmd),
           UNCHANGED <<draining, exitFailure>>, exitFenced' \subseteq exitFenced
    PROVE  /\ Shapes' /\ OneOperation' /\ BootIsAlone' /\ Covered' /\ Remembered' /\ StopsAreSound'
           /\ StartFacts' /\ ReportFacts'
           /\ UNCHANGED <<marker, child, env, configLock, healthStop>> /\ (NoWatch => NoWatch')
           /\ pc'["op"] = "idle" /\ pc'["boot"] = "done" /\ pc["boot"] = "done"
  <1>1. /\ UNCHANGED <<marker, baseline, env, alive, child, memMarker, configLock, capability, observer,
                       healthStop, runFailed, lifeLock, graceError, bootMarker, seen, misses, readAt, used,
                       fate, crashes>>
        /\ op' = None /\ ret' = [ret EXCEPT !["op"] = None] /\ pc' = [pc EXCEPT !["op"] = "idle"]
        /\ spc' = IF op.by \in Submitters THEN [spc EXCEPT ![op.by] = "record"] ELSE spc
    BY DEF Ends, hostVars, diskVars, memVars, Goto
  <1>2. /\ op # None /\ op \in Operations /\ pc["boot"] = "done" /\ Shapes /\ STypeOK
        /\ DOMAIN active = {op.cmd} /\ ~draining /\ exitFailure = None /\ exitFenced = {}
    BY OpContext DEF SupIInv, Shapes, OneOperation
  <1>3. /\ pc'["op"] = "idle" /\ pc'["boot"] = "done" /\ pc' \in [Threads -> Points]
    BY <1>1, <1>2 DEF Shapes, Threads, Points
  <1>4. DOMAIN active' = {}
    BY <1>2 DEF Without
  <1>5. /\ spc' \in [Submitters -> WatchPoints]
        /\ \A s \in Submitters : spc'[s] \in {spc[s], "record"}
    BY <1>1, <1>2 DEF Shapes, WatchPoints
  <1>6. Shapes'
    <2>1. STypeOK'
      <3>1. TypeOK' /\ (op = None \/ op.cmd \in DOMAIN active)'
        BY <1>1 DEF IInv
      <3>2. ret' \in [Threads -> {None} \cup Results]
        BY <1>1, <1>2 DEF STypeOK
      <3>3. QED
        BY <1>1, <1>2, <3>1, <3>2 DEF STypeOK
    <2>2. \A r \in Runs : spc'[r] = "publish" => seen'[r] \in Observations
      BY <1>1, <1>2, <1>5 DEF Shapes, Submitters
    <2>3. \A s \in Submitters : spc'[s] = "submit" => readAt'[s] \in Readings
      BY <1>1, <1>2, <1>5 DEF Shapes
    <2>4. QED
      BY <1>1, <1>2, <1>3, <1>5, <2>1, <2>2, <2>3 DEF Shapes
  <1>7. OneOperation' /\ BootIsAlone'
    BY <1>1, <1>2, <1>3, <1>4 DEF OneOperation, BootIsAlone
  <1>8. Covered' /\ Remembered'
    BY <1>1, <1>2 DEF SupIInv, Covered, Remembered
  <1>9. StopsAreSound'
    BY <1>3 DEF StopsAreSound, StopFacts, Stopping
  <1>10. StartFacts' /\ ReportFacts'
    BY <1>3 DEF StartFacts, ReportFacts, Starting
  <1>11. NoWatch => NoWatch'
    BY <1>5 DEF NoWatch, Submitters
  <1>12. QED
    BY <1>1, <1>2, <1>3, <1>6, <1>7, <1>8, <1>9, <1>10, <1>11

LEMMA OpRaisesInv == ASSUME SupIInv, IInv', OpRaises PROVE SupIInv'
  <1>1. /\ pc["op"] = "raise" /\ Ends /\ active' = Without(active, op.cmd)
        /\ UNCHANGED <<state, runId, controller, draining, exitFailure, exitFenced>>
    BY DEF OpRaises, Fail, metaVars, exitVars
  <1>2. /\ Shapes' /\ OneOperation' /\ BootIsAlone' /\ Covered' /\ Remembered' /\ StopsAreSound'
        /\ StartFacts' /\ ReportFacts'
        /\ UNCHANGED <<marker, child, env, configLock, healthStop>> /\ (NoWatch => NoWatch')
        /\ pc'["op"] = "idle" /\ pc'["boot"] = "done" /\ pc["boot"] = "done"
    BY <1>1, EndsStep
  <1>3. WatchFacts'
    BY <1>1, <1>2 DEF SupIInv, WatchFacts
  <1>4. StateFacts'
    <2>1. Unknown => Unknown'
      BY <1>1, <1>2 DEF Unknown, StopPoints, Stopping, Ends, memVars
    <2>2. QED
      BY <1>1, <1>2, <2>1
      DEF SupIInv, StateFacts, ServingIsReal, NoServingDuringStop, Answered, Clean
  <1>5. QED
    BY <1>2, <1>3, <1>4 DEF SupIInv

LEMMA OpCompletesInv == ASSUME SupIInv, IInv', OpCompletes PROVE SupIInv'
  <1> DEFINE res == ret["op"]
  <1>1. /\ pc["op"] = "finish" /\ Ends /\ active' = Without(active, op.cmd)
        /\ UNCHANGED <<draining, exitFailure>> /\ exitFenced' \subseteq exitFenced
        /\ state' = NewState(res) /\ runId' = NewRun(res) /\ controller' = NewController(res)
    <2>1. Fenced(op.cmd, res) = res
      BY DEF Fenced, SupIInv, OneOperation
    <2>2. QED
      BY <2>1 DEF OpCompletes, Complete
  <1>2. /\ Shapes' /\ OneOperation' /\ BootIsAlone' /\ Covered' /\ Remembered' /\ StopsAreSound'
        /\ StartFacts' /\ ReportFacts'
        /\ UNCHANGED <<marker, child, env, configLock, healthStop>> /\ (NoWatch => NoWatch')
        /\ pc'["op"] = "idle" /\ pc'["boot"] = "done" /\ pc["boot"] = "done"
    BY <1>1, EndsStep
  <1>3. /\ Reported(res, child, env, marker, memMarker, configLock, runId, controller)
        /\ op.by # "client" => res \in StoppedResults \cup FailedResults
        /\ op.prog \in {"start", "restart", "stop"} => res \in LifecycleResults
        /\ op.prog = "verify" => res \in PlainResults
        /\ op.prog = "load" => res = EchoResult /\ state \in {"stopped", "failed"} /\ child = None
    BY <1>1 DEF SupIInv, ReportFacts
  <1>4. op.prog \in Programs /\ STypeOK
    BY <1>1, OpContext DEF Operations, SupIInv, Shapes
  <1>5. /\ NeedsRecovery(marker) => (Answered \/ Unknown) /\ marker \in Markers
        /\ state = "stopped" => Clean /\ runId = None /\ controller = None
        /\ state = "starting" => res.state = "healthy"
        /\ ServingIsReal
        /\ child # None => NeedsRecovery(marker) /\ child.run = marker.run
    BY <1>1, <1>2, <1>4 DEF SupIInv, StateFacts, Covered, STypeOK, NeedsRecovery
  (* The four kinds of result *)
  <1> DEFINE Nobodys == /\ runId' = None /\ controller' = None /\ state' = "failed"
                        /\ child = None /\ memMarker = None
             Good == /\ NeedsRecovery(marker) =>
                          (runId' = marker.run /\ controller' = marker.ctrl) \/ Nobodys
                     /\ state' = "stopped" => Clean /\ runId' = None /\ controller' = None
                     /\ state' # "starting"
                     /\ state' \in Serving => child # None /\ (state' = state \/ child.ready)
  <1>6. ASSUME res \in StartedResults \cup FailedResults PROVE Good
    <2>1. /\ res.state \in {"healthy", "failed"} /\ ~res.release /\ res.run \in Runs \cup {Absent}
          /\ res.ctrl \in Clients \cup {None}
      BY <1>6 DEF StartedResults, FailedResults
    <2>2. state' = res.state
      BY <1>1, <2>1, CoordinatorConstants DEF NewState, States
    <2>3. NeedsRecovery(marker) =>
            \/ /\ res.run = marker.run /\ res.ctrl = marker.ctrl
               /\ res.run \in Runs /\ res.ctrl \in Clients
            \/ res.run = Absent /\ res.ctrl = None /\ memMarker = None
      BY <1>3, <1>5, <1>6 DEF Reported, Markers
    <2>4. NeedsRecovery(marker) => (runId' = marker.run /\ controller' = marker.ctrl) \/ Nobodys
      <3>1. ASSUME NeedsRecovery(marker), res.run = marker.run, res.ctrl = marker.ctrl,
                   res.run \in Runs, res.ctrl \in Clients
            PROVE  runId' = marker.run /\ controller' = marker.ctrl
        BY <1>1, <2>1, <3>1, CoordinatorConstants DEF NewRun, NewController
      <3>2. ASSUME NeedsRecovery(marker), res.run = Absent, res.ctrl = None, memMarker = None
            PROVE  (runId' = marker.run /\ controller' = marker.ctrl) \/ Nobodys
        <4>1. runId' = runId /\ controller' = controller
          BY <1>1, <2>1, <3>2 DEF NewRun, NewController
        <4>2. CASE Answered
          BY <4>1, <4>2 DEF Answered
        <4>3. CASE Unknown
          <5>1. child = None /\ runId = None /\ controller = None
            BY <4>3 DEF Unknown
          <5>2. state' = "failed"
            BY <1>3, <2>1, <2>2, <5>1 DEF Reported
          <5>3. QED
            BY <3>2, <4>1, <5>1, <5>2
        <4>4. QED
          BY <1>5, <3>2, <4>2, <4>3
      <3>3. QED
        BY <2>3, <3>1, <3>2
    <2>5. state' = "healthy" => child # None /\ child.ready
      BY <1>3, <2>2 DEF Reported
    <2>6. QED
      BY <2>1, <2>2, <2>4, <2>5 DEF Serving
  <1>7. ASSUME res \in StoppedResults \cup NoopResults PROVE Good
    <2>1. /\ res.state = "stopped"
          /\ res \in StoppedResults => res.run = None /\ res.release
          /\ res \in NoopResults => res.run = Absent /\ ~res.release /\ res.ctrl = None
      BY <1>7 DEF StoppedResults, NoopResults
    <2>2. state' = "stopped"
      BY <1>1, <2>1, CoordinatorConstants DEF NewState, States
    <2>3. Clean
      BY <1>3, <2>1 DEF Reported, Clean
    <2>4. runId' = None /\ controller' = None
      <3>1. CASE res \in StoppedResults
        BY <1>1, <2>1, <3>1, CoordinatorConstants DEF NewRun, NewController
      <3>2. CASE res \in NoopResults
        <4>1. res.run # None
          BY <2>1, <3>2, CoordinatorConstants
        <4>2. runId = None /\ controller = None
          BY <1>3, <2>1, <4>1 DEF Reported
        <4>3. QED
          BY <1>1, <2>1, <3>2, <4>2 DEF NewRun, NewController
      <3>3. QED
        BY <1>7, <3>1, <3>2
    <2>5. QED
      BY <2>2, <2>3, <2>4 DEF Serving, Clean, CleanIn
  <1>8. ASSUME res \in PlainResults \/ (res = EchoResult /\ state \in {"stopped", "failed"})
        PROVE  Good
    <2>1. /\ res.state \in {Absent, state} /\ res.run = Absent /\ ~res.release /\ res.ctrl = None
          /\ res.state = Absent \/ state \in {"stopped", "failed"}
      <3>1. CASE res \in PlainResults
        BY <3>1 DEF PlainResults
      <3>2. CASE res = EchoResult /\ state \in {"stopped", "failed"}
        BY <3>2 DEF EchoResult, NoResult
      <3>3. QED
        BY <1>8, <3>1, <3>2
    <2>2. state' = state /\ runId' = runId /\ controller' = controller
      BY <1>1, <2>1 DEF NewState, NewRun, NewController
    <2>3. state # "starting"
      BY <1>5, <2>1, CoordinatorConstants DEF States
    <2>4. res \notin FailedResults
      <3>1. res.outcome = Absent
        BY <1>8 DEF PlainResults, EchoResult, NoResult
      <3>2. QED
        BY <3>1, CoordinatorConstants DEF FailedResults, Outcomes
    <2>5. NeedsRecovery(marker) => Answered \/ Nobodys
      BY <1>1, <1>2, <1>5, <2>2, <2>4 DEF Unknown, Stopping
    <2>6. QED
      BY <1>5, <2>2, <2>3, <2>5 DEF Answered, ServingIsReal, Serving
  <1>9. Good
    BY <1>3, <1>4, <1>6, <1>7, <1>8 DEF LifecycleResults, Programs
  <1> HIDE DEF res
  <1>10. WatchFacts'
    BY <1>2, <1>9 DEF SupIInv, WatchFacts
  <1>11. ServingIsReal'
    BY <1>2, <1>5, <1>9 DEF ServingIsReal, Serving
  <1>12. StateFacts'
    <2>1. memMarker' = memMarker
      BY <1>1 DEF Ends, memVars
    <2>2. Nobodys => Unknown'
      BY <1>2, <2>1 DEF Unknown, StopPoints, Stopping
    <2>3. QED
      BY <1>2, <1>9, <1>11, <2>2 DEF StateFacts, NoServingDuringStop, Answered, Clean
  <1>13. QED
    BY <1>2, <1>10, <1>12 DEF SupIInv

----------------------------------------------------------------------------
(* The startup recovery *)

LEMMA BootStep ==
    ASSUME SupIInv, IInv', pc["boot"] # "done", NEW p \in Points \ Stopping, p # "nothing", p # "recover",
           pc' = [pc EXCEPT !["boot"] = p],
           UNCHANGED <<diskVars, hostVars, child, configLock, capability, healthStop, runFailed, lifeLock,
                       graceError, op, watchVars, used, fate, crashes>>,
           UNCHANGED <<commands, active, draining, exitFailure, exitFenced, idleRecovery>>,
           memMarker' \in {None} \cup Markers, bootMarker' \in {None} \cup Markers, observer' \in BOOLEAN,
           ret' \in [Threads -> {None} \cup Results],
           NeedsRecovery(marker) =>
             \/ /\ bootMarker' = marker /\ memMarker' = marker
                /\ runId' = marker.run /\ controller' = marker.ctrl
             \/ /\ memMarker' = None /\ runId' = None /\ controller' = None
                /\ p = "corrupt" \/ (p = "done" /\ state' = "failed"),
           p = "corrupt" => bootMarker' = None /\ runId' = None /\ controller' = None,
           p # "done" => state' = "recovering" /\ p # "report",
           state' \in {"recovering", "stopped", "failed"},
           state' = "stopped" => CleanIn(child, env, marker, configLock)
                                 /\ runId' = None /\ controller' = None
    PROVE  SupIInv'
  <1>1. /\ UNCHANGED <<marker, baseline, env, alive, spc, seen, misses, readAt>>
    BY DEF hostVars, diskVars, watchVars
  <1>2. /\ op = None /\ pc["op"] = "idle" /\ child = None /\ Shapes /\ STypeOK
        /\ idleRecovery = "none" /\ (\A s \in Submitters : spc[s] = "off") /\ ~configLock
        /\ capability = "unverified"
    BY DEF SupIInv, BootIsAlone, OneOperation, Shapes
  <1>3. /\ pc'["op"] = "idle" /\ pc'["boot"] = p /\ pc' \in [Threads -> Points]
    BY <1>2 DEF Shapes, Threads
  <1>4. Shapes'
    <2>1. STypeOK'
      <3>1. TypeOK' /\ (op = None \/ op.cmd \in DOMAIN active)'
        BY <1>2 DEF IInv
      <3>2. QED
        BY <1>1, <1>2, <3>1 DEF STypeOK
    <2>2. QED
      BY <1>1, <1>2, <1>3, <2>1 DEF Shapes
  <1>5. OneOperation'
    BY <1>2, <1>3 DEF SupIInv, OneOperation
  <1>6. BootIsAlone'
    BY <1>1, <1>2, <1>3 DEF BootIsAlone
  <1>7. Covered' /\ Remembered'
    BY <1>1, <1>2 DEF SupIInv, Covered, Remembered
  <1>8. StopsAreSound'
    BY <1>3 DEF StopsAreSound, StopFacts, Stopping
  <1>9. StartFacts' /\ WatchFacts'
    BY <1>1, <1>2, <1>3 DEF StartFacts, Starting, WatchFacts, NoWatch, Submitters
  <1>10. StateFacts'
    <2>1. ServingIsReal' /\ NoServingDuringStop'
      BY <1>3 DEF ServingIsReal, NoServingDuringStop
    <2>2. NeedsRecovery(marker') => Answered' \/ Unknown'
      BY <1>1, <1>2, <1>3 DEF Answered, Unknown, StopPoints, Stopping
    <2>3. state' = "stopped" => Clean' /\ runId' = None /\ controller' = None
      BY <1>1 DEF Clean
    <2>4. QED
      BY <1>3, <2>1, <2>2, <2>3 DEF StateFacts
  <1>11. ReportFacts'
    BY <1>3 DEF ReportFacts
  <1>12. QED
    BY <1>4, <1>5, <1>6, <1>7, <1>8, <1>9, <1>10, <1>11 DEF SupIInv

(* What the recovery restores from the marker that it read *)
LEMMA RestoresMarker ==
    ASSUME SupIInv, NEW m \in Markers \cup {None}, NEW s, NEW reason, NEW outcome, NeedsRecovery(m),
           s # "stopped", RestoreResponsibility(MarkerRun(m), MarkerOwner(m), s, reason, outcome)
    PROVE  runId' = m.run /\ controller' = m.ctrl
  <1>1. MarkerRun(m) = m.run /\ MarkerOwner(m) = m.ctrl /\ m.run # Absent
    BY CoordinatorConstants DEF MarkerRun, MarkerOwner, NeedsRecovery, Markers
  <1>2. QED
    BY <1>1 DEF RestoreResponsibility

LEMMA BootInv == ASSUME SupIInv, IInv', Boot PROVE SupIInv'
  <1>1. Shapes /\ STypeOK /\ marker \in Markers \cup {None} /\ bootMarker \in Markers \cup {None}
    BY DEF SupIInv, Shapes, STypeOK
  <1>2. /\ "orphans" \in Points \ Stopping /\ "stop" \in Points \ Stopping /\ "done" \in Points \ Stopping
    BY DEF Points, Stopping
  <1>3. CASE BootReads
    <2>1. PICK corrupt \in {FALSE, marker # None} :
            LET found == IF corrupt THEN None ELSE marker
            IN  /\ bootMarker' = found /\ memMarker' = found /\ observer' = NeedsRecovery(found)
                /\ RestoreResponsibility(MarkerRun(found), MarkerOwner(found), "recovering", None, None)
                /\ pc' = [pc EXCEPT !["boot"] = IF corrupt THEN "corrupt" ELSE "orphans"]
      BY <1>3 DEF BootReads, Goto
    <2> DEFINE found == IF corrupt THEN None ELSE marker
               p == IF corrupt THEN "corrupt" ELSE "orphans"
    <2>2. /\ UNCHANGED <<diskVars, hostVars, child, configLock, capability, healthStop, runFailed, lifeLock,
                         ret, graceError, op, watchVars, used, fate, crashes>>
          /\ pc["boot"] = "recover"
      BY <1>3 DEF BootReads
    <2>3. /\ pc' = [pc EXCEPT !["boot"] = p]
          /\ bootMarker' = found /\ memMarker' = found /\ observer' = NeedsRecovery(found)
          /\ RestoreResponsibility(MarkerRun(found), MarkerOwner(found), "recovering", None, None)
      BY <2>1
    <2>4. /\ found \in {None} \cup Markers /\ p \in {"corrupt", "orphans"}
          /\ p = "corrupt" => found = None
          /\ found = marker \/ (found = None /\ p = "corrupt")
      BY <1>1
    <2> HIDE DEF found, p
    <2>5. /\ state' = "recovering"
          /\ UNCHANGED <<commands, active, draining, exitFailure, exitFenced, idleRecovery>>
      BY <2>3 DEF RestoreResponsibility, cacheVars, exitVars
    <2>6. NeedsRecovery(found) => runId' = found.run /\ controller' = found.ctrl
      BY <2>3, <2>4, RestoresMarker
    <2>7. found = None => runId' = None /\ controller' = None
      BY <2>2, <2>3 DEF SupIInv, BootIsAlone, RestoreResponsibility, MarkerRun, NeedsRecovery
    <2>8. observer' \in BOOLEAN
      BY <2>3, <2>4 DEF NeedsRecovery, Markers
    <2>9. /\ NeedsRecovery(marker) =>
             \/ /\ bootMarker' = marker /\ memMarker' = marker
                /\ runId' = marker.run /\ controller' = marker.ctrl
             \/ memMarker' = None /\ runId' = None /\ controller' = None /\ p = "corrupt"
          /\ p = "corrupt" => bootMarker' = None /\ runId' = None /\ controller' = None
      BY <2>3, <2>4, <2>6, <2>7
    <2>10. p \in Points \ Stopping /\ p \notin {"nothing", "recover", "done", "report"}
      BY <2>4 DEF Points, Stopping
    <2>11. ret' \in [Threads -> {None} \cup Results] /\ pc["boot"] # "done"
           /\ bootMarker' \in {None} \cup Markers /\ memMarker' \in {None} \cup Markers
      BY <1>1, <2>2, <2>3, <2>4 DEF STypeOK
    <2>12. QED
      BY <2>2, <2>3, <2>5, <2>8, <2>9, <2>10, <2>11, BootStep
  <1>4. CASE BootOrphans
    <2>1. /\ UNCHANGED <<diskVars, hostVars, memVars, lifeLock, ret, graceError, op, bootMarker,
                         watchVars, used, fate, crashes>>
          /\ pc["boot"] \in {"orphans", "corrupt"}
      BY <1>4 DEF BootOrphans
    <2>2. UNCHANGED <<child, memMarker, configLock, capability, observer, healthStop, runFailed>>
      BY <2>1 DEF memVars
    <2>3. /\ state = "recovering" /\ pc["op"] = "idle"
          /\ memMarker' \in {None} \cup Markers /\ bootMarker' \in {None} \cup Markers
          /\ observer' \in BOOLEAN /\ ret' \in [Threads -> {None} \cup Results]
      BY <1>1, <2>1, <2>2 DEF SupIInv, BootIsAlone, OneOperation, STypeOK
    <2>4. NeedsRecovery(marker) /\ pc["boot"] = "orphans" =>
            bootMarker = marker /\ memMarker = marker /\ Answered
      <3>1. ASSUME NeedsRecovery(marker), pc["boot"] = "orphans"
            PROVE  bootMarker = marker /\ memMarker = marker
        BY <3>1 DEF SupIInv, BootIsAlone
      <3>2. ASSUME NeedsRecovery(marker), pc["boot"] = "orphans" PROVE ~Unknown
        BY <2>3, <3>1, <3>2 DEF Unknown, Stopping, NeedsRecovery
      <3>3. QED
        BY <2>3, <3>1, <3>2 DEF SupIInv, StateFacts
    <2>5. pc["boot"] = "corrupt" =>
            /\ bootMarker = None /\ runId = None /\ controller = None
            /\ NeedsRecovery(marker) => memMarker = None
      <3>1. ASSUME pc["boot"] = "corrupt" PROVE bootMarker = None /\ runId = None /\ controller = None
        BY <3>1 DEF SupIInv, BootIsAlone
      <3>2. ASSUME pc["boot"] = "corrupt", NeedsRecovery(marker) PROVE memMarker = None
        <4>1. ~Answered
          BY <1>1, <3>1, <3>2, CoordinatorConstants DEF Answered, NeedsRecovery, Markers
        <4>2. Unknown
          BY <2>3, <3>2, <4>1 DEF SupIInv, StateFacts
        <4>3. QED
          BY <2>3, <4>2 DEF Unknown, Stopping
      <3>3. QED
        BY <3>1, <3>2
    <2>6. CASE pc["boot"] = "orphans" /\ UNCHANGED vars /\ Goto("boot", "stop")
      <3>1. UNCHANGED <<state, runId, controller, commands, active, draining, exitFailure, exitFenced,
                        idleRecovery>>
        BY <2>6 DEF vars, metaVars, cacheVars, exitVars
      <3>2. /\ NeedsRecovery(marker) => /\ bootMarker' = marker /\ memMarker' = marker
                                        /\ runId' = marker.run /\ controller' = marker.ctrl
            /\ pc' = [pc EXCEPT !["boot"] = "stop"] /\ pc["boot"] # "done"
        BY <2>1, <2>2, <2>4, <2>6, <3>1 DEF Answered, Goto
      <3>3. QED
        BY <1>2, <2>1, <2>2, <2>3, <3>1, <3>2, BootStep
    <2>7. CASE /\ RestoreResponsibility(MarkerRun(bootMarker), MarkerOwner(bootMarker), "failed",
                                        "stop_failed", None)
               /\ Goto("boot", "done")
      <3>1. /\ state' = "failed"
            /\ UNCHANGED <<commands, active, draining, exitFailure, exitFenced, idleRecovery>>
        BY <2>7 DEF RestoreResponsibility, cacheVars, exitVars
      <3>2. NeedsRecovery(bootMarker) => runId' = bootMarker.run /\ controller' = bootMarker.ctrl
        BY <1>1, <2>7, RestoresMarker
      <3>3. bootMarker = None => runId' = runId /\ controller' = controller
        BY <2>7 DEF RestoreResponsibility, MarkerRun, NeedsRecovery
      <3>4. NeedsRecovery(marker) =>
              \/ /\ bootMarker' = marker /\ memMarker' = marker
                 /\ runId' = marker.run /\ controller' = marker.ctrl
              \/ memMarker' = None /\ runId' = None /\ controller' = None
        BY <2>1, <2>2, <2>4, <2>5, <3>2, <3>3
      <3>5. pc' = [pc EXCEPT !["boot"] = "done"] /\ pc["boot"] # "done"
        BY <2>1, <2>7 DEF Goto
      <3>6. QED
        BY <1>2, <2>1, <2>2, <2>3, <3>1, <3>4, <3>5, BootStep
    <2>8. QED
      BY <1>4, <2>6, <2>7 DEF BootOrphans
  <1>5. CASE BootReports
    <2> DEFINE res == ret["boot"]
    <2>1. /\ UNCHANGED <<diskVars, hostVars, memVars, lifeLock, graceError, op, bootMarker, watchVars,
                         used, fate, crashes>>
          /\ pc["boot"] = "report" /\ pc' = [pc EXCEPT !["boot"] = "done"]
          /\ ret' = [ret EXCEPT !["boot"] = None]
          /\ RestoreResponsibility(MarkerRun(bootMarker), MarkerOwner(bootMarker), res.state, res.reason,
                IF res.outcome = Absent THEN None ELSE res.outcome)
      BY <1>5 DEF BootReports, Goto
    <2>2. UNCHANGED <<child, memMarker, configLock, capability, observer, healthStop, runFailed>>
      BY <2>1 DEF memVars
    <2>3. /\ NeedsRecovery(marker) => bootMarker = marker /\ memMarker = marker
          /\ res \in StoppedResults \cup FailedResults
          /\ Reported(res, child, env, marker, memMarker, configLock, runId, controller)
      BY <2>1 DEF SupIInv, BootIsAlone, ReportFacts
    <2>4. /\ state' = res.state /\ res.state \in {"stopped", "failed"}
          /\ res.state = "stopped" => runId' = None /\ controller' = None
          /\ UNCHANGED <<commands, active, draining, exitFailure, exitFenced, idleRecovery>>
      BY <2>1, <2>3, ResultKinds DEF RestoreResponsibility, cacheVars, exitVars
    <2>5. res.state = "stopped" => CleanIn(child, env, marker, configLock) /\ ~NeedsRecovery(marker)
      BY <2>3 DEF Reported, CleanIn
    <2>6. NeedsRecovery(marker) => runId' = marker.run /\ controller' = marker.ctrl
      BY <1>1, <2>1, <2>3, <2>5, RestoresMarker
    <2>7. ret' \in [Threads -> {None} \cup Results]
      BY <1>1, <2>1 DEF STypeOK
    <2> HIDE DEF res
    <2>8. QED
      BY <1>1, <1>2, <2>1, <2>2, <2>3, <2>4, <2>5, <2>6, <2>7, BootStep DEF STypeOK
  <1>6. QED
    BY <1>3, <1>4, <1>5 DEF Boot

----------------------------------------------------------------------------
(* The child dies, the service dies, nothing happens *)

LEMMA ChildDiesInv == ASSUME SupIInv, IInv', ChildDies PROVE SupIInv'
  <1>0. /\ UNCHANGED <<vars, diskVars, env, memVars, threadVars, watchVars, used, fate, crashes>>
        /\ alive' = FALSE
    BY DEF ChildDies
  <1>1. UNCHANGED <<marker, baseline, env, child, memMarker, configLock, capability, observer, healthStop,
                    runFailed, lifeLock, pc, ret, graceError, op, bootMarker, spc, seen, misses, readAt,
                    state, runId, controller, commands, active, draining, exitFailure, exitFenced,
                    idleRecovery>>
    BY <1>0 DEF diskVars, memVars, threadVars, watchVars, vars, metaVars, cacheVars, exitVars
  <1>2. Shapes'
    <2>1. STypeOK'
      <3>1. TypeOK' /\ (op = None \/ op.cmd \in DOMAIN active)' /\ alive' \in BOOLEAN
        BY <1>0, <1>1 DEF IInv, SupIInv, Shapes, STypeOK
      <3>2. QED
        BY <1>0, <1>1, <3>1 DEF SupIInv, Shapes, STypeOK
    <2>2. QED
      BY <1>1, <2>1 DEF SupIInv, Shapes
  <1>3. OneOperation' /\ BootIsAlone' /\ Remembered' /\ StopsAreSound'
    BY <1>1 DEF SupIInv, OneOperation, BootIsAlone, Remembered, StopsAreSound
  <1>4. Covered' /\ StartFacts' /\ WatchFacts'
    BY <1>0, <1>1 DEF SupIInv, Covered, StartFacts, WatchFacts, NoWatch
  <1>5. StateFacts' /\ ReportFacts'
    BY <1>1 DEF SupIInv, StateFacts, ServingIsReal, NoServingDuringStop, Answered, Unknown,
                Clean, ReportFacts, EchoResult
  <1>6. QED
    BY <1>2, <1>3, <1>4, <1>5 DEF SupIInv

LEMMA SupStutter == ASSUME SupIInv, IInv', UNCHANGED allVars PROVE SupIInv'
  <1>1. UNCHANGED <<marker, baseline, env, alive, child, memMarker, configLock, capability, observer,
                    healthStop, runFailed, lifeLock, pc, ret, graceError, op, bootMarker, spc, seen, misses,
                    readAt, used, fate, crashes,
                    state, runId, controller, commands, active, draining, exitFailure, exitFenced,
                    idleRecovery>>
    BY DEF allVars, supVars, hostVars, diskVars, memVars, threadVars, watchVars, vars, metaVars, cacheVars,
           exitVars
  <1>2. Shapes'
    <2>1. STypeOK'
      <3>1. TypeOK' /\ (op = None \/ op.cmd \in DOMAIN active)'
        BY <1>1 DEF IInv, SupIInv, Shapes, STypeOK
      <3>2. QED
        BY <1>1, <3>1 DEF SupIInv, Shapes, STypeOK
    <2>2. QED
      BY <1>1, <2>1 DEF SupIInv, Shapes
  <1>3. OneOperation' /\ BootIsAlone' /\ Remembered' /\ StopsAreSound'
    BY <1>1 DEF SupIInv, OneOperation, BootIsAlone, Remembered, StopsAreSound
  <1>4. Covered' /\ StartFacts' /\ WatchFacts'
    BY <1>1 DEF SupIInv, Covered, StartFacts, WatchFacts, NoWatch
  <1>5. StateFacts' /\ ReportFacts'
    BY <1>1 DEF SupIInv, StateFacts, ServingIsReal, NoServingDuringStop, Answered, Unknown,
                Clean, ReportFacts, EchoResult
  <1>6. QED
    BY <1>2, <1>3, <1>4, <1>5 DEF SupIInv

LEMMA CrashInv ==
    ASSUME STypeOK, env = "dirty" => NeedsRecovery(marker), IInv', Crash
    PROVE  SupIInv'
  <1>1. /\ UNCHANGED <<marker, baseline, env, used, fate>> /\ crashes' = crashes + 1
        /\ crashes < MaxCrashes
        /\ alive' = FALSE /\ child' = None /\ memMarker' = None /\ configLock' = FALSE
        /\ capability' = "unverified" /\ observer' = FALSE /\ healthStop' = FALSE /\ runFailed' = FALSE
        /\ lifeLock' = "free" /\ op' = None /\ bootMarker' = None
        /\ pc' = [t \in Threads |-> IF t = "boot" THEN "recover" ELSE "idle"]
        /\ ret' = [t \in Threads |-> None] /\ graceError' = [t \in Threads |-> FALSE]
        /\ spc' = [s \in Submitters |-> "off"] /\ seen' = [r \in Runs |-> None]
        /\ misses' = [r \in Runs |-> 0] /\ readAt' = [s \in Submitters |-> None]
    BY DEF Crash, diskVars
  <1>2. /\ state' = "recovering" /\ active' = <<>> /\ ~draining' /\ exitFailure' = None /\ exitFenced' = {}
        /\ idleRecovery' = "none" /\ runId' = None /\ controller' = None
    BY DEF Crash, NewInstance
  <1>3. /\ pc'["op"] = "idle" /\ pc'["boot"] = "recover" /\ pc' \in [Threads -> Points]
    BY <1>1 DEF Threads, Points
  <1>4. STypeOK'
    <2>1. FALSE \in BOOLEAN
      BY Zenon
    <2>2. crashes' \in 0..MaxCrashes
      BY <1>1, SupervisorConstants DEF STypeOK
    <2>3. TypeOK'
      BY DEF IInv
    <2>4. /\ ret' \in [Threads -> {None} \cup Results] /\ graceError' \in [Threads -> BOOLEAN]
          /\ misses' \in [Runs -> 0..1]
      BY <1>1, <2>1
    <2>5. QED
      BY <1>1, <2>1, <2>2, <2>3, <2>4 DEF STypeOK
  <1>5. Shapes'
    <2>1. spc' \in [Submitters -> WatchPoints] /\ \A s \in Submitters : spc'[s] = "off"
      BY <1>1 DEF WatchPoints
    <2>2. seen' \in [Runs -> Observations \cup {None}] /\ readAt' \in [Submitters -> Readings \cup {None}]
      BY <1>1
    <2>3. QED
      BY <1>1, <1>3, <1>4, <2>1, <2>2 DEF Shapes, Submitters
  <1>6. OneOperation'
    BY <1>1, <1>2, <1>3 DEF OneOperation
  <1>7. BootIsAlone' /\ Covered' /\ Remembered'
    BY <1>1, <1>2, <1>3 DEF BootIsAlone, Covered, Remembered
  <1>8. StopsAreSound'
    BY <1>3 DEF StopsAreSound, StopFacts, Stopping
  <1>9. StartFacts' /\ WatchFacts'
    BY <1>1, <1>3 DEF StartFacts, WatchFacts, Starting, NoWatch, Submitters
  <1>10. StateFacts' /\ ReportFacts'
    BY <1>2, <1>3 DEF StateFacts, ServingIsReal, NoServingDuringStop, ReportFacts
  <1>11. QED
    BY <1>5, <1>6, <1>7, <1>8, <1>9, <1>10 DEF SupIInv

LEMMA SupInit == SInit => SupIInv
  <1> SUFFICES ASSUME SInit PROVE SupIInv
    OBVIOUS
  <1>1. /\ IInv /\ state = "recovering" /\ active = <<>> /\ draining = FALSE
        /\ exitFailure = None /\ exitFenced = {} /\ idleRecovery = "none"
        /\ runId = None /\ controller = None
    BY InitInv DEF SInit, Init
  <1>2. /\ pc["op"] = "idle" /\ pc["boot"] = "recover" /\ pc \in [Threads -> Points]
    BY DEF SInit, Threads, Points
  <1>3. STypeOK
    <2>1. FALSE \in BOOLEAN /\ TRUE \in BOOLEAN
      BY Zenon
    <2>2. crashes \in 0..MaxCrashes
      BY SupervisorConstants DEF SInit
    <2>3. TypeOK
      BY <1>1 DEF IInv
    <2>4. /\ ret \in [Threads -> {None} \cup Results] /\ graceError \in [Threads -> BOOLEAN]
          /\ misses \in [Runs -> 0..1] /\ fate \in [Runs -> {"unknown", "failed", "stopping"}]
      BY <2>1 DEF SInit
    <2>5. /\ marker \in {None} \cup Markers /\ baseline \in BOOLEAN /\ env \in {"clean", "dirty"}
          /\ used \subseteq Runs
      <3>1. CASE marker = None /\ baseline = FALSE /\ env = "clean" /\ used = {}
        BY <2>1, <3>1
      <3>2. ASSUME NEW r \in Runs, NEW owner \in Clients, baseline = TRUE, env \in {"clean", "dirty"},
                   marker = [run |-> r, ctrl |-> owner, needs |-> TRUE], used = {r}
            PROVE  /\ marker \in {None} \cup Markers /\ baseline \in BOOLEAN
                   /\ env \in {"clean", "dirty"} /\ used \subseteq Runs
        BY <2>1, <3>2 DEF Markers
      <3>3. QED
        BY <3>1, <3>2 DEF SInit, FoundOnDisk
    <2>6. QED
      BY <2>1, <2>2, <2>3, <2>4, <2>5 DEF SInit, STypeOK
  <1>4. Shapes
    <2>1. spc \in [Submitters -> WatchPoints] /\ \A s \in Submitters : spc[s] = "off"
      BY DEF SInit, WatchPoints
    <2>2. seen \in [Runs -> Observations \cup {None}] /\ readAt \in [Submitters -> Readings \cup {None}]
      BY DEF SInit
    <2>3. QED
      BY <1>2, <1>3, <2>1, <2>2 DEF SInit, Shapes, Submitters
  <1>5. OneOperation
    BY <1>1, <1>2 DEF SInit, OneOperation
  <1>6. Covered
    <2>1. CASE marker = None /\ baseline = FALSE /\ env = "clean" /\ used = {}
      BY <2>1 DEF SInit, Covered
    <2>2. CASE env \in {"clean", "dirty"} /\ \E r \in Runs, owner \in Clients :
                                  marker = [run |-> r, ctrl |-> owner, needs |-> TRUE]
      <3>1. marker \in Markers /\ marker.needs = TRUE
        <4>1. TRUE \in BOOLEAN
          BY Zenon
        <4>2. QED
          BY <2>2, <4>1 DEF Markers
      <3>2. NeedsRecovery(marker)
        BY <3>1, SupervisorConstants DEF NeedsRecovery
      <3>3. QED
        BY <3>2 DEF SInit, Covered
    <2>3. QED
      BY <2>1, <2>2 DEF SInit, FoundOnDisk
  <1>7. BootIsAlone /\ Remembered
    BY <1>1, <1>2 DEF SInit, BootIsAlone, Remembered
  <1>8. StopsAreSound
    BY <1>2 DEF StopsAreSound, StopFacts, Stopping
  <1>9. StartFacts /\ WatchFacts
    BY <1>2 DEF SInit, StartFacts, WatchFacts, Starting, NoWatch, Submitters
  <1>10. StateFacts /\ ReportFacts
    BY <1>1, <1>2 DEF StateFacts, ServingIsReal, NoServingDuringStop, ReportFacts
  <1>11. QED
    BY <1>1, <1>4, <1>5, <1>6, <1>7, <1>8, <1>9, <1>10 DEF SupIInv

LEMMA SupNext == SupIInv /\ [SNext]_allVars => SupIInv'
  <1> SUFFICES ASSUME SupIInv, [SNext]_allVars PROVE SupIInv'
    OBVIOUS
  <1>1. IInv'
    <2>1. [Next]_vars /\ IInv
      BY CoordinatorStep DEF SupIInv
    <2>2. QED
      BY <2>1, NextInv
  <1>2. CASE ClientSubmits \/ Execute \/ OpCompletes \/ OpRaises
    BY <1>1, <1>2, ClientSubmitsInv, ExecuteInv, OpCompletesInv, OpRaisesInv
  <1>3. CASE Start
    BY <1>1, <1>3, StartGuardInv, StartPrepareInv, StartMarkInv, StartAdoptInv, StartSpawnInv,
       StartLaunchInv, StartWatchInv, StartBlameInv DEF Start
  <1>4. ASSUME NEW t \in Threads, Stop(t) PROVE SupIInv'
    BY <1>1, <1>4, StopEnterInv, StopNothingInv, StopRevokeInv, StopGraceInv, StopTerminateInv,
       StopSettleInv, StopFenceInv, StopRegisterInv, StopClearInv DEF Stop
  <1>5. ASSUME NEW r \in Runs, Watch(r) PROVE SupIInv'
    BY <1>1, <1>5, ProbeInv, PublishInv, AwaitIdleInv DEF Watch
  <1>6. ASSUME NEW s \in Submitters, Protect(s) PROVE SupIInv'
    BY <1>1, <1>6, ProtectiveReadInv, ProtectiveSubmitInv, ThreadEndsInv DEF Protect
  <1>7. CASE Boot \/ ChildDies \/ Crash
    <2>1. CASE Crash
      BY <1>1, <2>1, CrashInv DEF SupIInv, Shapes, Covered
    <2>2. QED
      BY <1>1, <1>7, <2>1, BootInv, ChildDiesInv
  <1>8. CASE UNCHANGED allVars
    BY <1>1, <1>8, SupStutter
  <1>9. QED
    BY <1>2, <1>3, <1>4, <1>5, <1>6, <1>7, <1>8 DEF SNext

----------------------------------------------------------------------------
(* The theorems *)

(* SupIInv is an invariant of the supervisor, its threads and its crashes. *)
THEOREM SupInductive == SSpec => []SupIInv
  <1>1. SInit => SupIInv
    BY SupInit
  <1>2. SupIInv /\ [SNext]_allVars => SupIInv'
    BY SupNext
  <1>3. QED
    BY <1>1, <1>2, PTL DEF SSpec

(* Whatever the supervisor's threads do, and however often the service dies, the
   coordinator they share is driven as module Coordinator says: what the first part
   proves of the coordinator holds inside the supervisor (coordination.py, submit). *)
THEOREM DrivesCoordinator == SSpec => ImplementsCoordinator
  <1>1. SInit => Init
    BY DEF SInit
  <1>2. SupIInv /\ [SNext]_allVars => [Next]_vars
    BY CoordinatorStep
  <1>3. QED
    BY <1>1, <1>2, SupInductive, PTL DEF SSpec, ImplementsCoordinator

(* At every moment a live child or a changed environment is covered by a marker on disk
   (RealSupervisor.start writes it first, stop clears it last). *)
THEOREM WriteAhead == SSpec => []ResponsibilityIsOnDisk
  <1>1. SupIInv => ResponsibilityIsOnDisk
    BY DEF SupIInv, Covered, ResponsibilityIsOnDisk
  <1>2. QED
    BY <1>1, SupInductive, PTL

(* When the service says 'stopped' and nothing executes, nothing of a run is left
   (RealSupervisor.stop, Coordinator.submit). *)
THEOREM StoppedMeansClean == SSpec => []StoppedIsClean
  <1>1. SupIInv => StoppedIsClean
    <2> SUFFICES ASSUME SupIInv, state = "stopped", Quiet
                 PROVE  /\ ~alive /\ child = None /\ env = "clean"
                        /\ ~NeedsRecovery(marker) /\ ~configLock
                        /\ runId = None /\ controller = None
      BY DEF StoppedIsClean
    <2>1. pc["op"] = "idle" /\ pc["boot"] = "done"
      BY DEF Quiet, SupIInv, OneOperation
    <2>2. Clean /\ runId = None /\ controller = None
      BY <2>1 DEF SupIInv, StateFacts
    <2>3. QED
      BY <2>2 DEF Clean, CleanIn, SupIInv, Covered
  <1>2. QED
    BY <1>1, SupInductive, PTL

(* The types; the service serves only a run that exists and none that a stop tears down;
   a run that is still answered for has its owner, unless this instance could not read
   whose it is, and then the service says that it failed (RealSupervisor._publish_health,
   stop, recover). *)
THEOREM SupervisorCorrect == SSpec => []SupInv
  <1>1. SupIInv => SupInv
    <2>1. SupIInv => STypeOK /\ ServingIsReal /\ NoServingDuringStop
      BY DEF SupIInv, Shapes, StateFacts
    <2>2. ASSUME SupIInv, Quiet, NeedsRecovery(marker)
          PROVE  \/ runId = marker.run /\ controller = marker.ctrl
                 \/ memMarker = None /\ state = "failed" /\ runId = None /\ controller = None
      <3>1. pc["op"] = "idle" /\ pc["boot"] = "done"
        BY <2>2 DEF Quiet, SupIInv, OneOperation
      <3>2. QED
        BY <2>2, <3>1 DEF SupIInv, StateFacts, Answered, Unknown, Stopping
    <2>3. QED
      BY <2>1, <2>2 DEF SupInv, ResponsibilityHasOwner
  <1>2. QED
    BY <1>1, SupInductive, PTL

----------------------------------------------------------------------------
(* The controlled exit.  While the coordinator does not drain, nothing but the supervisor  *)
(* acts and SupIInv holds.  From the request of an exit on, two stops may overlap: the     *)
(* worker's and that of the startup recovery.  DrainInv is what holds of both phases.      *)

CleanCore == ~alive /\ child = None /\ env = "clean" /\ ~NeedsRecovery(marker)
OnlyStops == op = None \/ op.prog = "stop"

(* The types, by the groups of variables that steps leave alone. *)
CoordinatorTypes == TypeOK /\ DOMAIN active \subseteq DOMAIN commands
Known ==
    /\ CoordinatorTypes
    /\ op = None \/ op.cmd \in DOMAIN active
DiskTypes ==
    /\ marker \in {None} \cup Markers /\ baseline \in BOOLEAN
    /\ env \in {"clean", "dirty"} /\ alive \in BOOLEAN
MemTypes ==
    /\ child \in {None} \cup Children /\ memMarker \in {None} \cup Markers
    /\ configLock \in BOOLEAN /\ capability \in {"unverified", "pending", "verified"}
    /\ observer \in BOOLEAN /\ healthStop \in BOOLEAN /\ runFailed \in BOOLEAN
ThreadTypes ==
    /\ lifeLock \in Threads \cup {"free"} /\ pc \in [Threads -> Points]
    /\ ret \in [Threads -> {None} \cup Results] /\ graceError \in [Threads -> BOOLEAN]
    /\ op \in ExitOperations \cup {None} /\ bootMarker \in {None} \cup Markers
WatchTypes ==
    /\ spc \in [Submitters -> WatchPoints] /\ seen \in [Runs -> Observations \cup {None}]
    /\ misses \in [Runs -> 0..1] /\ readAt \in [Submitters -> Readings \cup {None}]
    /\ \A r \in Runs : spc[r] = "publish" => seen[r] \in Observations
    /\ \A s \in Submitters : spc[s] = "submit" => readAt[s] \in Readings
HistoryTypes ==
    /\ used \subseteq Runs /\ fate \in [Runs -> {"unknown", "failed", "stopping"}]
    /\ crashes \in 0..MaxCrashes
DrainTypes == Known /\ DiskTypes /\ MemTypes /\ ThreadTypes /\ WatchTypes /\ HistoryTypes

(* The operation, and what it is about to report. *)
OpFacts ==
    /\ op = None <=> pc["op"] = "idle"
    /\ op # None =>
         /\ op.by # "client" => op.prog = "stop"
         /\ op.prog \in {"start", "restart"} => op.ctrl \in Clients
         /\ op.then # "return" => op.prog \in {"start", "restart"}
         /\ pc["op"] \in Starting \cup {"guard", "blame"} => op.prog \in {"start", "restart"}
    /\ pc["op"] \in {"finish", "blame"} =>
         ret["op"] \in Results /\ (ret["op"].state = "stopped" => CleanCore)

(* The startup recovery meets no operation but a stop. *)
BootFacts ==
    /\ pc["boot"] # "done" => OnlyStops /\ child = None
    /\ pc["boot"] = "report" =>
         /\ ret["boot"] \in Results /\ ret["boot"].state # Absent
         /\ ret["boot"].state = "stopped" => CleanCore

(* A child and a changed environment have a marker on disk. *)
CoverFacts ==
    /\ alive => child # None
    /\ child # None => NeedsRecovery(marker)
    /\ env = "dirty" => NeedsRecovery(marker)

(* What a stop at p relies on, whoever runs it and whoever else stops. *)
HaltFacts(p) ==
    /\ p \in Stopping => marker \in Markers
    /\ p \in {"settle", "fence", "register", "clear"} => child = None
    /\ p \in {"fence", "register", "clear"} => env = "clean"
    /\ p = "nothing" => child = None /\ ~NeedsRecovery(marker)

(* What a start relies on; and 'stopped' is clean, but for the start that has just
   marked its responsibility. *)
RunFacts ==
    /\ pc["op"] \in {"prepare", "mark"} => child = None /\ ~NeedsRecovery(marker)
    /\ pc["op"] \in {"adopt", "spawn"} => child = None
    /\ pc["op"] \in Starting \ {"prepare"} =>
         memMarker \in Markers /\ memMarker.needs /\ op.run \in Runs
    /\ pc["op"] \in {"adopt", "spawn", "launch", "watch"} => NeedsRecovery(marker)
    /\ state = "stopped" /\ pc["op"] # "adopt" => CleanCore

DrainFacts ==
    /\ OpFacts /\ BootFacts /\ CoverFacts /\ HaltFacts(pc["op"]) /\ HaltFacts(pc["boot"])
    /\ RunFacts
DrainInv == DrainTypes /\ DrainFacts

(* The lifecycle lock is held only inside start() and stop(). *)
LockFacts ==
    /\ lifeLock = "op" => pc["op"] \notin {"idle", "begin", "guard", "finish", "raise"}
    /\ lifeLock = "boot" => pc["boot"] \in Stopping \cup {"nothing"}

(* The worker: once its stop was accepted nothing but stops is, and what it has verified
   stays so. *)
WorkerTypes ==
    /\ worker \in {"off", "wait", "read", "submit", "converge", "check", "publish", "record",
                   "commit"}
    /\ exitRead \in {None} \cup [ver : 1..MaxVersion, ctrl : Clients \cup {None}]
    /\ converged \in {None} \cup States
    /\ ready \in BOOLEAN /\ committed \in BOOLEAN /\ expired \in BOOLEAN /\ complete \in BOOLEAN
    /\ attempts \in 0..MaxAttempts
    /\ phase \in {"idle", "draining", "succeeded", "failed"}
    /\ svc \in {"running", "stop_pending", "stopped"}
    /\ worker = "submit" => exitRead \in [ver : 1..MaxVersion, ctrl : Clients \cup {None}]
Verified ==
    worker \in {"publish", "record", "commit"} \/ committed = TRUE \/ svc # "running"
WorkerFacts ==
    /\ worker # "off" => draining = TRUE
    /\ op # None /\ op.by = "prestop" => worker = "converge"
    /\ worker \in {"converge", "check"} \/ Verified => draining = TRUE /\ OnlyStops
    /\ Verified => CleanCore

ExitIInv ==
    DrainInv /\ LockFacts /\ WorkerTypes /\ WorkerFacts /\ (draining = FALSE => SupIInv)

----------------------------------------------------------------------------
(* Between the two phases. *)

LEMMA DrainImpliesTypes == DrainTypes => STypeOK
  BY DEF DrainTypes, Known, CoordinatorTypes, DiskTypes, MemTypes, ThreadTypes, WatchTypes, HistoryTypes,
         STypeOK

LEMMA ExitImplies == ExitIInv => ExitInv
  <1> SUFFICES ASSUME ExitIInv PROVE ExitInv
    OBVIOUS
  <1>1. XTypeOK
    BY DrainImpliesTypes DEF ExitIInv, DrainInv, WorkerTypes, XTypeOK
  <1>2. ExitIsClean
    BY DEF ExitIInv, WorkerTypes, WorkerFacts, Verified, CleanCore, ExitIsClean, StopAuthorized
  <1> QED
    BY <1>1, <1>2 DEF ExitInv

(* The supervisor alone keeps what the draining phase starts from. *)
LEMMA SupervisorDrains == SupIInv => DrainInv
  <1> SUFFICES ASSUME SupIInv PROVE DrainInv
    OBVIOUS
  <1>1. op \in ExitOperations \cup {None}
    BY DEF SupIInv, Shapes, Operations, ExitOperations
  <1>2. Known
    BY DEF SupIInv, IInv, InFlightIsKnown, Shapes, STypeOK, Known, CoordinatorTypes
  <1>3. DrainTypes
    BY <1>1, <1>2 DEF SupIInv, Shapes, STypeOK, DrainTypes, DiskTypes, MemTypes, ThreadTypes,
       WatchTypes, HistoryTypes
  <1>4. CoverFacts
    BY DEF SupIInv, Covered, CoverFacts
  <1>5. ASSUME NEW m, NeedsRecovery(m) PROVE m # None
    BY <1>5 DEF NeedsRecovery
  <1>6. HaltFacts(pc["op"]) /\ HaltFacts(pc["boot"])
    BY <1>5 DEF SupIInv, StopsAreSound, StopFacts, HaltFacts, Shapes, STypeOK
  <1>7. BootFacts
    <2>1. pc["boot"] # "done" => OnlyStops /\ child = None
      BY DEF SupIInv, BootIsAlone, OnlyStops
    <2>2. ASSUME pc["boot"] = "report"
          PROVE  /\ ret["boot"] \in Results /\ ret["boot"].state # Absent
                 /\ ret["boot"].state = "stopped" => CleanCore
      <3>1. ret["boot"] \in StoppedResults \cup FailedResults
        BY <2>2 DEF SupIInv, ReportFacts
      <3>2. ret["boot"] \in Results /\ ret["boot"].state \in {"stopped", "failed"}
        BY <3>1, ResultTypes DEF StoppedResults, FailedResults
      <3>3. "stopped" # Absent /\ "failed" # Absent
        BY CoordinatorConstants DEF States
      <3>4. ret["boot"].state = "stopped" => CleanCore
        BY <2>2, <1>4 DEF SupIInv, ReportFacts, Reported, CleanIn, CleanCore, CoverFacts
      <3> QED
        BY <3>2, <3>3, <3>4
    <2> QED
      BY <2>1, <2>2 DEF BootFacts
  <1>8. OpFacts
    <2>1. /\ op = None <=> pc["op"] = "idle"
          /\ op # None =>
               /\ op.by # "client" => op.prog = "stop"
               /\ op.prog \in {"start", "restart"} => op.ctrl \in Clients
               /\ op.then # "return" => op.prog \in {"start", "restart"}
               /\ pc["op"] \in Starting \cup {"guard", "blame"} => op.prog \in {"start", "restart"}
      BY DEF SupIInv, OneOperation
    <2>2. ASSUME pc["op"] \in {"finish", "blame"}
          PROVE  ret["op"] \in Results /\ (ret["op"].state = "stopped" => CleanCore)
      <3>1. ret["op"].state = "stopped" => CleanCore
        BY <2>2, <1>4 DEF SupIInv, ReportFacts, Reported, CleanIn, CleanCore, CoverFacts
      <3>2. op # None /\ op.prog \in Programs
        BY <2>1, <2>2, <1>1 DEF ExitOperations
      <3>3. CASE op.prog \in {"start", "restart", "stop"}
        <4>1. ret["op"] \in LifecycleResults
          BY <2>2, <3>3 DEF SupIInv, ReportFacts
        <4>2. TRUE \in BOOLEAN /\ FALSE \in BOOLEAN
          BY Zenon
        <4>3. NoopResults \subseteq Results
          BY <4>2 DEF NoopResults, Results, States
        <4>4. StartedResults \subseteq Results
          BY <4>2 DEF StartedResults, Results, States
        <4> QED
          BY <4>1, <4>3, <4>4, ResultTypes, <3>1 DEF LifecycleResults
      <3>4. CASE op.prog = "verify"
        <4>1. ret["op"] \in PlainResults
          BY <2>2, <3>4 DEF SupIInv, ReportFacts
        <4>2. TRUE \in BOOLEAN /\ FALSE \in BOOLEAN
          BY Zenon
        <4>3. PlainResults \subseteq Results
          BY <4>2 DEF PlainResults, Results
        <4> QED
          BY <4>1, <4>3, <3>1
      <3>5. CASE op.prog = "load"
        <4>1. ret["op"] = EchoResult /\ state \in States
          BY <2>2, <3>5 DEF SupIInv, ReportFacts, Shapes, STypeOK, TypeOK
        <4>2. TRUE \in BOOLEAN /\ FALSE \in BOOLEAN
          BY Zenon
        <4>3. EchoResult \in Results
          BY <4>1, <4>2 DEF EchoResult, NoResult, Results
        <4> QED
          BY <4>1, <4>3, <3>1
      <3> QED
        BY <3>2, <3>3, <3>4, <3>5 DEF Programs
    <2> QED
      BY <2>1, <2>2 DEF OpFacts
  <1>9. RunFacts
    <2>1. /\ pc["op"] \in {"prepare", "mark"} => child = None /\ ~NeedsRecovery(marker)
          /\ pc["op"] \in {"adopt", "spawn"} => child = None
      BY DEF SupIInv, StartFacts
    <2>2. pc["op"] \in Starting \ {"prepare"} =>
            memMarker \in Markers /\ memMarker.needs /\ op.run \in Runs
      <3> SUFFICES ASSUME pc["op"] \in Starting \ {"prepare"}
                   PROVE  memMarker \in Markers /\ memMarker.needs /\ op.run \in Runs
        OBVIOUS
      <3>1. memMarker = [run |-> op.run, ctrl |-> op.ctrl, needs |-> TRUE] /\ op.run \in Runs
        BY DEF SupIInv, StartFacts
      <3>2. op.ctrl \in Clients
        BY <1>8 DEF OpFacts, Starting
      <3>3. TRUE \in BOOLEAN
        BY Zenon
      <3> QED
        BY <3>1, <3>2, <3>3 DEF Markers
    <2>3. pc["op"] \in {"adopt", "spawn", "launch", "watch"} => NeedsRecovery(marker)
      BY <2>2, SupervisorConstants DEF SupIInv, StartFacts, NeedsRecovery, Starting, Markers
    <2>4. ASSUME state = "stopped", pc["op"] # "adopt" PROVE CleanCore
      <3>1. CASE pc["op"] \in {"prepare", "mark"}
        BY <2>1, <3>1, <1>3, <1>4 DEF CoverFacts, CleanCore, DrainTypes, DiskTypes
      <3>2. CASE pc["op"] \notin {"prepare", "mark"}
        <4>1. pc["boot"] = "done"
          BY <2>4 DEF SupIInv, BootIsAlone
        <4>2. Clean
          BY <2>4, <3>2, <4>1 DEF SupIInv, StateFacts
        <4> QED
          BY <4>2, <1>4 DEF Clean, CleanIn, CleanCore, CoverFacts
      <3> QED
        BY <3>1, <3>2
    <2> QED
      BY <2>1, <2>2, <2>3, <2>4 DEF RunFacts
  <1> QED
    BY <1>3, <1>4, <1>6, <1>7, <1>8, <1>9 DEF DrainInv, DrainFacts

----------------------------------------------------------------------------
(* The coordinator's types, whatever result an operation that a failed exit has overtaken  *)
(* reports.                                                                                *)

LEMMA AcceptTypes ==
    ASSUME CoordinatorTypes, NEW req \in Requests, Accept(req)
    PROVE  CoordinatorTypes' /\ req.cmd \in DOMAIN active'
  <1> DEFINE e == [ctrl |-> req.ctrl, kind |-> req.kind, ident |-> req.ident,
                   status |-> "in_progress", pos |-> nextPos,
                   resp |-> [state |-> state, run |-> runId]]
  <1>1. /\ commands' = With(commands, req.cmd, e)
        /\ active' = With(active, req.cmd, req.scope)
        /\ nextPos' = nextPos + 1
    BY DEF Accept
  <1>2. e \in Entries
    BY DEF CoordinatorTypes, TypeOK, Entries, Responses, Requests
  <1> HIDE DEF e
  <1>3. /\ DOMAIN commands' = DOMAIN commands \cup {req.cmd}
        /\ \A x \in DOMAIN commands' : commands'[x] \in Entries
    BY <1>1, <1>2 DEF With, CoordinatorTypes, TypeOK
  <1>4. /\ DOMAIN active' = DOMAIN active \cup {req.cmd}
        /\ \A x \in DOMAIN active' : active'[x] \in Scopes
    BY <1>1 DEF With, CoordinatorTypes, TypeOK, Requests
  <1>5. stateVersion' \in 1..MaxVersion /\ nextPos' \in Nat
    BY CoordinatorConstants DEF CoordinatorTypes, TypeOK, Accept
  <1>6. DOMAIN commands' \subseteq Commands /\ DOMAIN active' \subseteq Commands
    BY <1>3, <1>4 DEF CoordinatorTypes, TypeOK, Requests
  <1>7. TypeOK'
    BY <1>3, <1>4, <1>5, <1>6 DEF CoordinatorTypes, TypeOK, Accept, exitVars
  <1> QED
    BY <1>3, <1>4, <1>7 DEF CoordinatorTypes

LEMMA FailTypes ==
    ASSUME CoordinatorTypes, NEW c \in DOMAIN active, Fail(c)
    PROVE  CoordinatorTypes'
  <1> DEFINE cs == [commands EXCEPT ![c].status = "failed"]
  <1>1. c \in DOMAIN commands /\ commands[c] \in Entries
    BY DEF CoordinatorTypes, TypeOK
  <1>2. DOMAIN cs = DOMAIN commands /\ \A x \in DOMAIN commands : cs[x] \in Entries
    BY <1>1 DEF CoordinatorTypes, TypeOK, Entries
  <1>3. /\ commands' = Evict(cs, active')
        /\ active' = Without(active, c)
    BY DEF Fail
  <1> HIDE DEF cs
  <1>4. /\ DOMAIN active' = DOMAIN active \ {c}
        /\ \A x \in DOMAIN active \ {c} : active'[x] = active[x]
    BY <1>3, WithoutFacts
  <1>5. /\ DOMAIN commands' \subseteq DOMAIN commands
        /\ DOMAIN commands \cap DOMAIN active' \subseteq DOMAIN commands'
        /\ \A x \in DOMAIN commands' : commands'[x] = cs[x]
    BY <1>2, <1>3, EvictFacts
  <1>6. UNCHANGED <<metaVars, nextPos, exitVars, accepted>>
        /\ idleRecovery' = DispatchIdleRecovery(active', idleRecovery)
    BY DEF Fail
  <1>7. \A x \in DOMAIN commands' : commands'[x] \in Entries
    BY <1>2, <1>5
  <1>8. idleRecovery' \in {"none", "retained", "running"}
    BY <1>6 DEF DispatchIdleRecovery, CoordinatorTypes, TypeOK
  <1>9. TypeOK'
    BY <1>4, <1>5, <1>6, <1>7, <1>8 DEF CoordinatorTypes, TypeOK, metaVars, exitVars
  <1> QED
    BY <1>4, <1>5, <1>9 DEF CoordinatorTypes

(* What phase 3 makes of a result: it is 'stopped' only if the result or the state was. *)
LEMMA NewTypes ==
    ASSUME TypeOK, NEW c, NEW result \in Results
    PROVE  /\ NewState(Fenced(c, result)) \in States
           /\ NewRun(Fenced(c, result)) \in Runs \cup {None}
           /\ NewController(Fenced(c, result)) \in Clients \cup {None}
           /\ NewReason(Fenced(c, result)) \in Reasons \cup {None}
           /\ NewOutcome(Fenced(c, result)) \in Outcomes \cup {None}
           /\ NewState(Fenced(c, result)) = "stopped" =>
                state = "stopped" \/ result.state = "stopped"
  <1> DEFINE res == Fenced(c, result)
  <1>1. /\ res \in Results
        /\ res.state = "stopped" => result.state = "stopped"
        /\ res.state = Absent => result.state = Absent
    <2>1. CASE c \notin exitFenced
      BY <2>1 DEF Fenced
    <2>2. CASE c \in exitFenced
      <3>1. FALSE \in BOOLEAN
        BY Zenon
      <3> QED
        BY <2>2, <3>1, CoordinatorConstants DEF Fenced, Results, States, TypeOK
    <2> QED
      BY <2>1, <2>2
  <1> HIDE DEF res
  <1> QED
    BY <1>1, CoordinatorConstants DEF NewState, NewRun, NewController, NewReason, NewOutcome,
       Results, TypeOK, States, Outcomes, res

LEMMA CompleteTypes ==
    ASSUME CoordinatorTypes, NEW c \in DOMAIN active, NEW result \in Results, Complete(c, result)
    PROVE  /\ CoordinatorTypes' /\ draining' = draining
           /\ state' = "stopped" => state = "stopped" \/ result.state = "stopped"
  <1> DEFINE act == Without(active, c)
             res == Fenced(c, result)
             left == Evict(commands, act)
             e == Entry(c, res, left)
             stored == With(left, c, e)
  <1>1. c \in DOMAIN commands /\ commands[c] \in Entries /\ nextPos \in Nat /\ TypeOK
    BY DEF CoordinatorTypes, TypeOK
  <1>2. /\ NewState(res) \in States /\ NewRun(res) \in Runs \cup {None}
        /\ NewController(res) \in Clients \cup {None}
        /\ NewReason(res) \in Reasons \cup {None}
        /\ NewOutcome(res) \in Outcomes \cup {None}
        /\ NewState(res) = "stopped" => state = "stopped" \/ result.state = "stopped"
    BY <1>1, NewTypes
  <1>3. /\ state' = NewState(res) /\ runId' = NewRun(res) /\ controller' = NewController(res)
        /\ failureReason' = NewReason(res) /\ lastOutcome' = NewOutcome(res)
        /\ active' = act /\ commands' = Evict(stored, act)
        /\ nextPos' = IF c \in DOMAIN left THEN nextPos ELSE nextPos + 1
        /\ exitFenced' = exitFenced \ {c}
        /\ idleRecovery' = DispatchIdleRecovery(active', idleRecovery)
        /\ UNCHANGED <<stateVersion, draining, exitFailure, accepted>>
    BY DEF Complete, Entry
  <1> HIDE DEF res
  <1>4. e \in Entries
    BY <1>1, <1>2 DEF Entry, Entries, Responses
  <1> HIDE DEF e
  <1>5. /\ DOMAIN act = DOMAIN active \ {c}
        /\ \A x \in DOMAIN active \ {c} : act[x] = active[x]
    BY DEF Without
  <1>6. /\ DOMAIN left \subseteq DOMAIN commands
        /\ DOMAIN commands \cap DOMAIN act \subseteq DOMAIN left
        /\ \A x \in DOMAIN left : left[x] = commands[x]
    BY <1>5, EvictFacts
  <1> HIDE DEF left
  <1>7. DOMAIN stored = DOMAIN left \cup {c} /\ \A x \in DOMAIN stored : stored[x] \in Entries
    BY <1>4, <1>6 DEF With, CoordinatorTypes, TypeOK
  <1> HIDE DEF act, stored
  <1>8. /\ DOMAIN commands' \subseteq DOMAIN stored
        /\ DOMAIN stored \cap DOMAIN act \subseteq DOMAIN commands'
        /\ \A x \in DOMAIN commands' : commands'[x] = stored[x]
    BY <1>3, EvictFacts
  <1>9. /\ DOMAIN commands' \subseteq Commands /\ \A x \in DOMAIN commands' : commands'[x] \in Entries
        /\ DOMAIN active' \subseteq Commands /\ \A x \in DOMAIN active' : active'[x] \in Scopes
        /\ DOMAIN active' \subseteq DOMAIN commands'
    BY <1>1, <1>3, <1>5, <1>6, <1>7, <1>8 DEF CoordinatorTypes, TypeOK
  <1>10. nextPos' \in Nat /\ idleRecovery' \in {"none", "retained", "running"}
    BY <1>1, <1>3 DEF DispatchIdleRecovery, TypeOK
  <1>11. TypeOK'
    BY <1>1, <1>2, <1>3, <1>9, <1>10 DEF TypeOK
  <1> QED
    BY <1>2, <1>3, <1>9, <1>11 DEF CoordinatorTypes

(* The methods that leave the cache alone; none of them says 'stopped' but the report of the
   startup recovery. *)
LEMMA ObserveTypes ==
    ASSUME CoordinatorTypes, NEW s \in States \ {"stopped"}, NEW r \in Reasons \cup {None},
           UpdateHealthState(s, r)
    PROVE  CoordinatorTypes' /\ draining' = draining /\ state' # "stopped" /\ active' = active
  BY DEF CoordinatorTypes, TypeOK, UpdateHealthState, cacheVars, exitVars, States

LEMMA RestoreTypes ==
    ASSUME CoordinatorTypes, NEW run \in Runs \cup {Absent}, NEW owner \in Clients \cup {None},
           NEW s \in States, NEW r \in Reasons \cup {None}, NEW o \in Outcomes \cup {None},
           RestoreResponsibility(run, owner, s, r, o)
    PROVE  CoordinatorTypes' /\ draining' = draining /\ state' = s /\ active' = active
  BY DEF CoordinatorTypes, TypeOK, RestoreResponsibility, cacheVars, exitVars

LEMMA RecordTypes ==
    ASSUME CoordinatorTypes, NEW r \in Reasons, RecordTerminalFailure(r)
    PROVE  /\ CoordinatorTypes' /\ draining' = draining /\ active' = active
           /\ state' = "stopped" => state = "stopped"
  BY DEF CoordinatorTypes, TypeOK, RecordTerminalFailure, cacheVars, exitVars, States, Outcomes

LEMMA IdleTypes ==
    ASSUME CoordinatorTypes, RecoverWhenIdle \/ IdleRecoveryEnds
    PROVE  CoordinatorTypes' /\ draining' = draining /\ state' = state /\ active' = active
  BY DEF CoordinatorTypes, TypeOK, RecoverWhenIdle, IdleRecoveryEnds, DispatchIdleRecovery, metaVars,
       cacheVars, exitVars

LEMMA FailExitTypes ==
    ASSUME CoordinatorTypes, FailControlledExit("exit_failed")
    PROVE  CoordinatorTypes' /\ draining' = TRUE /\ state' = "failed" /\ active' = active
  <1>1. "exit_failed" \in Reasons /\ TRUE \in BOOLEAN
    BY SupervisorConstants, Zenon
  <1> QED
    BY <1>1 DEF CoordinatorTypes, TypeOK, FailControlledExit, cacheVars, States

LEMMA StayTypes ==
    ASSUME CoordinatorTypes, UNCHANGED vars
    PROVE  CoordinatorTypes' /\ draining' = draining /\ state' = state /\ active' = active
  BY DEF CoordinatorTypes, TypeOK, vars, metaVars, cacheVars, exitVars

----------------------------------------------------------------------------
(* What every step of the supervisor in the draining phase does: it keeps DrainInv, and     *)
(* when only stops are about it keeps what is clean.                                        *)

Drains ==
    /\ DrainInv' /\ draining' = draining /\ crashes' = crashes
    /\ OnlyStops => OnlyStops' /\ (CleanCore => CleanCore')
    /\ op' # None /\ op'.by = "prestop" => op # None /\ op.by = "prestop"

(* The steps of the other threads. *)
LEMMA QuietStep ==
    ASSUME DrainInv, DrainTypes', draining' = draining, crashes' = crashes,
           UNCHANGED <<pc, op, ret, marker, memMarker, child, env>>,
           alive' = alive \/ alive' = FALSE, state' = "stopped" => state = "stopped"
    PROVE  Drains
  <1>1. CleanCore => CleanCore'
    BY DEF CleanCore
  <1>2. OpFacts' /\ BootFacts'
    BY <1>1 DEF DrainInv, DrainFacts, OpFacts, BootFacts, OnlyStops
  <1>3. CoverFacts' /\ HaltFacts(pc["op"])' /\ HaltFacts(pc["boot"])'
    BY DEF DrainInv, DrainFacts, CoverFacts, HaltFacts
  <1>4. RunFacts'
    BY <1>1 DEF DrainInv, DrainFacts, RunFacts
  <1> QED
    BY <1>1, <1>2, <1>3, <1>4 DEF Drains, DrainInv, DrainFacts, OnlyStops

LEMMA ProbeDrains == ASSUME DrainInv, NEW r \in Runs, Probe(r) PROVE Drains
  <1>1. /\ UNCHANGED <<vars, diskVars, hostVars, memVars, threadVars, readAt, used, fate, crashes>>
        /\ spc[r] = "probe"
    BY DEF Probe
  <1>2. Known' /\ draining' = draining /\ state' = state
    BY <1>1, StayTypes DEF DrainInv, DrainTypes, Known, threadVars
  <1>3. DiskTypes' /\ MemTypes' /\ ThreadTypes' /\ HistoryTypes'
    BY <1>1 DEF DrainInv, DrainTypes, DiskTypes, MemTypes, ThreadTypes, HistoryTypes, diskVars,
         hostVars, memVars, threadVars
  <1>4. WatchTypes'
    <2>1. CASE healthStop \/ child = None
      <3>1. spc' = [spc EXCEPT ![r] = "off"] /\ UNCHANGED <<seen, misses>>
        BY <2>1 DEF Probe
      <3> QED
        BY <1>1, <3>1 DEF DrainInv, DrainTypes, WatchTypes, WatchPoints, Submitters
    <2>2. CASE ~(healthStop \/ child = None)
      <3>1. PICK healthy \in BOOLEAN, timedOut \in BOOLEAN :
              /\ seen' = [seen EXCEPT ![r] =
                            [run |-> child.run, verdict |-> HealthVerdict(r, healthy, timedOut)]]
              /\ misses' = [misses EXCEPT ![r] = IF timedOut /\ @ = 0 THEN 1 ELSE 0]
              /\ spc' = [spc EXCEPT ![r] = "publish"]
        BY <2>2 DEF Probe
      <3> DEFINE o == [run |-> child.run, verdict |-> HealthVerdict(r, healthy, timedOut)]
      <3>2. child.run \in Runs
        BY <2>2 DEF DrainInv, DrainTypes, MemTypes, Children
      <3>3. o \in Observations
        BY <3>2 DEF HealthVerdict, Observations
      <3> HIDE DEF o
      <3>4. seen' = [seen EXCEPT ![r] = o]
        BY <3>1 DEF o
      <3>5. misses' \in [Runs -> 0..1]
        BY <3>1 DEF DrainInv, DrainTypes, WatchTypes
      <3> QED
        BY <1>1, <3>1, <3>3, <3>4, <3>5 DEF DrainInv, DrainTypes, WatchTypes, WatchPoints, Submitters
    <2> QED
      BY <2>1, <2>2
  <1> QED
    BY <1>1, <1>2, <1>3, <1>4, QuietStep
    DEF DrainTypes, diskVars, hostVars, memVars, threadVars

LEMMA PublishDrains == ASSUME DrainInv, NEW r \in Runs, Publish(r) PROVE Drains
  <1>1. /\ UNCHANGED <<diskVars, hostVars, memVars, threadVars, misses, readAt, used, crashes>>
        /\ spc[r] = "publish" /\ seen' = [seen EXCEPT ![r] = None]
    BY DEF Publish
  <1>2. /\ Known' /\ draining' = draining /\ (state' = "stopped" => state = "stopped")
        /\ \E p \in {"off", "await", "probe"} : spc' = [spc EXCEPT ![r] = p]
        /\ fate' \in [Runs -> {"unknown", "failed", "stopping"}]
    <2>1. CASE MayPublish(r)
      <3> DEFINE v == seen[r].verdict
      <3>1. /\ UpdateHealthState(v, IF v = "healthy" THEN None ELSE "probe_failed")
            /\ spc' = [spc EXCEPT ![r] = IF v = "failed" THEN "await" ELSE "probe"]
            /\ fate' = IF v = "failed" THEN [fate EXCEPT ![child.run] = "failed"] ELSE fate
        BY <2>1 DEF Publish
      <3>2. v \in States \ {"stopped"}
        BY <1>1 DEF DrainInv, DrainTypes, WatchTypes, Observations, States
      <3>3. (IF v = "healthy" THEN None ELSE "probe_failed") \in Reasons \cup {None}
        BY SupervisorConstants
      <3>4. CoordinatorTypes' /\ draining' = draining /\ state' # "stopped" /\ active' = active
        BY <3>1, <3>2, <3>3, ObserveTypes DEF DrainInv, DrainTypes, Known
      <3>5. child.run \in Runs
        BY <2>1 DEF MayPublish, DrainInv, DrainTypes, MemTypes, Children
      <3>6. fate' \in [Runs -> {"unknown", "failed", "stopping"}]
        BY <3>1, <3>5 DEF DrainInv, DrainTypes, HistoryTypes
      <3> QED
        BY <1>1, <3>1, <3>4, <3>6 DEF Known, DrainInv, DrainTypes, threadVars
    <2>2. CASE ~MayPublish(r)
      <3>1. spc' = [spc EXCEPT ![r] = "off"] /\ UNCHANGED <<vars, fate>>
        BY <2>2 DEF Publish
      <3> QED
        BY <1>1, <3>1, StayTypes DEF Known, DrainInv, DrainTypes, HistoryTypes, threadVars
    <2> QED
      BY <2>1, <2>2
  <1>3. DiskTypes' /\ MemTypes' /\ ThreadTypes' /\ HistoryTypes'
    BY <1>1, <1>2 DEF DrainInv, DrainTypes, DiskTypes, MemTypes, ThreadTypes, HistoryTypes, diskVars,
         hostVars, memVars, threadVars
  <1>4. WatchTypes'
    BY <1>1, <1>2 DEF DrainInv, DrainTypes, WatchTypes, WatchPoints, Submitters
  <1> QED
    BY <1>1, <1>2, <1>3, <1>4, QuietStep
    DEF DrainTypes, diskVars, hostVars, memVars, threadVars

(* A step that only moves a submitting thread, and what the coordinator knows. *)
LEMMA MoveDrains ==
    ASSUME DrainInv, NEW s \in Submitters, NEW p \in WatchPoints \ {"publish", "submit"},
           spc' = [spc EXCEPT ![s] = p], readAt' = readAt \/ readAt' = [readAt EXCEPT ![s] = None],
           CoordinatorTypes', draining' = draining, state' = "stopped" => state = "stopped",
           active' = active,
           UNCHANGED <<diskVars, hostVars, memVars, threadVars, seen, misses, used, fate, crashes>>
    PROVE  Drains
  <1>1. DiskTypes' /\ MemTypes' /\ ThreadTypes' /\ HistoryTypes'
    BY DEF DrainInv, DrainTypes, DiskTypes, MemTypes, ThreadTypes, HistoryTypes, diskVars, hostVars,
         memVars, threadVars
  <1>2. WatchTypes'
    BY DEF DrainInv, DrainTypes, WatchTypes, Submitters
  <1>3. Known'
    BY DEF DrainInv, DrainTypes, Known, threadVars
  <1> QED
    BY <1>1, <1>2, <1>3, QuietStep DEF DrainTypes, diskVars, hostVars, memVars, threadVars

LEMMA AwaitIdleDrains == ASSUME DrainInv, NEW r \in Runs, AwaitIdle(r) PROVE Drains
  <1>1. /\ UNCHANGED <<diskVars, hostVars, memVars, threadVars, seen, misses, readAt, used, fate, crashes>>
        /\ \/ spc' = [spc EXCEPT ![r] = "read"] /\ UNCHANGED vars
           \/ spc' = [spc EXCEPT ![r] = "record"] /\ RecoverWhenIdle
    BY DEF AwaitIdle
  <1>2. CoordinatorTypes' /\ draining' = draining /\ state' = state /\ active' = active
    BY <1>1, StayTypes, IdleTypes DEF DrainInv, DrainTypes, Known
  <1> QED
    BY <1>1, <1>2, MoveDrains DEF WatchPoints, Submitters

LEMMA ThreadEndsDrains == ASSUME DrainInv, NEW s \in Submitters, ThreadEnds(s) PROVE Drains
  <1>1. /\ UNCHANGED <<diskVars, hostVars, memVars, threadVars, seen, misses, readAt, used, fate, crashes>>
        /\ spc' = [spc EXCEPT ![s] = "off"]
        /\ IdleRecoveryEnds \/ RecordTerminalFailure("probe_failed")
    BY DEF ThreadEnds
  <1>2. "probe_failed" \in Reasons
    BY SupervisorConstants
  <1>3. /\ CoordinatorTypes' /\ draining' = draining /\ active' = active
        /\ state' = "stopped" => state = "stopped"
    BY <1>1, <1>2, RecordTypes, IdleTypes DEF DrainInv, DrainTypes, Known
  <1> QED
    BY <1>1, <1>3, MoveDrains DEF WatchPoints

LEMMA ProtectiveReadDrains == ASSUME DrainInv, NEW s \in Submitters, ProtectiveRead(s) PROVE Drains
  <1> DEFINE o == [ver |-> stateVersion, ctrl |-> controller]
  <1>1. /\ readAt' = [readAt EXCEPT ![s] = o] /\ spc' = [spc EXCEPT ![s] = "submit"]
        /\ UNCHANGED <<vars, diskVars, hostVars, memVars, threadVars, seen, misses, used, fate, crashes>>
    BY DEF ProtectiveRead
  <1>2. o \in Readings
    BY DEF DrainInv, DrainTypes, Known, CoordinatorTypes, TypeOK, Readings
  <1> HIDE DEF o
  <1>3. Known' /\ draining' = draining /\ state' = state
    BY <1>1, StayTypes DEF DrainInv, DrainTypes, Known, threadVars
  <1>4. DiskTypes' /\ MemTypes' /\ ThreadTypes' /\ HistoryTypes'
    BY <1>1 DEF DrainInv, DrainTypes, DiskTypes, MemTypes, ThreadTypes, HistoryTypes, diskVars,
         hostVars, memVars, threadVars
  <1>5. WatchTypes'
    BY <1>1, <1>2 DEF DrainInv, DrainTypes, WatchTypes, WatchPoints, Submitters
  <1> QED
    BY <1>1, <1>3, <1>4, <1>5, QuietStep DEF DrainTypes, diskVars, hostVars, memVars, threadVars

LEMMA ChildDiesDrains == ASSUME DrainInv, ChildDies PROVE Drains
  <1>1. /\ alive' = FALSE
        /\ UNCHANGED <<vars, diskVars, env, memVars, threadVars, watchVars, used, fate, crashes>>
    BY DEF ChildDies
  <1>2. Known' /\ draining' = draining /\ state' = state
    BY <1>1, StayTypes DEF DrainInv, DrainTypes, Known, threadVars
  <1>3. FALSE \in BOOLEAN
    BY Zenon
  <1>4. DiskTypes' /\ MemTypes' /\ ThreadTypes' /\ HistoryTypes'
    <2>1. DiskTypes'
      BY <1>1, <1>3 DEF DrainInv, DrainTypes, DiskTypes, diskVars
    <2>2. MemTypes'
      BY <1>1 DEF DrainInv, DrainTypes, MemTypes, memVars
    <2>3. ThreadTypes' /\ HistoryTypes'
      BY <1>1 DEF DrainInv, DrainTypes, ThreadTypes, HistoryTypes, threadVars
    <2> QED
      BY <2>1, <2>2, <2>3
  <1>5. WatchTypes'
    BY <1>1 DEF DrainInv, DrainTypes, WatchTypes, watchVars
  <1> QED
    BY <1>1, <1>2, <1>4, <1>5, QuietStep DEF DrainTypes, diskVars, memVars, threadVars

----------------------------------------------------------------------------
(* Every step of stop(), on either thread. *)

LEMMA StopDrains ==
    ASSUME DrainInv, DrainTypes', NEW t \in Threads, pc[t] \in StopPoints,
           NEW p \in Points, pc' = [pc EXCEPT ![t] = p], UNCHANGED op,
           draining' = draining, crashes' = crashes, state' = "stopped" => state = "stopped",
           child' = child \/ child' = None, env' = env \/ env' = "clean",
           alive' = alive \/ alive' = FALSE, alive' = TRUE => child' # None,
           \/ marker' = marker
           \/ marker' \in Markers /\ ~NeedsRecovery(marker') /\ child' = None /\ env' = "clean",
           memMarker' = memMarker \/ memMarker' = marker',
           \A u \in Threads : u # t => ret'[u] = ret[u],
           \/ p \in Stopping \cup {"nothing"} /\ HaltFacts(p)'
           \/ /\ p = AfterStop(t, ret'[t])
              /\ ret'[t] \in Results /\ ret'[t].state \in {"stopped", "failed"}
              /\ ret'[t].state = "stopped" => CleanCore'
    PROVE  Drains
  <1>1. /\ pc'[t] = p /\ \A u \in Threads : u # t => pc'[u] = pc[u]
        /\ "op" \in Threads /\ "boot" \in Threads
    BY DEF DrainInv, DrainTypes, ThreadTypes, Threads
  <1>2. CleanCore => CleanCore'
    BY DEF CleanCore, DrainTypes, DiskTypes
  <1>3. /\ t = "op" => /\ op # None /\ pc["op"] \notin Starting
                       /\ p \in Stopping \cup {"nothing", "blame", "guard", "finish"}
                       /\ p = "blame" => op.then = "blame"
                       /\ p = "guard" => op.then = "start"
        /\ t = "boot" => /\ OnlyStops /\ child = None /\ pc["boot"] # "done"
                         /\ p \in Stopping \cup {"nothing", "report"}
    BY DEF AfterStop, Stopping, Starting, StopPoints, DrainInv, DrainFacts, OpFacts, BootFacts, Threads
  <1>4. pc'["op"] \notin Starting /\ pc["op"] \notin Starting
    <2>1. CASE t = "op"
      BY <1>1, <1>3, <2>1 DEF Stopping, Starting
    <2>2. CASE t = "boot"
      BY <1>1, <1>3, <2>2 DEF DrainInv, DrainFacts, OpFacts, OnlyStops, Starting
    <2> QED
      BY <2>1, <2>2 DEF Threads
  <1>5. CoverFacts'
    BY DEF DrainInv, DrainFacts, CoverFacts, DrainTypes, DiskTypes
  <1>6. \A q \in Points : q \notin Stopping \cup {"nothing"} => HaltFacts(q)'
    BY DEF HaltFacts, Stopping
  <1>7. HaltFacts(p)'
    <2>1. CASE p = AfterStop(t, ret'[t])
      BY <2>1, <1>6 DEF AfterStop, Stopping
    <2> QED
      BY <2>1
  <1>8. ASSUME NEW q \in Points, HaltFacts(q) PROVE HaltFacts(q)'
    BY <1>8 DEF HaltFacts
  <1>9. HaltFacts(pc["op"])' /\ HaltFacts(pc["boot"])'
    <2>1. pc["op"] \in Points /\ pc["boot"] \in Points
      BY <1>1 DEF DrainInv, DrainTypes, ThreadTypes
    <2>3. CASE t = "op"
      BY <1>1, <1>7, <1>8, <2>1, <2>3 DEF DrainInv, DrainFacts, HaltFacts
    <2>4. CASE t = "boot"
      BY <1>1, <1>7, <1>8, <2>1, <2>4 DEF DrainInv, DrainFacts, HaltFacts
    <2> QED
      BY <2>3, <2>4 DEF Threads
  <1>10. RunFacts'
    <2>1. state' = "stopped" => CleanCore'
      BY <1>2, <1>4 DEF DrainInv, DrainFacts, RunFacts, Starting
    <2> QED
      BY <1>4, <2>1 DEF RunFacts, Starting
  <1>11. OpFacts'
    <2>1. CASE t = "op"
      <3>1. pc'["op"] = p /\ pc'["op"] # "idle" /\ op' = op
        BY <1>1, <1>3, <2>1 DEF Stopping
      <3>2. /\ op.by # "client" => op.prog = "stop"
            /\ op.prog \in {"start", "restart"} => op.ctrl \in Clients
            /\ op.then # "return" => op.prog \in {"start", "restart"}
            /\ p \in Starting \cup {"guard", "blame"} => op.prog \in {"start", "restart"}
        BY <1>3, <2>1, <3>1, <1>4 DEF DrainInv, DrainFacts, OpFacts
      <3>3. p \in {"finish", "blame"} =>
              ret'["op"] \in Results /\ (ret'["op"].state = "stopped" => CleanCore')
        BY <2>1 DEF Stopping
      <3> QED
        BY <1>3, <2>1, <3>1, <3>2, <3>3 DEF OpFacts
    <2>2. CASE t = "boot"
      BY <1>1, <1>2, <2>2 DEF DrainInv, DrainFacts, OpFacts
    <2> QED
      BY <2>1, <2>2 DEF Threads
  <1>12. BootFacts'
    <2>1. "stopped" # Absent /\ "failed" # Absent
      BY CoordinatorConstants DEF States
    <2>2. CASE t = "op"
      BY <1>1, <1>2, <2>2 DEF DrainInv, DrainFacts, BootFacts, OnlyStops
    <2>3. CASE t = "boot"
      BY <1>1, <1>3, <2>1, <2>3 DEF BootFacts, OnlyStops, Stopping
    <2> QED
      BY <2>2, <2>3 DEF Threads
  <1> QED
    BY <1>2, <1>5, <1>9, <1>10, <1>11, <1>12 DEF Drains, DrainInv, DrainFacts, OnlyStops

(* stop() returns. *)
LEMMA ReturnDrains ==
    ASSUME DrainInv, NEW t \in Threads, NEW res \in StoppedResults \cup FailedResults, Return(t, res)
    PROVE  /\ ThreadTypes' /\ runFailed' \in BOOLEAN /\ observer' \in BOOLEAN /\ UNCHANGED op
           /\ AfterStop(t, ret'[t]) \in Points
           /\ pc' = [pc EXCEPT ![t] = AfterStop(t, ret'[t])]
           /\ ret'[t] = res /\ ret'[t] \in Results /\ ret'[t].state \in {"stopped", "failed"}
           /\ \A u \in Threads : u # t => ret'[u] = ret[u]
  <1>1. res \in Results /\ res.state \in {"stopped", "failed"}
    BY ResultTypes, ResultKinds
  <1>2. /\ ret' = [ret EXCEPT ![t] = res] /\ pc' = [pc EXCEPT ![t] = AfterStop(t, res)]
        /\ lifeLock' = (IF t = "op" /\ op.then = "blame" THEN "op" ELSE "free")
        /\ graceError' = [graceError EXCEPT ![t] = FALSE]
        /\ runFailed' = (runFailed \/ res.outcome = "failed")
        /\ observer' \in {observer, FALSE}
        /\ UNCHANGED <<op, bootMarker>>
    BY DEF Return, Goto
  <1>3. AfterStop(t, res) \in Points
    BY DEF AfterStop, Points
  <1>4. FALSE \in BOOLEAN
    BY Zenon
  <1>5. ret' \in [Threads -> {None} \cup Results] /\ ret'[t] = res
        /\ \A u \in Threads : u # t => ret'[u] = ret[u]
    BY <1>1, <1>2 DEF DrainInv, DrainTypes, ThreadTypes
  <1>6. /\ pc' \in [Threads -> Points] /\ lifeLock' \in Threads \cup {"free"}
        /\ graceError' \in [Threads -> BOOLEAN]
    BY <1>2, <1>3, <1>4 DEF DrainInv, DrainTypes, ThreadTypes, Threads
  <1>7. ThreadTypes'
    BY <1>2, <1>5, <1>6 DEF DrainInv, DrainTypes, ThreadTypes
  <1>8. runFailed' \in BOOLEAN
    BY <1>2, Zenon
  <1>9. observer' \in BOOLEAN
    BY <1>2, <1>4 DEF DrainInv, DrainTypes, MemTypes
  <1> QED
    BY <1>1, <1>2, <1>3, <1>5, <1>7, <1>8, <1>9

LEMMA FailedReturn ==
    ASSUME DrainInv, NEW t \in Threads, NEW m \in Markers \cup {None},
           Return(t, FailedResult(m, "stop_failed"))
    PROVE  /\ ThreadTypes' /\ runFailed' \in BOOLEAN /\ observer' \in BOOLEAN /\ UNCHANGED op
           /\ AfterStop(t, ret'[t]) \in Points
           /\ pc' = [pc EXCEPT ![t] = AfterStop(t, ret'[t])]
           /\ ret'[t] \in Results /\ ret'[t].state = "failed"
           /\ \A u \in Threads : u # t => ret'[u] = ret[u]
  <1>1. FailedResult(m, "stop_failed") \in FailedResults
    BY ResultTypes
  <1>2. FailedResult(m, "stop_failed").state = "failed"
    BY <1>1, ResultKinds
  <1> QED
    BY <1>1, <1>2, ReturnDrains

(* stop() goes on at p. *)
LEMMA GoesOn ==
    ASSUME DrainInv, NEW t \in Threads, NEW p \in Points, Goto(t, p),
           UNCHANGED <<ret, op, bootMarker>>, graceError' \in [Threads -> BOOLEAN],
           lifeLock' \in {lifeLock, t, "free"}
    PROVE  ThreadTypes' /\ pc' = [pc EXCEPT ![t] = p]
  BY DEF DrainInv, DrainTypes, ThreadTypes, Goto

(* What a step of stop() leaves alone. *)
LEMMA StopRest ==
    ASSUME DrainInv, UNCHANGED <<vars, op, watchVars, used, fate, crashes>>
    PROVE  /\ Known' /\ WatchTypes' /\ HistoryTypes' /\ draining' = draining
           /\ state' = "stopped" => state = "stopped"
  <1>1. Known' /\ draining' = draining /\ state' = state
    BY StayTypes DEF DrainInv, DrainTypes, Known
  <1>2. WatchTypes' /\ HistoryTypes'
    BY DEF DrainInv, DrainTypes, WatchTypes, HistoryTypes, watchVars
  <1> QED
    BY <1>1, <1>2

LEMMA StopNothingDrains == ASSUME DrainInv, NEW t \in Threads, StopNothing(t) PROVE Drains
  <1>1. /\ UNCHANGED <<vars, diskVars, hostVars, child, memMarker, capability, healthStop, watchVars,
                       used, fate, crashes>>
        /\ pc[t] = "nothing"
    BY DEF StopNothing
  <1>2. memMarker \in Markers \cup {None} /\ runFailed \in BOOLEAN
    BY DEF DrainInv, DrainTypes, MemTypes
  <1>3. CleanCore
    BY <1>1 DEF DrainInv, DrainFacts, HaltFacts, CoverFacts, CleanCore, DrainTypes, DiskTypes, Threads
  <1>4. CleanCore'
    BY <1>1, <1>3 DEF CleanCore, diskVars, hostVars
  <1>5. configLock' \in BOOLEAN
    <2>1. FALSE \in BOOLEAN
      BY Zenon
    <2> QED
      BY <2>1 DEF StopNothing, DrainInv, DrainTypes, MemTypes
  <1>6. /\ ThreadTypes' /\ runFailed' \in BOOLEAN /\ observer' \in BOOLEAN /\ UNCHANGED op
        /\ AfterStop(t, ret'[t]) \in Points
        /\ pc' = [pc EXCEPT ![t] = AfterStop(t, ret'[t])]
        /\ ret'[t] \in Results /\ ret'[t].state \in {"stopped", "failed"}
        /\ \A u \in Threads : u # t => ret'[u] = ret[u]
    <2>1. CASE Return(t, StoppedResult(FALSE))
      <3>1. StoppedResult(FALSE) \in StoppedResults
        <4>1. FALSE \in BOOLEAN
          BY Zenon
        <4> QED
          BY <4>1, <1>2, ResultTypes
      <3> QED
        BY <2>1, <3>1, ReturnDrains
    <2>2. CASE Return(t, FailedResult(memMarker, "stop_failed"))
      BY <2>2, <1>2, FailedReturn
    <2> QED
      BY <2>1, <2>2 DEF StopNothing
  <1>7. Known' /\ WatchTypes' /\ HistoryTypes' /\ draining' = draining
        /\ (state' = "stopped" => state = "stopped")
    BY <1>1, <1>6, StopRest
  <1>8. DiskTypes' /\ MemTypes'
    BY <1>1, <1>5, <1>6 DEF DrainInv, DrainTypes, DiskTypes, MemTypes, diskVars, hostVars
  <1>9. DrainTypes'
    BY <1>6, <1>7, <1>8 DEF DrainTypes
  <1> QED
    BY <1>1, <1>3, <1>4, <1>6, <1>7, <1>9, StopDrains DEF StopPoints, diskVars, hostVars, CleanCore

(* stop() fails: the marker stays. *)
LEMMA FailedDrains ==
    ASSUME DrainInv, NEW t \in Threads, pc[t] \in StopPoints, NEW m \in Markers \cup {None},
           Return(t, FailedResult(m, "stop_failed")), UNCHANGED diskVars,
           configLock' \in BOOLEAN, healthStop' \in BOOLEAN,
           capability' \in {"unverified", "pending", "verified"},
           Known', WatchTypes', HistoryTypes', draining' = draining, crashes' = crashes,
           state' = "stopped" => state = "stopped",
           child' = child \/ child' = None, env' = env \/ env' = "clean",
           alive' = alive \/ alive' = FALSE, alive' = TRUE => child' # None,
           memMarker' = memMarker \/ memMarker' = marker'
    PROVE  Drains
  <1>1. /\ ThreadTypes' /\ runFailed' \in BOOLEAN /\ observer' \in BOOLEAN /\ UNCHANGED op
        /\ AfterStop(t, ret'[t]) \in Points
        /\ pc' = [pc EXCEPT ![t] = AfterStop(t, ret'[t])]
        /\ ret'[t] \in Results /\ ret'[t].state = "failed"
        /\ \A u \in Threads : u # t => ret'[u] = ret[u]
    BY FailedReturn
  <1>2. DiskTypes'
    <2>1. FALSE \in BOOLEAN
      BY Zenon
    <2> QED
      BY <2>1 DEF DrainInv, DrainTypes, DiskTypes, diskVars
  <1>3. MemTypes'
    BY <1>1, <1>2 DEF DrainInv, DrainTypes, MemTypes, DiskTypes
  <1>4. DrainTypes'
    BY <1>1, <1>2, <1>3 DEF DrainTypes
  <1> QED
    BY <1>1, <1>4, StopDrains DEF diskVars

(* stop() goes on, the marker stays. *)
LEMMA GoingDrains ==
    ASSUME DrainInv, NEW t \in Threads, pc[t] \in StopPoints, NEW p \in Stopping \cup {"nothing"},
           Goto(t, p), HaltFacts(p)', UNCHANGED <<diskVars, ret, op, bootMarker>>,
           graceError' \in [Threads -> BOOLEAN], lifeLock' \in {lifeLock, t, "free"},
           configLock' \in BOOLEAN, healthStop' \in BOOLEAN, runFailed' \in BOOLEAN,
           observer' \in BOOLEAN, capability' \in {"unverified", "pending", "verified"},
           Known', WatchTypes', HistoryTypes', draining' = draining, crashes' = crashes,
           state' = "stopped" => state = "stopped",
           child' = child \/ child' = None, env' = env \/ env' = "clean",
           alive' = alive \/ alive' = FALSE, alive' = TRUE => child' # None,
           memMarker' = memMarker \/ memMarker' = marker'
    PROVE  Drains
  <1>1. p \in Points
    BY DEF Points, Stopping
  <1>2. ThreadTypes' /\ pc' = [pc EXCEPT ![t] = p]
    BY <1>1, GoesOn
  <1>3. DiskTypes'
    <2>1. FALSE \in BOOLEAN
      BY Zenon
    <2> QED
      BY <2>1 DEF DrainInv, DrainTypes, DiskTypes, diskVars
  <1>4. MemTypes'
    BY <1>3 DEF DrainInv, DrainTypes, MemTypes, DiskTypes
  <1>5. DrainTypes'
    BY <1>2, <1>3, <1>4 DEF DrainTypes
  <1>6. \A u \in Threads : u # t => ret'[u] = ret[u]
    OBVIOUS
  <1> QED
    BY <1>1, <1>2, <1>5, <1>6, StopDrains DEF diskVars

(* What holds of a thread that is at a point of stop(). *)
LEMMA HaltContext ==
    ASSUME DrainInv, NEW t \in Threads
    PROVE  /\ HaltFacts(pc[t]) /\ pc[t] \in Points
           /\ memMarker \in Markers \cup {None} /\ marker \in Markers \cup {None}
           /\ configLock \in BOOLEAN /\ healthStop \in BOOLEAN /\ runFailed \in BOOLEAN
           /\ observer \in BOOLEAN /\ capability \in {"unverified", "pending", "verified"}
           /\ alive \in BOOLEAN /\ (alive = TRUE => child # None)
           /\ graceError \in [Threads -> BOOLEAN]
  BY DEF DrainInv, DrainFacts, DrainTypes, DiskTypes, MemTypes, ThreadTypes, CoverFacts, Threads

LEMMA StopRegisterDrains == ASSUME DrainInv, NEW t \in Threads, StopRegister(t) PROVE Drains
  <1>1. /\ UNCHANGED <<vars, diskVars, hostVars, child, memMarker, configLock, capability, healthStop,
                       watchVars, used, fate, crashes>>
        /\ pc[t] = "register"
    BY DEF StopRegister
  <1>2. UNCHANGED op
    BY DEF StopRegister, Return
  <1>3. Known' /\ WatchTypes' /\ HistoryTypes' /\ draining' = draining
        /\ (state' = "stopped" => state = "stopped")
    BY <1>1, <1>2, StopRest
  <1>4. CASE Return(t, FailedResult(memMarker, "stop_failed"))
    BY <1>1, <1>3, <1>4, HaltContext, FailedDrains DEF StopPoints, Stopping, hostVars
  <1>5. CASE /\ Goto(t, "clear") /\ lifeLock' = t
             /\ UNCHANGED <<ret, graceError, runFailed, observer, op, bootMarker>>
    <2>1. HaltFacts("clear")'
      BY <1>1, HaltContext DEF HaltFacts, Stopping, diskVars, hostVars
    <2> QED
      BY <1>1, <1>3, <1>5, <2>1, HaltContext, GoingDrains DEF StopPoints, Stopping, hostVars
  <1> QED
    BY <1>4, <1>5 DEF StopRegister

LEMMA StopFenceDrains == ASSUME DrainInv, NEW t \in Threads, StopFence(t) PROVE Drains
  <1>1. /\ UNCHANGED <<vars, diskVars, hostVars, child, memMarker, configLock, capability, healthStop,
                       watchVars, used, fate, crashes>>
        /\ pc[t] = "fence"
    BY DEF StopFence
  <1>2. UNCHANGED op
    BY DEF StopFence, Return
  <1>3. Known' /\ WatchTypes' /\ HistoryTypes' /\ draining' = draining
        /\ (state' = "stopped" => state = "stopped")
    BY <1>1, <1>2, StopRest
  <1>4. CASE Return(t, FailedResult(memMarker, "stop_failed"))
    BY <1>1, <1>3, <1>4, HaltContext, FailedDrains DEF StopPoints, Stopping, hostVars
  <1>5. CASE /\ Goto(t, "register") /\ lifeLock' = "free"
             /\ UNCHANGED <<ret, graceError, runFailed, observer, op, bootMarker>>
    <2>1. HaltFacts("register")'
      BY <1>1, HaltContext DEF HaltFacts, Stopping, diskVars, hostVars
    <2> QED
      BY <1>1, <1>3, <1>5, <2>1, HaltContext, GoingDrains DEF StopPoints, Stopping, hostVars
  <1> QED
    BY <1>4, <1>5 DEF StopFence

LEMMA StopSettleDrains == ASSUME DrainInv, NEW t \in Threads, StopSettle(t) PROVE Drains
  <1>1. /\ UNCHANGED <<vars, diskVars, alive, child, memMarker, configLock, capability, healthStop,
                       watchVars, used, fate, crashes>>
        /\ pc[t] = "settle"
    BY DEF StopSettle
  <1>2. UNCHANGED op
    BY DEF StopSettle, Return
  <1>3. Known' /\ WatchTypes' /\ HistoryTypes' /\ draining' = draining
        /\ (state' = "stopped" => state = "stopped")
    BY <1>1, <1>2, StopRest
  <1>4. CASE /\ env' \in {env, "clean"}
             /\ Return(t, FailedResult(memMarker, "stop_failed"))
    BY <1>1, <1>3, <1>4, HaltContext, FailedDrains DEF StopPoints, Stopping
  <1>5. CASE /\ env' = "clean" /\ observer' = FALSE
             /\ \E incomplete \in BOOLEAN : runFailed' = (runFailed \/ incomplete)
             /\ Goto(t, "fence") /\ lifeLock' = t
             /\ UNCHANGED <<ret, graceError, op, bootMarker>>
    <2>1. HaltFacts("fence")'
      BY <1>1, <1>5, HaltContext DEF HaltFacts, Stopping, diskVars
    <2>2. runFailed' \in BOOLEAN
      BY <1>5, Zenon
    <2>3. observer' \in BOOLEAN
      BY <1>5, Zenon
    <2> QED
      BY <1>1, <1>3, <1>5, <2>1, <2>2, <2>3, HaltContext, GoingDrains DEF StopPoints, Stopping
  <1> QED
    BY <1>4, <1>5 DEF StopSettle

LEMMA StopTerminateDrains == ASSUME DrainInv, NEW t \in Threads, StopTerminate(t) PROVE Drains
  <1>1. /\ UNCHANGED <<vars, diskVars, env, memMarker, configLock, capability, healthStop,
                       watchVars, used, fate, crashes>>
        /\ pc[t] = "terminate"
    BY DEF StopTerminate
  <1>2. UNCHANGED op
    BY DEF StopTerminate, Return
  <1>3. Known' /\ WatchTypes' /\ HistoryTypes' /\ draining' = draining
        /\ (state' = "stopped" => state = "stopped")
    BY <1>1, <1>2, StopRest
  <1>4. CASE /\ alive' \in {alive, FALSE} /\ child' = child
             /\ Return(t, FailedResult(memMarker, "stop_failed"))
    BY <1>1, <1>3, <1>4, HaltContext, FailedDrains DEF StopPoints, Stopping
  <1>5. CASE /\ alive' = FALSE /\ child' = None
             /\ Goto(t, "settle") /\ lifeLock' = "free"
             /\ UNCHANGED <<ret, graceError, runFailed, observer, op, bootMarker>>
    <2>1. HaltFacts("settle")'
      BY <1>1, <1>5, HaltContext DEF HaltFacts, Stopping, diskVars
    <2> QED
      BY <1>1, <1>3, <1>5, <2>1, HaltContext, GoingDrains DEF StopPoints, Stopping
  <1> QED
    BY <1>4, <1>5 DEF StopTerminate

LEMMA StopRevokeDrains == ASSUME DrainInv, NEW t \in Threads, StopRevoke(t) PROVE Drains
  <1>1. /\ UNCHANGED <<diskVars, hostVars, memVars, lifeLock, ret, graceError, op, bootMarker,
                       watchVars, used, fate, crashes>>
        /\ pc[t] = "revoke"
        /\ Goto(t, IF child = None THEN "settle" ELSE "grace")
        /\ UNCHANGED vars \/ UpdateHealthState("recovering", None)
    BY DEF StopRevoke
  <1>2. /\ CoordinatorTypes' /\ draining' = draining /\ active' = active
        /\ state' = "stopped" => state = "stopped"
    <2>1. "recovering" \in States \ {"stopped"} /\ None \in Reasons \cup {None}
      BY DEF States
    <2> QED
      BY <1>1, <2>1, StayTypes, ObserveTypes DEF DrainInv, DrainTypes, Known
  <1>3. Known' /\ WatchTypes' /\ HistoryTypes'
    BY <1>1, <1>2 DEF DrainInv, DrainTypes, Known, WatchTypes, HistoryTypes, watchVars
  <1>4. /\ memMarker' = memMarker /\ child' = child /\ env' = env /\ alive' = alive
        /\ configLock' \in BOOLEAN /\ healthStop' \in BOOLEAN /\ runFailed' \in BOOLEAN
        /\ observer' \in BOOLEAN /\ capability' \in {"unverified", "pending", "verified"}
        /\ graceError' \in [Threads -> BOOLEAN]
    BY <1>1, HaltContext DEF memVars, hostVars
  <1>5. CASE child = None
    <2>1. Goto(t, "settle")
      BY <1>1, <1>5
    <2>2. HaltFacts("settle")'
      BY <1>1, <1>4, <1>5, HaltContext DEF HaltFacts, Stopping, diskVars
    <2> QED
      BY <1>1, <1>2, <1>3, <1>4, <2>1, <2>2, HaltContext, GoingDrains DEF StopPoints, Stopping
  <1>6. CASE child # None
    <2>1. Goto(t, "grace")
      BY <1>1, <1>6
    <2>2. HaltFacts("grace")'
      BY <1>1, <1>4, HaltContext DEF HaltFacts, Stopping, diskVars
    <2> QED
      BY <1>1, <1>2, <1>3, <1>4, <2>1, <2>2, HaltContext, GoingDrains DEF StopPoints, Stopping
  <1> QED
    BY <1>5, <1>6

LEMMA StopGraceDrains == ASSUME DrainInv, NEW t \in Threads, StopGrace(t) PROVE Drains
  <1>1. /\ UNCHANGED <<diskVars, env, memVars, lifeLock, ret, op, bootMarker, watchVars, used, fate,
                       crashes>>
        /\ pc[t] = "grace" /\ alive' \in {alive, FALSE}
        /\ Goto(t, "terminate")
        /\ UNCHANGED vars \/ UpdateHealthState("failed", "stop_failed")
        /\ graceError' = graceError \/ graceError' = [graceError EXCEPT ![t] = TRUE]
    BY DEF StopGrace
  <1>2. /\ CoordinatorTypes' /\ draining' = draining /\ active' = active
        /\ state' = "stopped" => state = "stopped"
    <2>1. "failed" \in States \ {"stopped"} /\ "stop_failed" \in Reasons \cup {None}
      BY SupervisorConstants DEF States
    <2> QED
      BY <1>1, <2>1, StayTypes, ObserveTypes DEF DrainInv, DrainTypes, Known
  <1>3. Known' /\ WatchTypes' /\ HistoryTypes'
    BY <1>1, <1>2 DEF DrainInv, DrainTypes, Known, WatchTypes, HistoryTypes, watchVars
  <1>4. graceError' \in [Threads -> BOOLEAN]
    <2>1. TRUE \in BOOLEAN
      BY Zenon
    <2> QED
      BY <1>1, <2>1, HaltContext
  <1>5. HaltFacts("terminate")'
    BY <1>1, HaltContext DEF HaltFacts, Stopping, diskVars, memVars
  <1>6. /\ memMarker' = memMarker /\ child' = child
        /\ configLock' \in BOOLEAN /\ healthStop' \in BOOLEAN /\ runFailed' \in BOOLEAN
        /\ observer' \in BOOLEAN /\ capability' \in {"unverified", "pending", "verified"}
    BY <1>1, HaltContext DEF memVars
  <1> QED
    BY <1>1, <1>2, <1>3, <1>4, <1>5, <1>6, HaltContext, GoingDrains DEF StopPoints, Stopping

LEMMA StopClearDrains == ASSUME DrainInv, NEW t \in Threads, StopClear(t) PROVE Drains
  <1>1. /\ UNCHANGED <<vars, baseline, hostVars, child, capability, healthStop, watchVars, used,
                       fate, crashes>>
        /\ pc[t] = "clear"
    BY DEF StopClear
  <1>2. UNCHANGED op
    BY DEF StopClear, Return
  <1>3. Known' /\ WatchTypes' /\ HistoryTypes' /\ draining' = draining
        /\ (state' = "stopped" => state = "stopped")
    BY <1>1, <1>2, StopRest
  <1>4. FALSE \in BOOLEAN /\ TRUE \in BOOLEAN
    BY Zenon
  <1>5. CASE /\ configLock' \in {configLock, FALSE}
             /\ UNCHANGED <<marker, memMarker>>
             /\ Return(t, FailedResult(memMarker, "stop_failed"))
    <2>1. configLock' \in BOOLEAN
      BY <1>4, <1>5, HaltContext
    <2> QED
      BY <1>1, <1>3, <1>5, <2>1, HaltContext, FailedDrains DEF StopPoints, Stopping, hostVars, diskVars
  <1>6. CASE /\ configLock' = FALSE
             /\ marker' = [marker EXCEPT !.needs = FALSE]
             /\ memMarker' = marker'
             /\ Return(t, IF graceError[t] THEN [StoppedResult(TRUE) EXCEPT !.outcome = "failed"]
                          ELSE StoppedResult(TRUE))
    <2>1. child = None /\ env = "clean" /\ marker \in Markers /\ alive = FALSE
      BY <1>1, HaltContext DEF HaltFacts, Stopping
    <2>2. marker' \in Markers /\ ~NeedsRecovery(marker')
      BY <1>4, <1>6, <2>1 DEF Markers, NeedsRecovery
    <2>3. CleanCore'
      BY <1>1, <2>1, <2>2 DEF CleanCore, hostVars
    <2> DEFINE res == IF graceError[t] THEN [StoppedResult(TRUE) EXCEPT !.outcome = "failed"]
                      ELSE StoppedResult(TRUE)
    <2>4. res \in StoppedResults \cup FailedResults
      BY <1>4, ResultTypes
    <2>5. Return(t, res)
      BY <1>6
    <2> HIDE DEF res
    <2>6. /\ ThreadTypes' /\ runFailed' \in BOOLEAN /\ observer' \in BOOLEAN /\ UNCHANGED op
          /\ AfterStop(t, ret'[t]) \in Points
          /\ pc' = [pc EXCEPT ![t] = AfterStop(t, ret'[t])]
          /\ ret'[t] \in Results /\ ret'[t].state \in {"stopped", "failed"}
          /\ \A u \in Threads : u # t => ret'[u] = ret[u]
      BY <2>4, <2>5, ReturnDrains
    <2>7. DiskTypes'
      BY <1>1, <2>2 DEF DrainInv, DrainTypes, DiskTypes, hostVars
    <2>8. MemTypes'
      BY <1>1, <1>4, <1>6, <2>2, <2>6 DEF DrainInv, DrainTypes, MemTypes
    <2>9. DrainTypes'
      BY <1>3, <2>6, <2>7, <2>8 DEF DrainTypes
    <2> QED
      BY <1>1, <1>3, <1>6, <2>1, <2>2, <2>3, <2>6, <2>9, StopDrains DEF StopPoints, Stopping, hostVars
  <1> QED
    BY <1>5, <1>6 DEF StopClear

LEMMA StopEnterDrains == ASSUME DrainInv, NEW t \in Threads, StopEnter(t) PROVE Drains
  <1>1. /\ UNCHANGED <<vars, diskVars, env, configLock, watchVars, used, crashes>>
        /\ pc[t] = "stop" /\ healthStop' = TRUE
        /\ fate' = IF child # None THEN AttendTo(child.run) ELSE fate
    BY DEF StopEnter
  <1>2. UNCHANGED op
    BY DEF StopEnter, Return
  <1>3. healthStop' \in BOOLEAN /\ FALSE \in BOOLEAN
    BY <1>1, Zenon
  <1>4. Known' /\ draining' = draining /\ (state' = "stopped" => state = "stopped")
    BY <1>1, <1>2, StayTypes DEF DrainInv, DrainTypes, Known
  <1>5. WatchTypes' /\ HistoryTypes'
    <2>1. fate' \in [Runs -> {"unknown", "failed", "stopping"}]
      BY <1>1 DEF AttendTo, DrainInv, DrainTypes, HistoryTypes
    <2> QED
      BY <1>1, <2>1 DEF DrainInv, DrainTypes, WatchTypes, HistoryTypes, watchVars
  <1>6. CASE /\ Return(t, FailedResult(memMarker, "stop_failed"))
             /\ UNCHANGED <<child, alive, memMarker, capability>>
    BY <1>1, <1>3, <1>4, <1>5, <1>6, HaltContext, FailedDrains DEF StopPoints
  <1>7. CASE /\ capability' = IF capability = "pending" THEN "unverified" ELSE capability
             /\ child' = IF child # None /\ ~child.ready THEN None ELSE child
             /\ alive' = (alive /\ child' # None)
             /\ \/ memMarker' = memMarker /\ Return(t, FailedResult(memMarker, "stop_failed"))
                \/ memMarker' = marker /\ Return(t, FailedResult(marker, "stop_failed"))
                \/ /\ memMarker' = marker
                   /\ Goto(t, IF NeedsRecovery(marker) \/ child' # None THEN "revoke" ELSE "nothing")
                   /\ lifeLock' = t
                   /\ runFailed' \in {runFailed, runFailed \/ capability = "pending"}
                   /\ UNCHANGED <<ret, graceError, observer, op, bootMarker>>
    <2>1. /\ capability' \in {"unverified", "pending", "verified"}
          /\ child' = child \/ child' = None
      BY <1>1, <1>7, HaltContext DEF diskVars
    <2>2. alive' \in BOOLEAN /\ (alive' = TRUE => child' # None)
      BY <1>7, Zenon
    <2>3. alive' = alive \/ alive' = FALSE
      BY <1>7, HaltContext, Zenon
    <2>4. CASE \/ memMarker' = memMarker /\ Return(t, FailedResult(memMarker, "stop_failed"))
               \/ memMarker' = marker /\ Return(t, FailedResult(marker, "stop_failed"))
      <3>1. CASE memMarker' = memMarker /\ Return(t, FailedResult(memMarker, "stop_failed"))
        BY <1>1, <1>3, <1>4, <1>5, <2>1, <2>2, <2>3, <3>1, HaltContext, FailedDrains DEF StopPoints
      <3>2. CASE memMarker' = marker /\ Return(t, FailedResult(marker, "stop_failed"))
        BY <1>1, <1>3, <1>4, <1>5, <2>1, <2>2, <2>3, <3>2, HaltContext, FailedDrains
        DEF StopPoints, diskVars
      <3> QED
        BY <2>4, <3>1, <3>2
    <2>5. CASE /\ memMarker' = marker
               /\ Goto(t, IF NeedsRecovery(marker) \/ child' # None THEN "revoke" ELSE "nothing")
               /\ lifeLock' = t
               /\ runFailed' \in {runFailed, runFailed \/ capability = "pending"}
               /\ UNCHANGED <<ret, graceError, observer, op, bootMarker>>
      <3>1. runFailed' \in BOOLEAN
        <4>1. (runFailed \/ capability = "pending") \in BOOLEAN
          BY Zenon
        <4> QED
          BY <2>5, <4>1, HaltContext
      <3>2. configLock' \in BOOLEAN /\ observer' \in BOOLEAN /\ graceError' \in [Threads -> BOOLEAN]
        BY <1>1, <2>5, HaltContext
      <3>3. child' # None => NeedsRecovery(marker)
        BY <2>1 DEF DrainInv, DrainFacts, CoverFacts
      <3>4. CASE NeedsRecovery(marker)
        <4>1. Goto(t, "revoke")
          BY <2>5, <3>4
        <4>2. HaltFacts("revoke")'
          BY <1>1, <2>1, <3>4, HaltContext DEF HaltFacts, Stopping, diskVars, NeedsRecovery
        <4> QED
          BY <1>1, <1>3, <1>4, <1>5, <2>1, <2>2, <2>3, <2>5, <3>1, <3>2, <4>1, <4>2, GoingDrains
          DEF StopPoints, Stopping, diskVars
      <3>5. CASE ~NeedsRecovery(marker)
        <4>1. Goto(t, "nothing") /\ child' = None
          BY <2>5, <3>3, <3>5
        <4>2. HaltFacts("nothing")'
          BY <1>1, <3>5, <4>1 DEF HaltFacts, Stopping, diskVars
        <4> QED
          BY <1>1, <1>3, <1>4, <1>5, <2>1, <2>2, <2>3, <2>5, <3>1, <3>2, <4>1, <4>2, GoingDrains
          DEF StopPoints, Stopping, diskVars
      <3> QED
        BY <3>4, <3>5
    <2> QED
      BY <1>7, <2>4, <2>5
  <1> QED
    BY <1>6, <1>7 DEF StopEnter

LEMMA HaltDrains == ASSUME DrainInv, NEW t \in Threads, Stop(t) PROVE Drains
  BY StopEnterDrains, StopNothingDrains, StopRevokeDrains, StopGraceDrains, StopTerminateDrains,
     StopSettleDrains, StopFenceDrains, StopRegisterDrains, StopClearDrains DEF Stop

(* stop() could not have the lifecycle lock. *)
LEMMA LockTimeoutDrains == ASSUME DrainInv, NEW t \in Threads, StopLockTimeout(t) PROVE Drains
  <1> DEFINE res == FailedResult(memMarker, "stop_failed")
  <1>1. /\ UNCHANGED <<vars, diskVars, hostVars, child, memMarker, configLock, capability, observer,
                       healthStop, lifeLock, graceError, op, bootMarker, watchVars, used, fate,
                       crashes>>
        /\ pc[t] = "stop" /\ runFailed' = TRUE
        /\ ret' = [ret EXCEPT ![t] = res] /\ pc' = [pc EXCEPT ![t] = AfterStop(t, res)]
    BY DEF StopLockTimeout, Goto
  <1>2. res \in Results /\ res.state = "failed"
    BY HaltContext, ResultTypes, ResultKinds
  <1> HIDE DEF res
  <1>3. AfterStop(t, res) \in Points
    BY DEF AfterStop, Points
  <1>4. /\ ret' \in [Threads -> {None} \cup Results] /\ ret'[t] = res
        /\ \A u \in Threads : u # t => ret'[u] = ret[u]
    BY <1>1, <1>2 DEF DrainInv, DrainTypes, ThreadTypes
  <1>5. Known' /\ WatchTypes' /\ HistoryTypes' /\ draining' = draining
        /\ (state' = "stopped" => state = "stopped")
    BY <1>1, StopRest
  <1>6. ThreadTypes'
    BY <1>1, <1>3, <1>4 DEF DrainInv, DrainTypes, ThreadTypes
  <1>7. runFailed' \in BOOLEAN
    BY <1>1, Zenon
  <1>8. DiskTypes' /\ MemTypes'
    BY <1>1, <1>7 DEF DrainInv, DrainTypes, DiskTypes, MemTypes, diskVars, hostVars
  <1>9. DrainTypes'
    BY <1>5, <1>6, <1>8 DEF DrainTypes
  <1> QED
    BY <1>1, <1>2, <1>3, <1>4, <1>5, <1>9, HaltContext, StopDrains DEF StopPoints, diskVars, hostVars

----------------------------------------------------------------------------
(* Every step of start().  It overlaps no startup recovery. *)

LEMMA StartContext ==
    ASSUME DrainInv, pc["op"] \in Starting \cup {"guard", "blame"}
    PROVE  /\ op # None /\ op \in ExitOperations /\ op.prog \in {"start", "restart"}
           /\ op.ctrl \in Clients /\ op.by = "client" /\ ~OnlyStops
           /\ pc["boot"] = "done"
  BY DEF DrainInv, DrainFacts, DrainTypes, ThreadTypes, OpFacts, BootFacts, OnlyStops, Starting

LEMMA StartDrains ==
    ASSUME DrainInv, DrainTypes', pc["op"] \in Starting \cup {"guard", "blame"},
           NEW p \in Points, Goto("op", p), p \notin Stopping \cup {"nothing", "idle", "blame"},
           op' # None, op'.prog = op.prog, op'.by = op.by, op'.ctrl = op.ctrl,
           draining' = draining, crashes' = crashes, CoverFacts', RunFacts',
           p = "finish" => ret'["op"] \in Results /\ (ret'["op"].state = "stopped" => CleanCore')
    PROVE  Drains
  <1>1. /\ op # None /\ op \in ExitOperations /\ op.prog \in {"start", "restart"}
        /\ op.ctrl \in Clients /\ op.by = "client" /\ ~OnlyStops
        /\ pc["boot"] = "done"
    BY StartContext
  <1>2. pc'["op"] = p /\ pc'["boot"] = pc["boot"]
    BY DEF Goto, DrainInv, DrainTypes, ThreadTypes, Threads
  <1>3. OpFacts'
    BY <1>1, <1>2 DEF OpFacts
  <1>4. BootFacts'
    BY <1>1, <1>2 DEF BootFacts
  <1>5. HaltFacts(pc["op"])' /\ HaltFacts(pc["boot"])'
    BY <1>1, <1>2 DEF HaltFacts, Stopping
  <1> QED
    BY <1>1, <1>3, <1>4, <1>5 DEF Drains, DrainInv, DrainFacts

LEMMA StartGuardDrains == ASSUME DrainInv, StartGuard PROVE Drains
  <1>1. /\ UNCHANGED <<vars, diskVars, hostVars, child, memMarker, healthStop, runFailed, ret,
                       graceError, op, bootMarker, watchVars, used, fate, crashes>>
        /\ pc["op"] = "guard"
    BY DEF StartGuard
  <1>2. PICK p \in {"prepare", "raise"} :
          /\ Goto("op", p) /\ (p = "prepare" => child = None /\ ~NeedsRecovery(marker))
    BY DEF StartGuard
  <1>3. TRUE \in BOOLEAN /\ FALSE \in BOOLEAN
    BY Zenon
  <1>4. MemTypes'
    <2>1. /\ capability' \in {"unverified", "pending", "verified"}
          /\ observer' \in BOOLEAN /\ configLock' \in BOOLEAN
      BY <1>3 DEF StartGuard, DrainInv, DrainTypes, MemTypes
    <2> QED
      BY <1>1, <2>1 DEF DrainInv, DrainTypes, MemTypes
  <1>5. ThreadTypes'
    <2>1. lifeLock' \in Threads \cup {"free"}
      BY DEF StartGuard, DrainInv, DrainTypes, ThreadTypes, Threads
    <2>2. pc' \in [Threads -> Points]
      BY <1>2 DEF Goto, DrainInv, DrainTypes, ThreadTypes, Points, Starting
    <2> QED
      BY <1>1, <2>1, <2>2 DEF DrainInv, DrainTypes, ThreadTypes
  <1>6. Known' /\ WatchTypes' /\ HistoryTypes' /\ draining' = draining
        /\ (state' = "stopped" => state = "stopped")
    BY <1>1, StopRest
  <1>7. DrainTypes'
    BY <1>1, <1>4, <1>5, <1>6 DEF DrainInv, DrainTypes, DiskTypes, diskVars, hostVars
  <1>8. CoverFacts'
    BY <1>1 DEF DrainInv, DrainFacts, CoverFacts, diskVars, hostVars
  <1>9. RunFacts'
    <2>1. state = "stopped" => CleanCore
      BY <1>1 DEF DrainInv, DrainFacts, RunFacts
    <2>2. pc'["op"] = p
      BY <1>2 DEF Goto, DrainInv, DrainTypes, ThreadTypes, Threads
    <2> QED
      BY <1>1, <1>2, <1>6, <2>1, <2>2 DEF RunFacts, CleanCore, Starting, diskVars, hostVars
  <1> QED
    BY <1>1, <1>2, <1>6, <1>7, <1>8, <1>9, StartContext, StartDrains
    DEF Points, Starting, Stopping

LEMMA StartPrepareDrains == ASSUME DrainInv, StartPrepare PROVE Drains
  <1>1. /\ UNCHANGED <<marker, hostVars, child, capability, healthStop, ret, graceError, bootMarker,
                       watchVars, fate, crashes>>
        /\ pc["op"] = "prepare"
    BY DEF StartPrepare
  <1>2. TRUE \in BOOLEAN /\ FALSE \in BOOLEAN
    BY Zenon
  <1>3. /\ op # None /\ op \in ExitOperations /\ op.prog \in {"start", "restart"}
        /\ op.ctrl \in Clients /\ op.by = "client"
    BY <1>1, StartContext DEF Starting
  <1>4. child = None /\ ~NeedsRecovery(marker) /\ (state = "stopped" => CleanCore)
    BY <1>1 DEF DrainInv, DrainFacts, RunFacts
  <1>5. CleanCore => CleanCore'
    BY <1>1 DEF CleanCore, hostVars
  <1>6. CoverFacts' /\ WatchTypes'
    BY <1>1 DEF DrainInv, DrainFacts, CoverFacts, DrainTypes, WatchTypes, watchVars, hostVars
  <1>7. CASE /\ baseline' = TRUE
             /\ \E r \in Runs \ used :
                  /\ used' = used \cup {r} /\ op' = [op EXCEPT !.run = r]
                  /\ memMarker' = [run |-> r, ctrl |-> op.ctrl, needs |-> TRUE]
             /\ observer' = TRUE /\ runFailed' = FALSE
             /\ Goto("op", "mark")
             /\ UNCHANGED <<vars, configLock, lifeLock>>
    <2>1. PICK r \in Runs : /\ used' = used \cup {r} /\ op' = [op EXCEPT !.run = r]
                            /\ memMarker' = [run |-> r, ctrl |-> op.ctrl, needs |-> TRUE]
      BY <1>7
    <2>2. /\ op' \in ExitOperations /\ op' # None /\ op'.prog = op.prog /\ op'.by = op.by
          /\ op'.ctrl = op.ctrl /\ op'.run = r /\ op'.cmd = op.cmd
      BY <1>3, <2>1, ServiceExitConstants DEF ExitOperations
    <2>3. memMarker' \in Markers /\ memMarker'.needs
      BY <1>2, <1>3, <2>1 DEF Markers
    <2>4. pc' \in [Threads -> Points] /\ pc'["op"] = "mark"
      BY <1>7 DEF Goto, DrainInv, DrainTypes, ThreadTypes, Points, Starting, Threads
    <2>5. ThreadTypes'
      BY <1>1, <1>7, <2>2, <2>4 DEF DrainInv, DrainTypes, ThreadTypes
    <2>6. CoordinatorTypes' /\ draining' = draining /\ state' = state /\ active' = active
      BY <1>7, StayTypes DEF DrainInv, DrainTypes, Known
    <2>7. Known'
      BY <1>3, <2>2, <2>6 DEF DrainInv, DrainTypes, Known
    <2>8. DiskTypes'
      BY <1>1, <1>2, <1>7 DEF DrainInv, DrainTypes, DiskTypes, hostVars
    <2>9. MemTypes'
      BY <1>1, <1>2, <1>7, <2>3 DEF DrainInv, DrainTypes, MemTypes
    <2>10. HistoryTypes'
      BY <1>1, <2>1 DEF DrainInv, DrainTypes, HistoryTypes
    <2>11. RunFacts'
      BY <1>1, <1>4, <1>5, <2>2, <2>3, <2>4, <2>6 DEF RunFacts
    <2> QED
      BY <1>1, <1>6, <1>7, <2>2, <2>5, <2>6, <2>7, <2>8, <2>9, <2>10, <2>11, StartDrains
      DEF DrainTypes, Points, Starting, Stopping
  <1>8. CASE /\ UpdateHealthState("failed", "start_failed")
             /\ configLock' = FALSE /\ lifeLock' = "free" /\ Goto("op", "raise")
             /\ \E begun \in BOOLEAN :
                  runFailed' = (runFailed /\ ~begun) /\ observer' \in {FALSE, begun}
             /\ UNCHANGED <<baseline, used, op, memMarker>>
    <2>1. /\ CoordinatorTypes' /\ draining' = draining /\ active' = active /\ state' # "stopped"
      <3>1. "failed" \in States \ {"stopped"} /\ "start_failed" \in Reasons \cup {None}
        BY SupervisorConstants DEF States
      <3> QED
        BY <1>8, <3>1, ObserveTypes DEF DrainInv, DrainTypes, Known
    <2>2. runFailed' \in BOOLEAN
      BY <1>8, Zenon
    <2>3. observer' \in BOOLEAN
      BY <1>2, <1>8
    <2>4. pc' \in [Threads -> Points] /\ pc'["op"] = "raise"
      BY <1>8 DEF Goto, DrainInv, DrainTypes, ThreadTypes, Points, Threads
    <2>5. ThreadTypes'
      BY <1>1, <1>8, <2>4 DEF DrainInv, DrainTypes, ThreadTypes
    <2>6. Known'
      BY <1>8, <2>1 DEF DrainInv, DrainTypes, Known
    <2>7. DiskTypes'
      BY <1>1, <1>8 DEF DrainInv, DrainTypes, DiskTypes, hostVars
    <2>8. MemTypes'
      BY <1>1, <1>2, <1>8, <2>2, <2>3 DEF DrainInv, DrainTypes, MemTypes
    <2>9. HistoryTypes'
      BY <1>1, <1>8 DEF DrainInv, DrainTypes, HistoryTypes
    <2>10. RunFacts'
      BY <2>1, <2>4 DEF RunFacts, Starting
    <2> QED
      BY <1>1, <1>3, <1>6, <1>8, <2>1, <2>5, <2>6, <2>7, <2>8, <2>9, <2>10, StartDrains
      DEF DrainTypes, Points, Starting, Stopping
  <1> QED
    BY <1>7, <1>8 DEF StartPrepare

(* A start that has its run goes to its inline stop. *)
LEMMA StartFailsDrains ==
    ASSUME DrainInv, pc["op"] \in Starting, StartFails,
           DiskTypes', MemTypes', CoverFacts',
           UNCHANGED <<lifeLock, ret, graceError, bootMarker, watchVars, used, fate, crashes>>
    PROVE  Drains
  <1>1. /\ op # None /\ op \in ExitOperations /\ op.prog \in {"start", "restart"}
    BY StartContext
  <1>2. UpdateHealthState("failed", "start_failed") /\ op' = [op EXCEPT !.then = "blame"] /\ Goto("op", "stop")
    BY DEF StartFails
  <1>3. /\ op' \in ExitOperations /\ op' # None /\ op'.prog = op.prog /\ op'.by = op.by
        /\ op'.ctrl = op.ctrl /\ op'.cmd = op.cmd
    BY <1>1, <1>2, ServiceExitConstants DEF ExitOperations
  <1>4. CoordinatorTypes' /\ draining' = draining /\ active' = active /\ state' # "stopped"
    <2>1. "failed" \in States \ {"stopped"} /\ "start_failed" \in Reasons \cup {None}
      BY SupervisorConstants DEF States
    <2> QED
      BY <1>2, <2>1, ObserveTypes DEF DrainInv, DrainTypes, Known
  <1>5. pc' \in [Threads -> Points] /\ pc'["op"] = "stop"
    BY <1>2 DEF Goto, DrainInv, DrainTypes, ThreadTypes, Points, Threads
  <1>6. ThreadTypes' /\ WatchTypes' /\ HistoryTypes'
    <2>1. ThreadTypes'
      BY <1>3, <1>5 DEF DrainInv, DrainTypes, ThreadTypes
    <2> QED
      BY <2>1 DEF DrainInv, DrainTypes, WatchTypes, HistoryTypes, watchVars
  <1>7. Known'
    BY <1>1, <1>3, <1>4 DEF DrainInv, DrainTypes, Known
  <1>8. RunFacts'
    BY <1>4, <1>5 DEF RunFacts, Starting
  <1> QED
    BY <1>2, <1>3, <1>4, <1>6, <1>7, <1>8, StartDrains DEF DrainTypes, Points, Starting, Stopping

LEMMA StartMarkDrains == ASSUME DrainInv, StartMark PROVE Drains
  <1>1. /\ UNCHANGED <<baseline, hostVars, memVars, lifeLock, ret, graceError, bootMarker, watchVars,
                       used, fate, crashes>>
        /\ pc["op"] = "mark"
    BY DEF StartMark
  <1>2. child = None /\ ~NeedsRecovery(marker) /\ memMarker \in Markers /\ memMarker.needs
        /\ op.run \in Runs
    BY <1>1 DEF DrainInv, DrainFacts, RunFacts, Starting
  <1>3. MemTypes'
    BY <1>1 DEF DrainInv, DrainTypes, MemTypes, memVars
  <1>4. CASE marker' = memMarker /\ Goto("op", "adopt") /\ UNCHANGED <<vars, op>>
    <2>1. NeedsRecovery(marker') /\ child' = None
      BY <1>1, <1>2, <1>4, SupervisorConstants DEF NeedsRecovery, memVars
    <2>2. pc' \in [Threads -> Points] /\ pc'["op"] = "adopt"
      BY <1>4 DEF Goto, DrainInv, DrainTypes, ThreadTypes, Points, Starting, Threads
    <2>3. ThreadTypes'
      BY <1>1, <1>4, <2>2 DEF DrainInv, DrainTypes, ThreadTypes
    <2>4. Known' /\ WatchTypes' /\ HistoryTypes' /\ draining' = draining
          /\ (state' = "stopped" => state = "stopped")
      BY <1>1, <1>4, StopRest
    <2>5. DiskTypes'
      BY <1>1, <1>2, <1>4 DEF DrainInv, DrainTypes, DiskTypes, hostVars
    <2>6. CoverFacts'
      BY <1>1, <2>1 DEF DrainInv, DrainFacts, CoverFacts, hostVars, memVars
    <2>7. RunFacts'
      BY <1>1, <1>2, <1>4, <2>1, <2>2 DEF RunFacts, memVars
    <2> QED
      BY <1>1, <1>3, <1>4, <2>3, <2>4, <2>5, <2>6, <2>7, StartContext, StartDrains
      DEF DrainTypes, Points, Starting, Stopping
  <1>5. CASE marker' = marker /\ StartFails
    <2>1. DiskTypes' /\ CoverFacts'
      BY <1>1, <1>5 DEF DrainInv, DrainFacts, DrainTypes, DiskTypes, CoverFacts, hostVars, memVars
    <2> QED
      BY <1>1, <1>3, <1>5, <2>1, StartFailsDrains DEF Starting
  <1> QED
    BY <1>4, <1>5 DEF StartMark

LEMMA StartAdoptDrains == ASSUME DrainInv, StartAdopt PROVE Drains
  <1>1. /\ UNCHANGED <<diskVars, hostVars, memVars, lifeLock, ret, graceError, op, bootMarker,
                       watchVars, used, fate, crashes>>
        /\ pc["op"] = "adopt" /\ Goto("op", "spawn")
        /\ RestoreResponsibility(memMarker.run, memMarker.ctrl, "starting", None, None)
    BY DEF StartAdopt
  <1>2. child = None /\ NeedsRecovery(marker) /\ memMarker \in Markers /\ memMarker.needs
        /\ op.run \in Runs
    BY <1>1 DEF DrainInv, DrainFacts, RunFacts, Starting
  <1>3. CoordinatorTypes' /\ draining' = draining /\ state' = "starting" /\ active' = active
    <2>1. memMarker.run \in Runs \cup {Absent} /\ memMarker.ctrl \in Clients \cup {None}
      BY <1>2 DEF Markers
    <2>2. "starting" \in States /\ None \in Reasons \cup {None} /\ None \in Outcomes \cup {None}
      BY DEF States
    <2> QED
      BY <1>1, <2>1, <2>2, RestoreTypes DEF DrainInv, DrainTypes, Known
  <1>4. pc' \in [Threads -> Points] /\ pc'["op"] = "spawn"
    BY <1>1 DEF Goto, DrainInv, DrainTypes, ThreadTypes, Points, Starting, Threads
  <1>5. ThreadTypes' /\ Known'
    BY <1>1, <1>3, <1>4 DEF DrainInv, DrainTypes, ThreadTypes, Known
  <1>6. DiskTypes' /\ MemTypes'
    BY <1>1 DEF DrainInv, DrainTypes, DiskTypes, MemTypes, diskVars, hostVars, memVars
  <1>7. WatchTypes' /\ HistoryTypes'
    BY <1>1 DEF DrainInv, DrainTypes, WatchTypes, HistoryTypes, watchVars
  <1>8. CoverFacts'
    BY <1>1 DEF DrainInv, DrainFacts, CoverFacts, diskVars, hostVars, memVars
  <1>9. RunFacts'
    BY <1>1, <1>2, <1>3, <1>4 DEF RunFacts, diskVars, memVars
  <1> QED
    BY <1>1, <1>3, <1>5, <1>6, <1>7, <1>8, <1>9, StartContext, StartDrains
    DEF DrainTypes, Points, Starting, Stopping

LEMMA StartSpawnDrains == ASSUME DrainInv, StartSpawn PROVE Drains
  <1>1. /\ UNCHANGED <<diskVars, env, memMarker, configLock, capability, observer, healthStop,
                       runFailed, lifeLock, ret, graceError, bootMarker, watchVars, used, fate,
                       crashes>>
        /\ pc["op"] = "spawn"
    BY DEF StartSpawn
  <1>2. child = None /\ NeedsRecovery(marker) /\ memMarker \in Markers /\ memMarker.needs
        /\ op.run \in Runs
    BY <1>1 DEF DrainInv, DrainFacts, RunFacts, Starting
  <1>3. TRUE \in BOOLEAN /\ FALSE \in BOOLEAN
    BY Zenon
  <1>4. ASSUME NEW b \in BOOLEAN
        PROVE  [run |-> op.run, ready |-> b] \in Children /\ [run |-> op.run, ready |-> b] # None
    BY <1>2, SupervisorConstants DEF Children
  <1>5. child' \in Children \cup {None} /\ alive' \in BOOLEAN /\ (alive' = TRUE => child' # None)
    <2>1. CASE child' = None /\ alive' = FALSE
      BY <1>3, <2>1
    <2>2. CASE child' = [run |-> op.run, ready |-> FALSE] /\ alive' = TRUE
      BY <1>3, <1>4, <2>2
    <2>3. CASE child' = [run |-> op.run, ready |-> TRUE] /\ alive' = TRUE
      BY <1>3, <1>4, <2>3
    <2> QED
      BY <2>1, <2>2, <2>3 DEF StartSpawn
  <1>6. DiskTypes' /\ MemTypes'
    <2>1. DiskTypes'
      BY <1>1, <1>5 DEF DrainInv, DrainTypes, DiskTypes, diskVars
    <2> QED
      BY <1>1, <1>5, <2>1 DEF DrainInv, DrainTypes, MemTypes
  <1>7. CoverFacts'
    BY <1>1, <1>2, <1>5 DEF CoverFacts, diskVars
  <1>8. state # "stopped"
    BY <1>1, <1>2 DEF DrainInv, DrainFacts, RunFacts, CleanCore
  <1>9. CASE StartFails
    BY <1>1, <1>6, <1>7, <1>9, StartFailsDrains DEF Starting
  <1>10. CASE Goto("op", "launch") /\ UNCHANGED <<vars, op>>
    <2>1. pc' \in [Threads -> Points] /\ pc'["op"] = "launch"
      BY <1>10 DEF Goto, DrainInv, DrainTypes, ThreadTypes, Points, Starting, Threads
    <2>2. ThreadTypes'
      BY <1>1, <1>10, <2>1 DEF DrainInv, DrainTypes, ThreadTypes
    <2>3. Known' /\ WatchTypes' /\ HistoryTypes' /\ draining' = draining
          /\ (state' = "stopped" => state = "stopped")
      BY <1>1, <1>10, StopRest
    <2>4. RunFacts'
      BY <1>1, <1>2, <1>8, <1>10, <2>1, <2>3 DEF RunFacts, diskVars
    <2> QED
      BY <1>1, <1>6, <1>7, <1>10, <2>2, <2>3, <2>4, StartContext, StartDrains
      DEF DrainTypes, Points, Starting, Stopping
  <1> QED
    BY <1>9, <1>10 DEF StartSpawn

LEMMA StartLaunchDrains == ASSUME DrainInv, StartLaunch PROVE Drains
  <1>1. /\ UNCHANGED <<diskVars, alive, memVars, lifeLock, ret, graceError, bootMarker, watchVars,
                       used, fate, crashes>>
        /\ pc["op"] = "launch" /\ env' \in {env, "dirty"}
    BY DEF StartLaunch
  <1>2. NeedsRecovery(marker) /\ memMarker \in Markers /\ memMarker.needs
        /\ op.run \in Runs
    BY <1>1 DEF DrainInv, DrainFacts, RunFacts, Starting
  <1>3. DiskTypes' /\ MemTypes'
    BY <1>1 DEF DrainInv, DrainTypes, DiskTypes, MemTypes, diskVars, memVars
  <1>4. CoverFacts'
    BY <1>1, <1>2 DEF DrainInv, DrainFacts, CoverFacts, diskVars, memVars
  <1>5. state # "stopped"
    BY <1>1, <1>2 DEF DrainInv, DrainFacts, RunFacts, CleanCore
  <1>6. CASE StartFails
    BY <1>1, <1>3, <1>4, <1>6, StartFailsDrains DEF Starting
  <1>7. CASE Goto("op", "watch") /\ UNCHANGED <<vars, op>>
    <2>1. pc' \in [Threads -> Points] /\ pc'["op"] = "watch"
      BY <1>7 DEF Goto, DrainInv, DrainTypes, ThreadTypes, Points, Starting, Threads
    <2>2. ThreadTypes'
      BY <1>1, <1>7, <2>1 DEF DrainInv, DrainTypes, ThreadTypes
    <2>3. Known' /\ WatchTypes' /\ HistoryTypes' /\ draining' = draining
          /\ (state' = "stopped" => state = "stopped")
      BY <1>1, <1>7, StopRest
    <2>4. RunFacts'
      BY <1>1, <1>2, <1>5, <1>7, <2>1, <2>3 DEF RunFacts, diskVars, memVars
    <2> QED
      BY <1>1, <1>3, <1>4, <1>7, <2>2, <2>3, <2>4, StartContext, StartDrains
      DEF DrainTypes, Points, Starting, Stopping
  <1> QED
    BY <1>6, <1>7 DEF StartLaunch

LEMMA StartWatchDrains == ASSUME DrainInv, StartWatch PROVE Drains
  <1>1. /\ UNCHANGED <<vars, diskVars, hostVars, child, memMarker, configLock, capability, observer,
                       graceError, op, bootMarker, seen, misses, readAt, used, fate, crashes>>
        /\ pc["op"] = "watch" /\ lifeLock' = "free" /\ Goto("op", "finish")
    BY DEF StartWatch
  <1>2. NeedsRecovery(marker) /\ memMarker \in Markers /\ memMarker.needs
        /\ op.run \in Runs
    BY <1>1 DEF DrainInv, DrainFacts, RunFacts, Starting
  <1>3. op.ctrl \in Clients /\ op # None /\ op.prog \in {"start", "restart"}
    BY <1>1, StartContext DEF Starting
  <1>4. state # "stopped"
    BY <1>1, <1>2 DEF DrainInv, DrainFacts, RunFacts, CleanCore
  <1>5. TRUE \in BOOLEAN /\ FALSE \in BOOLEAN
    BY Zenon
  <1>6. /\ \E res \in Results : res.state # "stopped" /\ ret' = [ret EXCEPT !["op"] = res]
        /\ runFailed' \in BOOLEAN /\ healthStop' \in BOOLEAN
        /\ spc' = spc \/ spc' = [spc EXCEPT ![op.run] = "probe"]
    <2>1. CASE OperationFenced("op")
      <3>1. FailedResult(memMarker, "exit_failed") \in Results
        BY <1>2, <1>5, SupervisorConstants DEF FailedResult, Results, Markers, States, Outcomes
      <3>2. FailedResult(memMarker, "exit_failed").state = "failed"
        BY DEF FailedResult
      <3> QED
        BY <1>5, <2>1, <3>1, <3>2 DEF StartWatch, DrainInv, DrainTypes, MemTypes
    <2>2. CASE ~OperationFenced("op")
      <3>1. HealthyResult(op.run, op.ctrl) \in Results
        BY <1>2, <1>3, <1>5 DEF HealthyResult, Results, States
      <3>2. HealthyResult(op.run, op.ctrl).state = "healthy"
        BY DEF HealthyResult
      <3> QED
        BY <1>5, <2>2, <3>1, <3>2 DEF StartWatch, DrainInv, DrainTypes, MemTypes
    <2> QED
      BY <2>1, <2>2
  <1>7. PICK res \in Results : res.state # "stopped" /\ ret' = [ret EXCEPT !["op"] = res]
    BY <1>6
  <1>8. ret' \in [Threads -> {None} \cup Results] /\ ret'["op"] = res
    BY <1>7 DEF DrainInv, DrainTypes, ThreadTypes, Threads
  <1>9. pc' \in [Threads -> Points] /\ pc'["op"] = "finish"
    BY <1>1 DEF Goto, DrainInv, DrainTypes, ThreadTypes, Points, Threads
  <1>10. ThreadTypes'
    BY <1>1, <1>8, <1>9 DEF DrainInv, DrainTypes, ThreadTypes
  <1>11. Known' /\ draining' = draining /\ state' = state
    BY <1>1, StayTypes DEF DrainInv, DrainTypes, Known
  <1>12. WatchTypes' /\ HistoryTypes'
    BY <1>1, <1>2, <1>6 DEF DrainInv, DrainTypes, WatchTypes, HistoryTypes, WatchPoints, Submitters
  <1>13. DiskTypes' /\ MemTypes'
    BY <1>1, <1>6 DEF DrainInv, DrainTypes, DiskTypes, MemTypes, diskVars, hostVars
  <1>14. CoverFacts'
    BY <1>1 DEF DrainInv, DrainFacts, CoverFacts, diskVars, hostVars
  <1>15. RunFacts'
    BY <1>4, <1>9, <1>11 DEF RunFacts, Starting
  <1> QED
    BY <1>1, <1>3, <1>7, <1>8, <1>10, <1>11, <1>12, <1>13, <1>14, <1>15, StartDrains
    DEF DrainTypes, Points, Starting, Stopping

LEMMA StartBlameDrains == ASSUME DrainInv, StartBlame PROVE Drains
  <1> DEFINE res == [ret["op"] EXCEPT !.outcome = "failed", !.reason = "start_failed"]
  <1>1. /\ UNCHANGED <<diskVars, hostVars, memVars, graceError, op, bootMarker, watchVars, used, fate,
                       crashes>>
        /\ pc["op"] = "blame" /\ lifeLock' = "free" /\ Goto("op", "finish")
        /\ RecordTerminalFailure("start_failed")
    BY DEF StartBlame
  <1>2. ret["op"] \in Results /\ (ret["op"].state = "stopped" => CleanCore)
        /\ (state = "stopped" => CleanCore)
    BY <1>1 DEF DrainInv, DrainFacts, OpFacts, RunFacts
  <1>3. res \in Results /\ res.state = ret["op"].state
    BY <1>2, SupervisorConstants DEF Results, Outcomes
  <1>4. ret' \in [Threads -> {None} \cup Results] /\ ret'["op"] = res
    <2>1. ret' = [ret EXCEPT !["op"] = res]
      BY DEF StartBlame
    <2> HIDE DEF res
    <2> QED
      BY <1>3, <2>1 DEF DrainInv, DrainTypes, ThreadTypes, Threads
  <1> HIDE DEF res
  <1>5. /\ CoordinatorTypes' /\ draining' = draining /\ active' = active
        /\ state' = "stopped" => state = "stopped"
    BY <1>1, SupervisorConstants, RecordTypes DEF DrainInv, DrainTypes, Known
  <1>6. CleanCore => CleanCore'
    BY <1>1 DEF CleanCore, diskVars, hostVars, memVars
  <1>7. pc' \in [Threads -> Points] /\ pc'["op"] = "finish"
    BY <1>1 DEF Goto, DrainInv, DrainTypes, ThreadTypes, Points, Threads
  <1>8. ThreadTypes' /\ Known'
    BY <1>1, <1>4, <1>5, <1>7 DEF DrainInv, DrainTypes, ThreadTypes, Known
  <1>9. WatchTypes' /\ HistoryTypes'
    BY <1>1 DEF DrainInv, DrainTypes, WatchTypes, HistoryTypes, watchVars
  <1>10. DiskTypes' /\ MemTypes'
    BY <1>1 DEF DrainInv, DrainTypes, DiskTypes, MemTypes, diskVars, hostVars, memVars
  <1>11. CoverFacts'
    BY <1>1 DEF DrainInv, DrainFacts, CoverFacts, diskVars, hostVars, memVars
  <1>12. RunFacts'
    BY <1>2, <1>5, <1>6, <1>7 DEF RunFacts, Starting
  <1> QED
    BY <1>1, <1>2, <1>3, <1>4, <1>5, <1>6, <1>8, <1>9, <1>10, <1>11, <1>12, StartContext, StartDrains
    DEF DrainTypes, Points, Starting, Stopping

LEMMA StartStepDrains == ASSUME DrainInv, Start PROVE Drains
  BY StartGuardDrains, StartPrepareDrains, StartMarkDrains, StartAdoptDrains, StartSpawnDrains,
     StartLaunchDrains, StartWatchDrains, StartBlameDrains DEF Start

----------------------------------------------------------------------------
(* The operation from its acceptance to its end.                            *)

LEMMA BeginDrains ==
    ASSUME DrainInv, NEW req \in Requests, NEW by \in Submitters \cup {"prestop"},
           Begin(req, "stop", by), WatchTypes',
           UNCHANGED <<diskVars, hostVars, memVars, lifeLock, ret, graceError, bootMarker, used, fate,
                       crashes>>
    PROVE  /\ DrainInv' /\ draining' = draining /\ op = None /\ OnlyStops'
           /\ CleanCore => CleanCore'
           /\ op' # None /\ op'.by = by /\ pc'["op"] = "begin" /\ pc'["boot"] = pc["boot"]
  <1> DEFINE o == [cmd |-> req.cmd, prog |-> "stop", by |-> by, ctrl |-> req.ctrl, run |-> None,
                   then |-> "return"]
  <1>1. op = None /\ Accept(req) /\ op' = o /\ Goto("op", "begin")
    BY DEF Begin
  <1>2. o \in ExitOperations /\ o # None
    BY ServiceExitConstants DEF ExitOperations, Requests, Programs
  <1>3. op' # None /\ op'.by = by /\ op'.prog = "stop" /\ op'.then = "return" /\ op'.cmd = req.cmd
        /\ op' \in ExitOperations
    BY <1>1, <1>2
  <1> HIDE DEF o
  <1>4. CoordinatorTypes' /\ req.cmd \in DOMAIN active'
    BY <1>1, AcceptTypes DEF DrainInv, DrainTypes, Known
  <1>5. state' = state /\ draining' = draining
    BY <1>1 DEF Accept, exitVars
  <1>6. pc' \in [Threads -> Points] /\ pc'["op"] = "begin" /\ pc'["boot"] = pc["boot"]
    BY <1>1 DEF Goto, DrainInv, DrainTypes, ThreadTypes, Points, Threads
  <1>7. ThreadTypes'
    BY <1>3, <1>6 DEF DrainInv, DrainTypes, ThreadTypes
  <1>8. DiskTypes' /\ MemTypes' /\ HistoryTypes'
    BY DEF DrainInv, DrainTypes, DiskTypes, MemTypes, HistoryTypes, diskVars, hostVars, memVars
  <1>9. DrainTypes'
    BY <1>3, <1>4, <1>7, <1>8 DEF DrainTypes, Known
  <1>10. OnlyStops' /\ (CleanCore => CleanCore')
    BY <1>3 DEF OnlyStops, CleanCore, diskVars, hostVars, memVars
  <1>11. OpFacts'
    BY <1>3, <1>6 DEF OpFacts, Starting
  <1>12. BootFacts'
    BY <1>6, <1>10 DEF BootFacts, DrainInv, DrainFacts, memVars
  <1>13. CoverFacts' /\ HaltFacts(pc["op"])' /\ HaltFacts(pc["boot"])'
    <2>1. CoverFacts'
      BY DEF DrainInv, DrainFacts, CoverFacts, diskVars, hostVars, memVars
    <2>2. HaltFacts(pc["op"])'
      BY <1>6 DEF HaltFacts, Stopping
    <2>3. HaltFacts(pc["boot"])'
      BY <1>6 DEF DrainInv, DrainFacts, HaltFacts, diskVars, hostVars, memVars
    <2> QED
      BY <2>1, <2>2, <2>3
  <1>14. RunFacts'
    <2>1. state = "stopped" => CleanCore
      BY <1>1 DEF DrainInv, DrainFacts, RunFacts, OpFacts
    <2> QED
      BY <1>5, <1>6, <1>10, <2>1 DEF RunFacts, Starting
  <1> QED
    BY <1>1, <1>3, <1>5, <1>6, <1>9, <1>10, <1>11, <1>12, <1>13, <1>14 DEF DrainInv, DrainFacts

LEMMA ProtectiveSubmitDrains ==
    ASSUME DrainInv, NEW s \in Submitters, ProtectiveSubmit(s) PROVE Drains
  <1>1. /\ UNCHANGED <<diskVars, hostVars, memVars, lifeLock, ret, graceError, bootMarker, seen,
                       misses, used, fate, crashes>>
        /\ readAt' = [readAt EXCEPT ![s] = None] /\ spc[s] = "submit"
    BY DEF ProtectiveSubmit
  <1>2. PICK c \in Commands :
          \/ /\ Begin(ProtectiveRequest(s, c), "stop", s)
             /\ spc' = [spc EXCEPT ![s] = "execute"]
          \/ spc' = [spc EXCEPT ![s] = "record"] /\ UNCHANGED <<vars, op, pc>>
    BY DEF ProtectiveSubmit
  <1>3. CASE Begin(ProtectiveRequest(s, c), "stop", s) /\ spc' = [spc EXCEPT ![s] = "execute"]
    <2> DEFINE req == ProtectiveRequest(s, c)
    <2>1. readAt[s] \in Readings
      BY <1>1 DEF DrainInv, DrainTypes, WatchTypes
    <2>2. TRUE \in BOOLEAN
      BY Zenon
    <2>3. req \in Requests
      BY <2>1, <2>2 DEF ProtectiveRequest, Requests, Readings, Kinds, ClientKinds, Scopes
    <2>4. Begin(req, "stop", s)
      BY <1>3
    <2> HIDE DEF req
    <2>5. WatchTypes'
      BY <1>1, <1>3 DEF DrainInv, DrainTypes, WatchTypes, WatchPoints, Submitters
    <2>6. /\ DrainInv' /\ draining' = draining /\ op = None /\ OnlyStops'
          /\ CleanCore => CleanCore'
          /\ op' # None /\ op'.by = s
      BY <1>1, <2>3, <2>4, <2>5, BeginDrains
    <2> QED
      BY <1>1, <2>6, ServiceExitConstants DEF Drains
  <1>4. CASE spc' = [spc EXCEPT ![s] = "record"] /\ UNCHANGED <<vars, op, pc>>
    <2>1. CoordinatorTypes' /\ draining' = draining /\ state' = state /\ active' = active
      BY <1>4, StayTypes DEF DrainInv, DrainTypes, Known
    <2> QED
      BY <1>1, <1>4, <2>1, MoveDrains DEF WatchPoints, threadVars
  <1> QED
    BY <1>2, <1>3, <1>4

(* The execution begins: under draining the stop tool finds nothing to do in no state. *)
LEMMA ExecuteDrains == ASSUME DrainInv, draining = TRUE, Execute PROVE Drains
  <1>1. /\ UNCHANGED <<vars, diskVars, hostVars, memVars, lifeLock, graceError, bootMarker, watchVars,
                       used, fate, crashes>>
        /\ pc["op"] = "begin"
    BY DEF Execute
  <1>2. /\ op # None /\ op \in ExitOperations /\ op.prog \in Programs /\ op.cmd \in DOMAIN active
        /\ op.by # "client" => op.prog = "stop"
        /\ op.prog \in {"start", "restart"} => op.ctrl \in Clients
        /\ op.then # "return" => op.prog \in {"start", "restart"}
        /\ state = "stopped" => CleanCore
        /\ state \in States
    <2>1. op # None
      BY <1>1 DEF DrainInv, DrainFacts, OpFacts
    <2>2. op \in ExitOperations /\ op.prog \in Programs /\ op.cmd \in DOMAIN active
      BY <2>1 DEF DrainInv, DrainTypes, ThreadTypes, ExitOperations, Known
    <2> QED
      BY <1>1, <2>1, <2>2
      DEF DrainInv, DrainFacts, OpFacts, RunFacts, DrainTypes, Known, CoordinatorTypes, TypeOK
  <1>3. FALSE \in BOOLEAN /\ TRUE \in BOOLEAN
    BY Zenon
  <1>4. /\ op' = op \/ (op.prog = "restart" /\ op' = [op EXCEPT !.then = "start"])
        /\ \E p \in {"guard", "stop", "finish", "raise"} :
             /\ Goto("op", p)
             /\ p = "guard" => op.prog = "start"
             /\ \/ p # "finish" /\ ret' = ret
                \/ p = "finish" /\ ret' = [ret EXCEPT !["op"] = EchoResult]
                \/ p = "finish" /\ ret' = [ret EXCEPT !["op"] = NoResult(FALSE)]
    <2>1. CASE op.prog = "start"
      BY <2>1 DEF Execute
    <2>2. CASE op.prog = "restart"
      BY <2>2 DEF Execute
    <2>3. CASE op.prog = "stop"
      BY <2>3 DEF Execute
    <2>4. CASE op.prog = "load"
      BY <2>4 DEF Execute
    <2>5. CASE op.prog = "verify"
      BY <2>5 DEF Execute
    <2> QED
      BY <1>2, <2>1, <2>2, <2>3, <2>4, <2>5 DEF Programs
  <1>5. PICK p \in {"guard", "stop", "finish", "raise"} :
             /\ Goto("op", p)
             /\ p = "guard" => op.prog = "start"
             /\ \/ p # "finish" /\ ret' = ret
                \/ p = "finish" /\ ret' = [ret EXCEPT !["op"] = EchoResult]
                \/ p = "finish" /\ ret' = [ret EXCEPT !["op"] = NoResult(FALSE)]
    BY <1>4
  <1>6. /\ EchoResult \in Results /\ EchoResult.state = state
        /\ NoResult(FALSE) \in Results /\ NoResult(FALSE).state = Absent /\ Absent # "stopped"
    BY <1>2, <1>3, CoordinatorConstants DEF EchoResult, NoResult, Results, States
  <1>7. /\ ret' \in [Threads -> {None} \cup Results] /\ ret'["boot"] = ret["boot"]
        /\ p = "finish" => ret'["op"] \in Results /\ (ret'["op"].state = "stopped" => CleanCore)
    <2>1. ret \in [Threads -> {None} \cup Results] /\ "op" \in Threads /\ "boot" \in Threads
      BY DEF DrainInv, DrainTypes, ThreadTypes, Threads
    <2>2. CASE ret' = ret /\ p # "finish"
      BY <2>1, <2>2
    <2>3. CASE ret' = [ret EXCEPT !["op"] = EchoResult]
      <3> HIDE DEF EchoResult
      <3> QED
        BY <1>2, <1>6, <2>1, <2>3
    <2>4. CASE ret' = [ret EXCEPT !["op"] = NoResult(FALSE)]
      <3> DEFINE res == NoResult(FALSE)
      <3>1. res \in Results /\ res.state # "stopped" /\ ret' = [ret EXCEPT !["op"] = res]
        BY <1>6, <2>4
      <3> HIDE DEF res
      <3> QED
        BY <3>1, <2>1
    <2> QED
      BY <1>5, <2>2, <2>3, <2>4
  <1>8. /\ op' \in ExitOperations /\ op' # None /\ op'.prog = op.prog /\ op'.by = op.by
        /\ op'.ctrl = op.ctrl /\ op'.cmd = op.cmd
        /\ op'.then # "return" => op.prog \in {"start", "restart"}
    <2>1. CASE op' = op
      BY <1>2, <2>1
    <2>2. CASE op.prog = "restart" /\ op' = [op EXCEPT !.then = "start"]
      BY <1>2, <2>2, ServiceExitConstants DEF ExitOperations
    <2> QED
      BY <1>4, <2>1, <2>2
  <1>9. pc' \in [Threads -> Points] /\ pc'["op"] = p /\ pc'["boot"] = pc["boot"]
    BY <1>5 DEF Goto, DrainInv, DrainTypes, ThreadTypes, Points, Threads
  <1>10. ThreadTypes'
    BY <1>1, <1>7, <1>8, <1>9 DEF DrainInv, DrainTypes, ThreadTypes
  <1>11. Known' /\ draining' = draining /\ state' = state
    BY <1>1, <1>2, <1>8, StayTypes DEF DrainInv, DrainTypes, Known
  <1>12. DiskTypes' /\ MemTypes' /\ HistoryTypes' /\ WatchTypes'
    <2>1. DiskTypes' /\ MemTypes' /\ HistoryTypes'
      BY <1>1 DEF DrainInv, DrainTypes, DiskTypes, MemTypes, HistoryTypes, diskVars, hostVars, memVars
    <2> QED
      BY <1>1, <2>1 DEF DrainInv, DrainTypes, WatchTypes, watchVars
  <1>13. DrainTypes'
    BY <1>10, <1>11, <1>12 DEF DrainTypes
  <1>14. (OnlyStops => OnlyStops') /\ (CleanCore <=> CleanCore')
    BY <1>1, <1>2, <1>8 DEF OnlyStops, CleanCore, diskVars, hostVars, memVars
  <1>15. OpFacts'
    BY <1>2, <1>5, <1>7, <1>8, <1>9, <1>14 DEF OpFacts, Starting
  <1>16. BootFacts'
    BY <1>1, <1>7, <1>9, <1>14 DEF BootFacts, DrainInv, DrainFacts, memVars
  <1>17. CoverFacts' /\ HaltFacts(pc["op"])' /\ HaltFacts(pc["boot"])'
    <2>1. CoverFacts'
      BY <1>1 DEF DrainInv, DrainFacts, CoverFacts, diskVars, hostVars, memVars
    <2>2. HaltFacts(pc["op"])'
      BY <1>9 DEF HaltFacts, Stopping
    <2>3. HaltFacts(pc["boot"])'
      BY <1>1, <1>9 DEF DrainInv, DrainFacts, HaltFacts, diskVars, hostVars, memVars
    <2> QED
      BY <2>1, <2>2, <2>3
  <1>18. RunFacts'
    BY <1>2, <1>9, <1>11, <1>14 DEF RunFacts, Starting
  <1> QED
    BY <1>1, <1>2, <1>8, <1>11, <1>13, <1>14, <1>15, <1>16, <1>17, <1>18 DEF Drains, DrainInv, DrainFacts

LEMMA EndDrains ==
    ASSUME DrainInv, op # None, CoordinatorTypes', draining' = draining, Ends,
           state' = "stopped" => CleanCore
    PROVE  Drains
  <1>1. /\ op' = None /\ ret' = [ret EXCEPT !["op"] = None] /\ Goto("op", "idle")
        /\ spc' = spc \/ \E s \in Submitters : spc' = [spc EXCEPT ![s] = "record"]
        /\ UNCHANGED <<diskVars, hostVars, memVars, lifeLock, graceError, bootMarker, seen, misses,
                       readAt, used, fate, crashes>>
    BY DEF Ends
  <1>2. /\ ret' \in [Threads -> {None} \cup Results] /\ ret'["boot"] = ret["boot"]
        /\ pc' \in [Threads -> Points] /\ pc'["op"] = "idle" /\ pc'["boot"] = pc["boot"]
    BY <1>1 DEF Goto, DrainInv, DrainTypes, ThreadTypes, Threads, Points
  <1>3. ThreadTypes' /\ Known'
    BY <1>1, <1>2 DEF DrainInv, DrainTypes, ThreadTypes, Known
  <1>4. WatchTypes'
    <2>1. CASE spc' = spc
      BY <1>1, <2>1 DEF DrainInv, DrainTypes, WatchTypes
    <2>2. ASSUME NEW s \in Submitters, spc' = [spc EXCEPT ![s] = "record"] PROVE WatchTypes'
      BY <1>1, <2>2 DEF DrainInv, DrainTypes, WatchTypes, WatchPoints, Submitters
    <2> QED
      BY <1>1, <2>1, <2>2
  <1>5. DiskTypes' /\ MemTypes' /\ HistoryTypes'
    BY <1>1 DEF DrainInv, DrainTypes, DiskTypes, MemTypes, HistoryTypes, diskVars, hostVars, memVars
  <1>6. OnlyStops' /\ (CleanCore => CleanCore')
    BY <1>1 DEF OnlyStops, CleanCore, diskVars, hostVars, memVars
  <1>7. OpFacts'
    BY <1>1, <1>2 DEF OpFacts
  <1>8. BootFacts'
    BY <1>1, <1>2, <1>6 DEF BootFacts, DrainInv, DrainFacts, memVars
  <1>9. CoverFacts' /\ HaltFacts(pc["op"])' /\ HaltFacts(pc["boot"])'
    <2>1. CoverFacts'
      BY <1>1 DEF DrainInv, DrainFacts, CoverFacts, diskVars, hostVars, memVars
    <2>2. HaltFacts(pc["op"])'
      BY <1>2 DEF HaltFacts, Stopping
    <2>3. HaltFacts(pc["boot"])'
      BY <1>1, <1>2 DEF DrainInv, DrainFacts, HaltFacts, diskVars, hostVars, memVars
    <2> QED
      BY <2>1, <2>2, <2>3
  <1>10. RunFacts'
    BY <1>2, <1>6 DEF RunFacts, Starting
  <1> QED
    BY <1>1, <1>3, <1>4, <1>5, <1>6, <1>7, <1>8, <1>9, <1>10
    DEF Drains, DrainInv, DrainFacts, DrainTypes

LEMMA OpCompletesDrains == ASSUME DrainInv, OpCompletes PROVE Drains
  <1>1. pc["op"] = "finish" /\ Complete(op.cmd, ret["op"]) /\ Ends
    BY DEF OpCompletes
  <1>2. /\ op # None /\ ret["op"] \in Results /\ (ret["op"].state = "stopped" => CleanCore)
        /\ state = "stopped" => CleanCore
    BY <1>1 DEF DrainInv, DrainFacts, OpFacts, RunFacts
  <1>3. op.cmd \in DOMAIN active /\ CoordinatorTypes
    BY <1>2 DEF DrainInv, DrainTypes, Known
  <1>4. /\ CoordinatorTypes' /\ draining' = draining
        /\ state' = "stopped" => state = "stopped" \/ ret["op"].state = "stopped"
    BY <1>1, <1>2, <1>3, CompleteTypes
  <1> QED
    BY <1>1, <1>2, <1>4, EndDrains

LEMMA OpRaisesDrains == ASSUME DrainInv, OpRaises PROVE Drains
  <1>1. pc["op"] = "raise" /\ Fail(op.cmd) /\ Ends
    BY DEF OpRaises
  <1>2. op # None /\ (state = "stopped" => CleanCore)
    BY <1>1 DEF DrainInv, DrainFacts, OpFacts, RunFacts
  <1>3. op.cmd \in DOMAIN active /\ CoordinatorTypes
    BY <1>2 DEF DrainInv, DrainTypes, Known
  <1>4. CoordinatorTypes' /\ draining' = draining /\ state' = state
    BY <1>1, <1>3, FailTypes DEF Fail, metaVars, exitVars
  <1> QED
    BY <1>1, <1>2, <1>4, EndDrains

----------------------------------------------------------------------------
(* The startup recovery, beside the worker's stop. *)

LEMMA BootStepDrains ==
    ASSUME DrainInv, pc["boot"] \in {"recover", "orphans", "corrupt", "report"},
           NEW p \in {"orphans", "corrupt", "stop", "done"}, Goto("boot", p),
           CoordinatorTypes', active' = active, draining' = draining,
           UNCHANGED <<diskVars, hostVars, child, configLock, capability, healthStop, runFailed,
                       lifeLock, graceError, op, watchVars, used, fate, crashes>>,
           memMarker' \in {memMarker, marker, None}, observer' \in BOOLEAN,
           bootMarker' \in {None} \cup Markers,
           ret' = ret \/ ret' = [ret EXCEPT !["boot"] = None],
           state' = "stopped" => state = "stopped" \/ CleanCore
    PROVE  Drains
  <1>1. /\ ret' \in [Threads -> {None} \cup Results] /\ ret'["op"] = ret["op"]
        /\ pc' \in [Threads -> Points] /\ pc'["boot"] = p /\ pc'["op"] = pc["op"]
    BY DEF Goto, DrainInv, DrainTypes, ThreadTypes, Threads, Points
  <1>2. OnlyStops /\ child = None
    BY DEF DrainInv, DrainFacts, BootFacts
  <1>3. pc["op"] \notin Starting
    BY <1>2 DEF DrainInv, DrainFacts, OpFacts, OnlyStops, Starting
  <1>4. ThreadTypes' /\ Known'
    BY <1>1 DEF DrainInv, DrainTypes, ThreadTypes, Known
  <1>5. DiskTypes' /\ MemTypes'
    <2>1. DiskTypes'
      BY DEF DrainInv, DrainTypes, DiskTypes, diskVars, hostVars
    <2> QED
      BY <2>1 DEF DrainInv, DrainTypes, MemTypes, DiskTypes
  <1>6. WatchTypes' /\ HistoryTypes'
    BY DEF DrainInv, DrainTypes, WatchTypes, HistoryTypes, watchVars
  <1>7. OnlyStops' /\ (CleanCore => CleanCore')
    BY <1>2 DEF OnlyStops, CleanCore, diskVars, hostVars
  <1>8. OpFacts'
    BY <1>1, <1>7 DEF DrainInv, DrainFacts, OpFacts
  <1>9. BootFacts'
    BY <1>1, <1>2, <1>7 DEF BootFacts
  <1>10. CoverFacts' /\ HaltFacts(pc["op"])' /\ HaltFacts(pc["boot"])'
    <2>1. CoverFacts'
      BY DEF DrainInv, DrainFacts, CoverFacts, diskVars, hostVars
    <2>2. HaltFacts(pc["op"])'
      BY <1>1 DEF DrainInv, DrainFacts, HaltFacts, diskVars, hostVars
    <2>3. HaltFacts(pc["boot"])'
      BY <1>1 DEF HaltFacts, Stopping
    <2> QED
      BY <2>1, <2>2, <2>3
  <1>11. RunFacts'
    <2>1. state = "stopped" => CleanCore
      BY <1>3 DEF DrainInv, DrainFacts, RunFacts, Starting
    <2> QED
      BY <1>1, <1>3, <1>7, <2>1 DEF RunFacts, Starting
  <1> QED
    BY <1>4, <1>5, <1>6, <1>7, <1>8, <1>9, <1>10, <1>11 DEF Drains, DrainInv, DrainFacts, DrainTypes

LEMMA RestoreMarkerTypes ==
    ASSUME CoordinatorTypes, NEW m \in {None} \cup Markers, NEW s \in States,
           NEW r \in Reasons \cup {None}, NEW o \in Outcomes \cup {None},
           RestoreResponsibility(MarkerRun(m), MarkerOwner(m), s, r, o)
    PROVE  CoordinatorTypes' /\ draining' = draining /\ state' = s /\ active' = active
  <1>1. MarkerRun(m) \in Runs \cup {Absent} /\ MarkerOwner(m) \in Clients \cup {None}
    BY DEF MarkerRun, MarkerOwner, NeedsRecovery, Markers
  <1> QED
    BY <1>1, RestoreTypes

LEMMA BootDrains == ASSUME DrainInv, Boot PROVE Drains
  <1>1. CoordinatorTypes /\ marker \in {None} \cup Markers /\ bootMarker \in {None} \cup Markers
        /\ observer \in BOOLEAN
    BY DEF DrainInv, DrainTypes, Known, DiskTypes, ThreadTypes, MemTypes
  <1>2. "recovering" \in States /\ "failed" \in States /\ "stop_failed" \in Reasons
    BY SupervisorConstants DEF States
  <1>3. CASE BootReads
    <2>1. PICK found \in {None, marker} :
            /\ bootMarker' = found /\ memMarker' = found /\ observer' = NeedsRecovery(found)
            /\ RestoreResponsibility(MarkerRun(found), MarkerOwner(found), "recovering", None, None)
            /\ \E p \in {"corrupt", "orphans"} : Goto("boot", p)
      BY <1>3 DEF BootReads
    <2>2. CoordinatorTypes' /\ draining' = draining /\ state' = "recovering" /\ active' = active
      BY <1>1, <1>2, <2>1, RestoreMarkerTypes
    <2>3. observer' \in BOOLEAN
      BY <2>1, Zenon DEF NeedsRecovery
    <2>4. /\ UNCHANGED <<diskVars, hostVars, child, configLock, capability, healthStop, runFailed, lifeLock,
                         ret, graceError, op, watchVars, used, fate, crashes>>
          /\ pc["boot"] = "recover"
      BY <1>3 DEF BootReads
    <2> QED
      BY <1>1, <2>1, <2>2, <2>3, <2>4, BootStepDrains
  <1>4. CASE BootOrphans
    <2>1. /\ UNCHANGED <<diskVars, hostVars, memVars, lifeLock, ret, graceError, op, bootMarker,
                         watchVars, used, fate, crashes>>
          /\ pc["boot"] \in {"orphans", "corrupt"}
          /\ \E p \in {"stop", "done"} : Goto("boot", p)
          /\ \/ UNCHANGED vars
             \/ RestoreResponsibility(MarkerRun(bootMarker), MarkerOwner(bootMarker), "failed",
                                      "stop_failed", None)
      BY <1>4 DEF BootOrphans
    <2>2. /\ CoordinatorTypes' /\ draining' = draining /\ active' = active
          /\ state' = "stopped" => state = "stopped"
      BY <1>1, <1>2, <2>1, RestoreMarkerTypes, StayTypes
    <2>3. memMarker' = memMarker /\ child' = child /\ configLock' = configLock
          /\ capability' = capability /\ healthStop' = healthStop /\ runFailed' = runFailed
          /\ observer' \in BOOLEAN
      BY <1>1, <2>1 DEF memVars
    <2> QED
      BY <1>1, <2>1, <2>2, <2>3, BootStepDrains
  <1>5. CASE BootReports
    <2> DEFINE s == ret["boot"].state
               r == ret["boot"].reason
               o == IF ret["boot"].outcome = Absent THEN None ELSE ret["boot"].outcome
    <2>1. /\ UNCHANGED <<diskVars, hostVars, memVars, lifeLock, graceError, op, bootMarker, watchVars,
                         used, fate, crashes>>
          /\ pc["boot"] = "report" /\ Goto("boot", "done")
          /\ ret' = [ret EXCEPT !["boot"] = None]
          /\ RestoreResponsibility(MarkerRun(bootMarker), MarkerOwner(bootMarker), s, r, o)
      BY <1>5 DEF BootReports
    <2>2. ret["boot"] \in Results /\ s # Absent /\ (s = "stopped" => CleanCore)
      BY <2>1 DEF DrainInv, DrainFacts, BootFacts
    <2>3. s \in States /\ r \in Reasons \cup {None} /\ o \in Outcomes \cup {None}
      BY <2>2 DEF Results
    <2> HIDE DEF s, r, o
    <2>4. CoordinatorTypes' /\ draining' = draining /\ active' = active /\ state' = s
      BY <1>1, <2>1, <2>3, RestoreMarkerTypes
    <2>5. memMarker' = memMarker /\ child' = child /\ configLock' = configLock
          /\ capability' = capability /\ healthStop' = healthStop /\ runFailed' = runFailed
          /\ observer' \in BOOLEAN
      BY <1>1, <2>1 DEF memVars
    <2> QED
      BY <1>1, <2>1, <2>2, <2>4, <2>5, BootStepDrains
  <1> QED
    BY <1>3, <1>4, <1>5 DEF Boot

----------------------------------------------------------------------------
(* The lifecycle lock. *)

MayHold(t, p) ==
    /\ t = "op" => p \notin {"idle", "begin", "guard", "finish", "raise"}
    /\ t = "boot" => p \in Stopping \cup {"nothing"}

LEMMA LockMoves ==
    ASSUME DrainInv, LockFacts, NEW t \in Threads, NEW p \in Points, Goto(t, p),
           lifeLock' \in {"free", lifeLock, t}, lifeLock' = t => MayHold(t, p)
    PROVE  LockFacts'
  <1>1. /\ pc'[t] = p /\ \A u \in Threads : u # t => pc'[u] = pc[u]
        /\ "op" \in Threads /\ "boot" \in Threads
    BY DEF Goto, DrainInv, DrainTypes, ThreadTypes, Threads
  <1> QED
    BY <1>1 DEF LockFacts, MayHold, Threads

LEMMA LockReturns ==
    ASSUME DrainInv, LockFacts, NEW t \in Threads, NEW res, Return(t, res)
    PROVE  LockFacts'
  <1>1. AfterStop(t, res) \in Points
    BY DEF AfterStop, Points
  <1>2. Goto(t, AfterStop(t, res)) /\ lifeLock' = IF t = "op" /\ op.then = "blame" THEN "op" ELSE "free"
    BY DEF Return
  <1>3. lifeLock' = t => MayHold(t, AfterStop(t, res))
    BY <1>2 DEF AfterStop, MayHold, Threads
  <1> QED
    BY <1>1, <1>2, <1>3, LockMoves

LEMMA LockKept ==
    ASSUME LockFacts, UNCHANGED <<pc, lifeLock>>
    PROVE  LockFacts'
  BY DEF LockFacts

LEMMA LockStop == ASSUME DrainInv, LockFacts, NEW t \in Threads, Stop(t) PROVE LockFacts'
  <1>1. CASE StopEnter(t)
    <2>1. \/ \E res : Return(t, res)
          \/ \E p \in {"revoke", "nothing"} : Goto(t, p) /\ lifeLock' = t
      BY <1>1 DEF StopEnter
    <2> QED
      BY <2>1, LockReturns, LockMoves DEF MayHold, Points, Stopping
  <1>2. CASE StopNothing(t)
    BY <1>2, LockReturns DEF StopNothing
  <1>3. CASE StopRevoke(t)
    <2>1. /\ pc[t] = "revoke" /\ lifeLock' = lifeLock
          /\ \E p \in {"settle", "grace"} : Goto(t, p)
      BY <1>3 DEF StopRevoke
    <2> QED
      BY <2>1, LockMoves DEF MayHold, Points, Stopping
  <1>4. CASE StopGrace(t)
    <2>1. Goto(t, "terminate") /\ lifeLock' = lifeLock
      BY <1>4 DEF StopGrace
    <2> QED
      BY <2>1, LockMoves DEF MayHold, Points, Stopping
  <1>5. CASE StopTerminate(t)
    <2>1. \/ \E res : Return(t, res)
          \/ Goto(t, "settle") /\ lifeLock' = "free"
      BY <1>5 DEF StopTerminate
    <2> QED
      BY <2>1, LockReturns, LockMoves DEF MayHold, Points, Stopping
  <1>6. CASE StopSettle(t)
    <2>1. \/ \E res : Return(t, res)
          \/ Goto(t, "fence") /\ lifeLock' = t
      BY <1>6 DEF StopSettle
    <2> QED
      BY <2>1, LockReturns, LockMoves DEF MayHold, Points, Stopping
  <1>7. CASE StopFence(t)
    <2>1. \/ \E res : Return(t, res)
          \/ Goto(t, "register") /\ lifeLock' = "free"
      BY <1>7 DEF StopFence
    <2> QED
      BY <2>1, LockReturns, LockMoves DEF MayHold, Points, Stopping
  <1>8. CASE StopRegister(t)
    <2>1. \/ \E res : Return(t, res)
          \/ Goto(t, "clear") /\ lifeLock' = t
      BY <1>8 DEF StopRegister
    <2> QED
      BY <2>1, LockReturns, LockMoves DEF MayHold, Points, Stopping
  <1>9. CASE StopClear(t)
    BY <1>9, LockReturns DEF StopClear
  <1> QED
    BY <1>1, <1>2, <1>3, <1>4, <1>5, <1>6, <1>7, <1>8, <1>9 DEF Stop

LEMMA LockStart == ASSUME DrainInv, LockFacts, Start PROVE LockFacts'
  <1>1. CASE StartGuard
    <2>1. \/ Goto("op", "prepare") /\ lifeLock' = "op"
          \/ Goto("op", "raise") /\ lifeLock' = "free"
      BY <1>1 DEF StartGuard
    <2> QED
      BY <2>1, LockMoves DEF MayHold, Points, Starting, Threads
  <1>2. CASE StartPrepare
    <2>1. \/ Goto("op", "mark") /\ lifeLock' = lifeLock
          \/ Goto("op", "raise") /\ lifeLock' = "free"
      BY <1>2 DEF StartPrepare
    <2> QED
      BY <2>1, LockMoves DEF MayHold, Points, Starting, Threads
  <1>3. CASE StartMark \/ StartAdopt \/ StartSpawn \/ StartLaunch
    <2>1. /\ \E p \in {"adopt", "spawn", "launch", "watch", "stop"} : Goto("op", p)
          /\ lifeLock' = lifeLock
      BY <1>3 DEF StartMark, StartAdopt, StartSpawn, StartLaunch, StartFails
    <2> QED
      BY <2>1, LockMoves DEF MayHold, Points, Starting, Threads
  <1>4. CASE StartWatch \/ StartBlame
    <2>1. Goto("op", "finish") /\ lifeLock' = "free"
      BY <1>4 DEF StartWatch, StartBlame
    <2> QED
      BY <2>1, LockMoves DEF MayHold, Points, Threads
  <1> QED
    BY <1>1, <1>2, <1>3, <1>4 DEF Start

(* A step of the operation thread at a point where it does not have the lock. *)
LEMMA LockFree ==
    ASSUME DrainInv, LockFacts, NEW t \in Threads, ~MayHold(t, pc[t]), NEW p \in Points, Goto(t, p),
           UNCHANGED lifeLock
    PROVE  LockFacts'
  <1>1. lifeLock # t
    BY DEF LockFacts, MayHold, Threads
  <1> QED
    BY <1>1, LockMoves

LEMMA LockOp ==
    ASSUME DrainInv, LockFacts,
           \/ ClientSubmits \/ Execute \/ OpCompletes \/ OpRaises
           \/ \E s \in Submitters : ProtectiveSubmit(s)
    PROVE  LockFacts'
  <1>1. CASE ClientSubmits
    <2>1. Goto("op", "begin") /\ op = None /\ UNCHANGED lifeLock
      BY <1>1 DEF ClientSubmits, Begin
    <2>2. ~MayHold("op", pc["op"])
      BY <2>1 DEF MayHold, DrainInv, DrainFacts, OpFacts
    <2> QED
      BY <2>1, <2>2, LockFree DEF Points, Threads
  <1>2. CASE \E s \in Submitters : ProtectiveSubmit(s)
    <2>1. /\ UNCHANGED lifeLock
          /\ (Goto("op", "begin") /\ op = None) \/ UNCHANGED pc
      BY <1>2 DEF ProtectiveSubmit, Begin
    <2>2. op = None => ~MayHold("op", pc["op"])
      BY DEF MayHold, DrainInv, DrainFacts, OpFacts
    <2> QED
      BY <2>1, <2>2, LockFree, LockKept DEF Points, Threads
  <1>3. CASE Execute
    <2>1. /\ UNCHANGED lifeLock /\ pc["op"] = "begin"
          /\ op.prog \in Programs
      BY <1>3 DEF Execute, DrainInv, DrainFacts, DrainTypes, ThreadTypes, OpFacts, ExitOperations
    <2>2. \E p \in {"guard", "stop", "finish", "raise"} : Goto("op", p)
      <3>1. CASE op.prog = "start"
        BY <1>3, <3>1 DEF Execute
      <3>2. CASE op.prog = "restart"
        BY <1>3, <3>2 DEF Execute
      <3>3. CASE op.prog = "stop"
        BY <1>3, <3>3 DEF Execute
      <3>4. CASE op.prog = "load"
        BY <1>3, <3>4 DEF Execute
      <3>5. CASE op.prog = "verify"
        BY <1>3, <3>5 DEF Execute
      <3> QED
        BY <2>1, <3>1, <3>2, <3>3, <3>4, <3>5 DEF Programs
    <2> QED
      BY <2>1, <2>2, LockFree DEF MayHold, Points, Threads
  <1>4. CASE OpCompletes \/ OpRaises
    <2>1. pc["op"] \in {"finish", "raise"} /\ Goto("op", "idle") /\ UNCHANGED lifeLock
      BY <1>4 DEF OpCompletes, OpRaises, Ends
    <2> QED
      BY <2>1, LockFree DEF MayHold, Points, Threads
  <1> QED
    BY <1>1, <1>2, <1>3, <1>4

LEMMA LockNext == ASSUME DrainInv, LockFacts, [SNext]_allVars PROVE LockFacts'
  <1>1. CASE Start \/ ClientSubmits \/ Execute \/ OpCompletes \/ OpRaises
    BY <1>1, LockStart, LockOp
  <1>2. ASSUME NEW t \in Threads, Stop(t) PROVE LockFacts'
    BY <1>2, LockStop
  <1>3. ASSUME NEW r \in Runs, Watch(r) PROVE LockFacts'
    BY <1>3, LockKept DEF Watch, Probe, Publish, AwaitIdle, threadVars
  <1>4. ASSUME NEW s \in Submitters, Protect(s) PROVE LockFacts'
    BY <1>4, LockKept, LockOp DEF Protect, ProtectiveRead, ThreadEnds, threadVars
  <1>5. CASE Boot
    <2>1. /\ pc["boot"] \in {"recover", "orphans", "corrupt", "report"} /\ UNCHANGED lifeLock
          /\ \E p \in {"orphans", "corrupt", "stop", "done"} : Goto("boot", p)
      BY <1>5 DEF Boot, BootReads, BootOrphans, BootReports
    <2> QED
      BY <2>1, LockFree DEF MayHold, Points, Threads, Stopping
  <1>6. CASE ChildDies \/ UNCHANGED allVars
    BY <1>6, LockKept DEF ChildDies, allVars, supVars, threadVars
  <1>7. CASE Crash
    BY <1>7 DEF Crash, LockFacts
  <1> QED
    BY <1>1, <1>2, <1>3, <1>4, <1>5, <1>6, <1>7 DEF SNext

(* Before the exit drains, no two threads want the lock. *)
LEMMA NoLockTimeout ==
    ASSUME SupIInv, LockFacts, NEW t \in Threads, StopLockTimeout(t)
    PROVE  FALSE
  <1>1. pc[t] = "stop" /\ lifeLock \in Threads /\ lifeLock # t
    BY DEF StopLockTimeout, SupIInv, Shapes, STypeOK
  <1>2. pc["boot"] # "done" /\ op # None
    BY <1>1 DEF LockFacts, SupIInv, OneOperation, Threads, Stopping
  <1> QED
    BY <1>2 DEF SupIInv, BootIsAlone

LEMMA LockTimeoutKeepsLock ==
    ASSUME DrainInv, LockFacts, NEW t \in Threads, StopLockTimeout(t)
    PROVE  LockFacts'
  <1>1. /\ lifeLock # t /\ UNCHANGED lifeLock
        /\ Goto(t, AfterStop(t, FailedResult(memMarker, "stop_failed")))
    BY DEF StopLockTimeout
  <1>2. AfterStop(t, FailedResult(memMarker, "stop_failed")) \in Points
    BY DEF AfterStop, Points
  <1> QED
    BY <1>1, <1>2, LockMoves

LEMMA SupervisorDrainsNext == SupIInv' => DrainInv'
  BY SupervisorDrains, PTL

----------------------------------------------------------------------------
(* The supervisor under the worker. *)

LEMMA DrainNext == ASSUME DrainInv, draining = TRUE, SNext, crashes' = crashes PROVE Drains
  <1>1. CASE ClientSubmits
    <2>1. PICK c \in Commands, ctrl \in Clients, prog \in Programs :
            Accept([cmd |-> c, ctrl |-> ctrl, valid |-> TRUE, ver |-> stateVersion,
                    kind |-> KindOf(prog), scope |-> None,
                    ident |-> IF prog = "verify" THEN CHOOSE i \in Idents : TRUE ELSE None])
      BY <1>1 DEF ClientSubmits, Begin
    <2>2. KindOf(prog) # "internal"
      BY DEF KindOf, Programs
    <2>3. FALSE
      BY <2>1, <2>2 DEF Accept, Verdict
    <2> QED
      BY <2>3
  <1>2. CASE Execute \/ OpCompletes \/ OpRaises \/ Start
    BY <1>2, ExecuteDrains, OpCompletesDrains, OpRaisesDrains, StartStepDrains
  <1>3. ASSUME NEW t \in Threads, Stop(t) PROVE Drains
    BY <1>3, HaltDrains
  <1>4. ASSUME NEW r \in Runs, Watch(r) PROVE Drains
    BY <1>4, ProbeDrains, PublishDrains, AwaitIdleDrains DEF Watch
  <1>5. ASSUME NEW s \in Submitters, Protect(s) PROVE Drains
    BY <1>5, ProtectiveReadDrains, ProtectiveSubmitDrains, ThreadEndsDrains DEF Protect
  <1>6. CASE Boot \/ ChildDies
    BY <1>6, BootDrains, ChildDiesDrains
  <1>7. CASE Crash
    BY <1>7 DEF Crash, DrainInv, DrainTypes, HistoryTypes
  <1> QED
    BY <1>1, <1>2, <1>3, <1>4, <1>5, <1>6, <1>7 DEF SNext

LEMMA OnlyCrashCounts == ASSUME SNext, crashes' # crashes PROVE Crash
  <1>1. ~(ClientSubmits \/ Execute \/ OpCompletes \/ OpRaises \/ ChildDies)
    BY DEF ClientSubmits, Execute, OpCompletes, OpRaises, Ends, ChildDies
  <1>2. ~Start
    BY DEF Start, StartGuard, StartPrepare, StartMark, StartAdopt, StartSpawn, StartLaunch, StartWatch,
         StartBlame
  <1>3. \A t \in Threads : ~Stop(t)
    BY DEF Stop, StopEnter, StopNothing, StopRevoke, StopGrace, StopTerminate, StopSettle, StopFence,
         StopRegister, StopClear
  <1>4. \A r \in Runs : ~Watch(r)
    BY DEF Watch, Probe, Publish, AwaitIdle
  <1>5. \A s \in Submitters : ~Protect(s)
    BY DEF Protect, ProtectiveRead, ProtectiveSubmit, ThreadEnds
  <1>6. ~Boot
    BY DEF Boot, BootReads, BootOrphans, BootReports
  <1> QED
    BY <1>1, <1>2, <1>3, <1>4, <1>5, <1>6 DEF SNext

(* A step of the supervisor while the exit drains, with the worker looking on or getting
   the answer of its stop. *)
LEMMA DrainStep ==
    ASSUME ExitIInv, draining = TRUE, Drains, LockFacts',
           \/ UNCHANGED <<worker, converged>> /\ ~(op # None /\ op' = None /\ op.by = "prestop")
           \/ /\ op # None /\ op' = None /\ op.by = "prestop"
              /\ worker' = "check" /\ converged' = state',
           UNCHANGED <<exitRead, ready, committed, expired, complete, attempts, phase, svc>>
    PROVE  ExitIInv'
  <1>1. /\ DrainInv' /\ draining' = TRUE
        /\ OnlyStops => OnlyStops' /\ (CleanCore => CleanCore')
        /\ op' # None /\ op'.by = "prestop" => op # None /\ op.by = "prestop"
    BY DEF Drains
  <1>2. state' \in States
    BY <1>1 DEF DrainInv, DrainTypes, Known, CoordinatorTypes, TypeOK
  <1>3. WorkerTypes'
    BY <1>2 DEF ExitIInv, WorkerTypes
  <1>4. WorkerFacts'
    <2>1. CASE UNCHANGED <<worker, converged>> /\ ~(op # None /\ op' = None /\ op.by = "prestop")
      BY <1>1, <2>1 DEF ExitIInv, WorkerFacts, Verified
    <2>2. CASE /\ op # None /\ op' = None /\ op.by = "prestop"
               /\ worker' = "check" /\ converged' = state'
      BY <1>1, <2>2 DEF ExitIInv, WorkerFacts, Verified
    <2> QED
      BY <2>1, <2>2
  <1> QED
    BY <1>1, <1>3, <1>4 DEF ExitIInv

LEMMA SupervisorStepsExit == ASSUME ExitIInv, SupervisorSteps PROVE ExitIInv'
  <1>1. SNext
    BY DEF SupervisorSteps
  <1>2. DrainInv /\ LockFacts /\ LockFacts' /\ draining \in BOOLEAN
    <2>1. DrainInv /\ LockFacts /\ draining \in BOOLEAN
      BY DEF ExitIInv, DrainInv, DrainTypes, Known, CoordinatorTypes, TypeOK
    <2> QED
      BY <1>1, <2>1, LockNext
  <1>3. CASE crashes' # crashes
    <2>1. Crash
      BY <1>1, <1>3, OnlyCrashCounts
    <2>2. SupIInv'
      <3>1. IInv'
        BY <2>1, NewInstanceInv DEF Crash
      <3>2. STypeOK /\ (env = "dirty" => NeedsRecovery(marker))
        BY <1>2, DrainImpliesTypes DEF DrainInv, DrainFacts, CoverFacts
      <3> QED
        BY <2>1, <3>1, <3>2, CrashInv
    <2>3. DrainInv'
      BY <2>2, SupervisorDrainsNext
    <2>4. /\ worker' = "off" /\ exitRead' = None /\ converged' = None
          /\ ready' = FALSE /\ committed' = FALSE /\ expired' = FALSE /\ complete' = TRUE
          /\ attempts' = 0 /\ phase' = "idle" /\ svc' = "running" /\ op' = None
      BY <1>3, <2>1 DEF SupervisorSteps, Crash
    <2>5. TRUE \in BOOLEAN /\ FALSE \in BOOLEAN
      BY Zenon
    <2>6. WorkerTypes' /\ WorkerFacts'
      <3>1. attempts' \in 0..MaxAttempts
        BY <2>4, ServiceExitConstants
      <3>2. WorkerTypes'
        BY <2>4, <2>5, <3>1 DEF WorkerTypes
      <3>3. WorkerFacts'
        BY <2>4, <2>5 DEF WorkerFacts, Verified
      <3> QED
        BY <3>2, <3>3
    <2> QED
      BY <1>2, <2>2, <2>3, <2>6 DEF ExitIInv
  <1>4. CASE crashes' = crashes
    <2>1. /\ IF op # None /\ op' = None /\ op.by = "prestop"
             THEN worker' = "check" /\ converged' = state'
             ELSE UNCHANGED <<worker, converged>>
          /\ UNCHANGED <<exitRead, ready, committed, expired, complete, attempts, phase, svc>>
      BY <1>4 DEF SupervisorSteps
    <2>2. CASE draining = TRUE
      <3>1. Drains
        BY <1>1, <1>2, <1>4, <2>2, DrainNext
      <3> QED
        BY <1>2, <2>1, <2>2, <3>1, DrainStep
    <2>3. CASE draining = FALSE
      <3>1. SupIInv
        BY <2>3 DEF ExitIInv
      <3>2. SupIInv'
        BY <1>1, <3>1, SupNext
      <3>3. DrainInv'
        BY <3>2, SupervisorDrainsNext
      <3>4. op = None \/ op.by # "prestop"
        BY <3>1, ServiceExitConstants DEF SupIInv, Shapes, Operations
      <3>5. op' = None \/ op'.by # "prestop"
        BY <3>2, ServiceExitConstants DEF SupIInv, Shapes, Operations
      <3>6. WorkerTypes'
        BY <2>1, <3>4 DEF ExitIInv, WorkerTypes
      <3>7. worker = "off" /\ ~Verified
        BY <2>3 DEF ExitIInv, WorkerFacts
      <3>8. WorkerFacts'
        BY <2>1, <3>4, <3>5, <3>7 DEF WorkerFacts, Verified
      <3> QED
        BY <1>2, <3>2, <3>3, <3>6, <3>8 DEF ExitIInv
    <2> QED
      BY <1>2, <2>2, <2>3
  <1> QED
    BY <1>3, <1>4

LEMMA LockTimeoutExit ==
    ASSUME ExitIInv, NEW t \in Threads, StopLockTimeout(t) PROVE ExitIInv'
  <1>1. DrainInv /\ LockFacts /\ draining \in BOOLEAN
    BY DEF ExitIInv, DrainInv, DrainTypes, Known, CoordinatorTypes, TypeOK
  <1>2. draining = TRUE
    BY <1>1, NoLockTimeout DEF ExitIInv
  <1>3. Drains /\ LockFacts'
    BY <1>1, LockTimeoutDrains, LockTimeoutKeepsLock
  <1>4. UNCHANGED <<op, exitState>>
    BY DEF StopLockTimeout
  <1> QED
    BY <1>2, <1>3, <1>4, DrainStep DEF exitState

----------------------------------------------------------------------------
(* The worker and the service beside the supervisor. *)

LEMMA Aside ==
    ASSUME ExitIInv, UNCHANGED supVars, CoordinatorTypes', active' = active,
           state' = "stopped" => state = "stopped", draining' = TRUE, WorkerTypes', WorkerFacts'
    PROVE  ExitIInv'
  <1>1. UNCHANGED <<diskVars, hostVars, memVars, threadVars, watchVars, used, fate, crashes>>
    BY DEF supVars
  <1>2. DrainInv
    BY DEF ExitIInv
  <1>3. DiskTypes' /\ MemTypes' /\ ThreadTypes' /\ HistoryTypes'
    BY <1>1, <1>2 DEF DrainInv, DrainTypes, DiskTypes, MemTypes, ThreadTypes, HistoryTypes, diskVars,
         hostVars, memVars, threadVars
  <1>4. Known' /\ WatchTypes'
    BY <1>1, <1>2 DEF DrainInv, DrainTypes, Known, WatchTypes, watchVars, threadVars
  <1>5. UNCHANGED <<pc, op, ret, marker, memMarker, child, env, alive, lifeLock>>
    BY <1>1 DEF diskVars, hostVars, memVars, threadVars
  <1>6. DrainFacts'
    <2>1. CleanCore <=> CleanCore'
      BY <1>5 DEF CleanCore
    <2>2. OpFacts' /\ BootFacts'
      BY <1>2, <1>5, <2>1 DEF DrainInv, DrainFacts, OpFacts, BootFacts, OnlyStops
    <2>3. CoverFacts' /\ HaltFacts(pc["op"])' /\ HaltFacts(pc["boot"])'
      BY <1>2, <1>5 DEF DrainInv, DrainFacts, CoverFacts, HaltFacts
    <2>4. RunFacts'
      BY <1>2, <1>5, <2>1 DEF DrainInv, DrainFacts, RunFacts
    <2> QED
      BY <2>2, <2>3, <2>4 DEF DrainFacts
  <1>7. LockFacts'
    BY <1>5, LockKept DEF ExitIInv
  <1> QED
    BY <1>3, <1>4, <1>6, <1>7 DEF ExitIInv, DrainInv, DrainTypes

(* What is clean and who executes, over such a step. *)
LEMMA AsideFacts ==
    ASSUME UNCHANGED supVars
    PROVE  op' = op /\ (OnlyStops' <=> OnlyStops) /\ (CleanCore' <=> CleanCore)
  BY DEF supVars, diskVars, hostVars, memVars, threadVars, OnlyStops, CleanCore

LEMMA RequestExit == ASSUME ExitIInv, Request \/ RequestNotWritten PROVE ExitIInv'
  <1>1. /\ svc = "running" /\ worker = "off" /\ attempts < MaxAttempts
        /\ BeginDraining /\ ready' = FALSE /\ committed' = FALSE /\ attempts' = attempts + 1
        /\ UNCHANGED <<supVars, exitRead, converged, svc>>
        /\ \/ phase' = "draining" /\ expired' = FALSE /\ complete' = FALSE /\ worker' = "wait"
           \/ UNCHANGED <<worker, expired, complete, phase>>
    BY DEF Request, RequestNotWritten, Draining
  <1>2. TRUE \in BOOLEAN /\ FALSE \in BOOLEAN
    BY Zenon
  <1>3. CoordinatorTypes' /\ active' = active /\ state' = state /\ draining' = TRUE
    BY <1>1, <1>2 DEF BeginDraining, metaVars, cacheVars, ExitIInv, DrainInv, DrainTypes, Known,
         CoordinatorTypes, TypeOK
  <1>4. attempts' \in 0..MaxAttempts
    BY <1>1, ServiceExitConstants DEF ExitIInv, WorkerTypes
  <1>5. WorkerTypes'
    BY <1>1, <1>2, <1>4 DEF ExitIInv, WorkerTypes
  <1>6. op' = op
    BY <1>1, AsideFacts
  <1>7. WorkerFacts'
    BY <1>1, <1>2, <1>3, <1>6 DEF ExitIInv, WorkerFacts, Verified
  <1> QED
    BY <1>1, <1>3, <1>5, <1>7, Aside

(* The attempt fails. *)
LEMMA WorkerFailsExit ==
    ASSUME ExitIInv, WorkerFails, worker # "converge" PROVE ExitIInv'
  <1>1. /\ FailControlledExit("exit_failed") /\ ready' = FALSE /\ committed' = FALSE /\ phase' = "failed"
        /\ worker' = "off" /\ complete' = TRUE /\ exitRead' = None /\ converged' = None
        /\ UNCHANGED <<supVars, expired, attempts, svc>>
    BY DEF WorkerFails, ExitFails
  <1>2. TRUE \in BOOLEAN /\ FALSE \in BOOLEAN
    BY Zenon
  <1>3. CoordinatorTypes' /\ draining' = TRUE /\ state' = "failed" /\ active' = active
    BY <1>1, FailExitTypes DEF ExitIInv, DrainInv, DrainTypes, Known
  <1>4. WorkerTypes'
    BY <1>1, <1>2 DEF ExitIInv, WorkerTypes
  <1>5. op' = op /\ (OnlyStops' <=> OnlyStops) /\ (CleanCore' <=> CleanCore)
    BY <1>1, AsideFacts
  <1>6. WorkerFacts'
    BY <1>1, <1>2, <1>3, <1>5 DEF ExitIInv, WorkerFacts, Verified
  <1> QED
    BY <1>1, <1>3, <1>4, <1>6, Aside

LEMMA WatchdogExit == ASSUME ExitIInv, Watchdog PROVE ExitIInv'
  <1>1. /\ FailControlledExit("exit_failed") /\ ready' = FALSE /\ committed' = FALSE /\ phase' = "failed"
        /\ worker \in {"wait", "read", "submit", "converge", "check"}
        /\ UNCHANGED <<supVars, worker, exitRead, converged, expired, complete, attempts, svc>>
    BY DEF Watchdog, ExitFails
  <1>2. TRUE \in BOOLEAN /\ FALSE \in BOOLEAN
    BY Zenon
  <1>3. CoordinatorTypes' /\ draining' = TRUE /\ state' = "failed" /\ active' = active
    BY <1>1, FailExitTypes DEF ExitIInv, DrainInv, DrainTypes, Known
  <1>4. WorkerTypes'
    BY <1>1, <1>2 DEF ExitIInv, WorkerTypes
  <1>5. op' = op /\ (OnlyStops' <=> OnlyStops) /\ (CleanCore' <=> CleanCore)
    BY <1>1, AsideFacts
  <1>6. WorkerFacts'
    BY <1>1, <1>2, <1>3, <1>5 DEF ExitIInv, WorkerFacts, Verified
  <1> QED
    BY <1>1, <1>3, <1>4, <1>6, Aside

(* The steps that leave the coordinator alone too. *)
LEMMA SilentExit ==
    ASSUME ExitIInv, UNCHANGED <<vars, supVars>>, draining = TRUE, WorkerTypes', WorkerFacts'
    PROVE  ExitIInv'
  <1>1. CoordinatorTypes' /\ draining' = draining /\ state' = state /\ active' = active
    BY StayTypes DEF ExitIInv, DrainInv, DrainTypes, Known
  <1> QED
    BY <1>1, Aside

LEMMA WorkerContext ==
    ASSUME ExitIInv
    PROVE  /\ worker # "off" \/ Verified => draining = TRUE
           /\ worker # "converge" => op = None \/ op.by # "prestop"
           /\ worker \in {"converge", "check"} \/ Verified => OnlyStops
           /\ Verified => CleanCore
           /\ DrainInv /\ WorkerTypes
  BY DEF ExitIInv, WorkerFacts

LEMMA WorkerSubmitsExit == ASSUME ExitIInv, WorkerSubmits PROVE ExitIInv'
  <1>1. worker = "submit"
    BY DEF WorkerSubmits
  <1>2. PICK c \in Commands :
          \/ /\ Begin(ExitRequest(c), "stop", "prestop")
             /\ worker' = "converge" /\ exitRead' = None
             /\ UNCHANGED <<diskVars, hostVars, memVars, lifeLock, ret, graceError, bootMarker,
                            watchVars, used, fate, crashes, converged, ready, committed, expired,
                            complete, attempts, phase, svc>>
          \/ WorkerFails
    BY DEF WorkerSubmits
  <1>3. CASE /\ Begin(ExitRequest(c), "stop", "prestop")
             /\ worker' = "converge" /\ exitRead' = None
             /\ UNCHANGED <<diskVars, hostVars, memVars, lifeLock, ret, graceError, bootMarker,
                            watchVars, used, fate, crashes, converged, ready, committed, expired,
                            complete, attempts, phase, svc>>
    <2> DEFINE req == ExitRequest(c)
    <2>1. DrainInv /\ LockFacts /\ draining = TRUE
      BY <1>1, WorkerContext DEF ExitIInv
    <2>2. TRUE \in BOOLEAN
      BY Zenon
    <2>3. exitRead.ver \in Nat /\ exitRead.ctrl \in Clients \cup {None}
      BY <1>1, CoordinatorConstants DEF ExitIInv, WorkerTypes
    <2>4. req \in Requests
      BY <2>2, <2>3 DEF ExitRequest, Requests, Kinds, ClientKinds, Scopes
    <2>5. Begin(req, "stop", "prestop")
      BY <1>3
    <2> HIDE DEF req
    <2>6. WatchTypes'
      BY <1>3, <2>1 DEF DrainInv, DrainTypes, WatchTypes, watchVars
    <2>7. /\ DrainInv' /\ draining' = draining /\ op = None /\ OnlyStops'
          /\ CleanCore => CleanCore'
          /\ op' # None /\ op'.by = "prestop"
      BY <1>3, <2>1, <2>4, <2>5, <2>6, BeginDrains
    <2>8. LockFacts'
      <3>1. Goto("op", "begin") /\ UNCHANGED lifeLock
        BY <1>3, <2>5 DEF Begin
      <3>2. ~MayHold("op", pc["op"])
        BY <2>1, <2>7 DEF MayHold, DrainInv, DrainFacts, OpFacts
      <3> QED
        BY <2>1, <3>1, <3>2, LockFree DEF Points, Threads
    <2>9. WorkerTypes'
      BY <1>3 DEF ExitIInv, WorkerTypes
    <2>10. WorkerFacts'
      BY <1>3, <2>1, <2>7 DEF ExitIInv, WorkerFacts, Verified
    <2> QED
      BY <2>1, <2>7, <2>8, <2>9, <2>10 DEF ExitIInv
  <1>4. CASE WorkerFails
    BY <1>1, <1>4, WorkerFailsExit
  <1> QED
    BY <1>2, <1>3, <1>4

(* The worker judges its convergence: 'stopped', with none but stops accepted, is clean. *)
LEMMA WorkerChecksExit == ASSUME ExitIInv, WorkerChecks PROVE ExitIInv'
  <1>1. worker = "check"
    BY DEF WorkerChecks
  <1>2. CASE WorkerFails
    BY <1>1, <1>2, WorkerFailsExit
  <1>3. CASE /\ state = "stopped" /\ worker' = "publish" /\ converged' = None
             /\ UNCHANGED <<vars, supVars, exitRead, ready, committed, expired, complete, attempts,
                            phase, svc>>
    <2>1. draining = TRUE /\ OnlyStops /\ (op = None \/ op.by # "prestop") /\ DrainInv
      BY <1>1, WorkerContext
    <2>2. pc["op"] # "adopt"
      BY <2>1 DEF DrainInv, DrainFacts, OpFacts, OnlyStops, Starting
    <2>3. CleanCore
      BY <1>3, <2>1, <2>2 DEF DrainInv, DrainFacts, RunFacts
    <2>4. op' = op /\ (OnlyStops' <=> OnlyStops) /\ (CleanCore' <=> CleanCore)
      BY <1>3, AsideFacts
    <2>5. draining' = TRUE
      BY <1>3, <2>1 DEF vars, exitVars
    <2>6. WorkerTypes'
      BY <1>3 DEF ExitIInv, WorkerTypes
    <2>7. WorkerFacts'
      BY <1>3, <2>1, <2>3, <2>4, <2>5 DEF WorkerFacts
    <2> QED
      BY <1>3, <2>1, <2>6, <2>7, SilentExit
  <1> QED
    BY <1>2, <1>3 DEF WorkerChecks

(* From wait to read to submit. *)
LEMMA WorkerApproachesExit == ASSUME ExitIInv, WorkerWaits \/ WorkerReads PROVE ExitIInv'
  <1>1. worker \in {"wait", "read"}
    BY DEF WorkerWaits, WorkerReads
  <1>2. CASE WorkerFails
    BY <1>1, <1>2, WorkerFailsExit
  <1>3. CASE /\ \/ worker' = "read" /\ exitRead' = exitRead
                \/ worker' = "submit" /\ exitRead' = [ver |-> stateVersion, ctrl |-> controller]
             /\ UNCHANGED <<vars, supVars, converged, ready, committed, expired, complete, attempts,
                            phase, svc>>
    <2>1. draining = TRUE /\ (op = None \/ op.by # "prestop") /\ DrainInv
          /\ (Verified => OnlyStops /\ CleanCore)
      BY <1>1, WorkerContext
    <2>2. op' = op /\ (OnlyStops' <=> OnlyStops) /\ (CleanCore' <=> CleanCore)
      BY <1>3, AsideFacts
    <2>3. draining' = TRUE
      BY <1>3, <2>1 DEF vars, exitVars
    <2>4. [ver |-> stateVersion, ctrl |-> controller] \in [ver : 1..MaxVersion, ctrl : Clients \cup {None}]
      BY <2>1 DEF DrainInv, DrainTypes, Known, CoordinatorTypes, TypeOK
    <2>5. WorkerTypes'
      BY <1>3, <2>4 DEF ExitIInv, WorkerTypes
    <2>6. WorkerFacts'
      BY <1>3, <2>1, <2>2, <2>3 DEF WorkerFacts, Verified
    <2> QED
      BY <1>3, <2>1, <2>5, <2>6, SilentExit
  <1> QED
    BY <1>2, <1>3 DEF WorkerWaits, WorkerReads

(* What was verified is published, recorded and committed. *)
LEMMA WorkerConcludesExit ==
    ASSUME ExitIInv, WorkerPublishes \/ WorkerRecords \/ WorkerCommits PROVE ExitIInv'
  <1>1. worker \in {"publish", "record", "commit"}
    BY DEF WorkerPublishes, WorkerRecords, WorkerCommits
  <1>2. CASE WorkerFails
    BY <1>1, <1>2, WorkerFailsExit
  <1>3. CASE /\ worker' \in {"record", "commit", "off"} /\ phase' \in {phase, "succeeded"}
             /\ ready' \in {ready, TRUE} /\ committed' \in {committed, TRUE}
             /\ complete' \in {complete, TRUE}
             /\ UNCHANGED <<vars, supVars, exitRead, converged, expired, attempts, svc>>
    <2>1. Verified
      BY <1>1 DEF Verified
    <2>2. draining = TRUE /\ (op = None \/ op.by # "prestop") /\ OnlyStops /\ CleanCore
      BY <1>1, <2>1, WorkerContext
    <2>3. op' = op /\ (OnlyStops' <=> OnlyStops) /\ (CleanCore' <=> CleanCore)
      BY <1>3, AsideFacts
    <2>4. draining' = TRUE
      BY <1>3, <2>2 DEF vars, exitVars
    <2>5. TRUE \in BOOLEAN
      BY Zenon
    <2>6. WorkerTypes'
      <3>1. ready' \in BOOLEAN /\ committed' \in BOOLEAN /\ complete' \in BOOLEAN
        BY <1>3, <2>5 DEF ExitIInv, WorkerTypes
      <3>2. worker' # "submit" /\ phase' \in {"idle", "draining", "succeeded", "failed"}
        BY <1>3 DEF ExitIInv, WorkerTypes
      <3> QED
        BY <1>3, <3>1, <3>2 DEF ExitIInv, WorkerTypes
    <2>7. WorkerFacts'
      BY <2>2, <2>3, <2>4 DEF WorkerFacts
    <2> QED
      BY <1>3, <2>2, <2>6, <2>7, SilentExit
  <1> QED
    BY <1>2, <1>3 DEF WorkerPublishes, WorkerRecords, WorkerCommits

(* Time passes, or the SCM stops the service that was authorized. *)
LEMMA TimeAndScmExit == ASSUME ExitIInv, DeadlinePasses \/ SvcStop \/ SvcExits PROVE ExitIInv'
  <1>1. /\ UNCHANGED <<vars, supVars, worker, exitRead, converged, ready, committed, complete,
                       attempts, phase>>
        /\ \/ expired' = TRUE /\ svc' = svc /\ (worker # "off" \/ committed)
           \/ expired' = expired /\ svc' \in {"stop_pending", "stopped"} /\ (committed \/ svc # "running")
    BY DEF DeadlinePasses, SvcStop, SvcExits, StopAuthorized
  <1>2. committed \in BOOLEAN
    BY DEF ExitIInv, WorkerTypes
  <1>3. /\ worker # "off" \/ Verified
        /\ svc' # svc => Verified
    BY <1>1, <1>2 DEF Verified
  <1>4. /\ draining = TRUE /\ (worker # "converge" => op = None \/ op.by # "prestop")
        /\ worker \in {"converge", "check"} \/ Verified => OnlyStops
        /\ Verified => CleanCore
    BY <1>3, WorkerContext
  <1>5. op' = op /\ (OnlyStops' <=> OnlyStops) /\ (CleanCore' <=> CleanCore)
    BY <1>1, AsideFacts
  <1>6. draining' = TRUE
    BY <1>1, <1>4 DEF vars, exitVars
  <1>7. TRUE \in BOOLEAN
    BY Zenon
  <1>8. WorkerTypes'
    <2>1. expired' \in BOOLEAN
      BY <1>1, <1>7 DEF ExitIInv, WorkerTypes
    <2>2. svc' \in {"running", "stop_pending", "stopped"}
      BY <1>1 DEF ExitIInv, WorkerTypes
    <2> QED
      BY <1>1, <2>1, <2>2 DEF ExitIInv, WorkerTypes
  <1>9. Verified' => Verified
    BY <1>1, <1>3 DEF Verified
  <1>10. WorkerFacts'
    BY <1>1, <1>4, <1>5, <1>6, <1>9 DEF WorkerFacts
  <1> QED
    BY <1>1, <1>4, <1>8, <1>10, SilentExit

LEMMA ExitStutter == ASSUME ExitIInv, UNCHANGED everything PROVE ExitIInv'
  <1>1. UNCHANGED <<vars, supVars, exitState>> /\ UNCHANGED allVars
    BY DEF everything, allVars
  <1>2. draining' = draining /\ draining \in BOOLEAN
    BY <1>1 DEF vars, exitVars, ExitIInv, DrainInv, DrainTypes, Known, CoordinatorTypes, TypeOK
  <1>3. WorkerTypes'
    BY <1>1 DEF ExitIInv, WorkerTypes, exitState
  <1>4. op' = op /\ (OnlyStops' <=> OnlyStops) /\ (CleanCore' <=> CleanCore)
    BY <1>1, AsideFacts
  <1>5. WorkerFacts'
    BY <1>1, <1>2, <1>4 DEF ExitIInv, WorkerFacts, Verified, exitState
  <1>6. CASE draining = TRUE
    BY <1>1, <1>3, <1>5, <1>6, SilentExit
  <1>7. CASE draining = FALSE
    <2>1. SupIInv'
      BY <1>1, <1>7, SupNext DEF ExitIInv
    <2>2. DrainInv'
      BY <2>1, SupervisorDrainsNext
    <2>3. LockFacts'
      BY <1>1, LockKept DEF ExitIInv, supVars, threadVars
    <2> QED
      BY <1>3, <1>5, <2>1, <2>2, <2>3 DEF ExitIInv
  <1> QED
    BY <1>2, <1>6, <1>7

LEMMA ExitInit == XInit => ExitIInv
  <1> SUFFICES ASSUME XInit PROVE ExitIInv
    OBVIOUS
  <1>1. SInit /\ op = None /\ lifeLock = "free"
    BY DEF XInit, SInit
  <1>2. SupIInv
    BY <1>1, SupInit
  <1>3. DrainInv
    BY <1>2, SupervisorDrains
  <1>4. TRUE \in BOOLEAN /\ FALSE \in BOOLEAN
    BY Zenon
  <1>5. attempts \in 0..MaxAttempts
    BY ServiceExitConstants DEF XInit
  <1>6. WorkerTypes
    BY <1>4, <1>5 DEF XInit, WorkerTypes
  <1>7. WorkerFacts
    BY <1>1, <1>4 DEF XInit, WorkerFacts, Verified
  <1> QED
    BY <1>1, <1>2, <1>3, <1>6, <1>7 DEF ExitIInv, LockFacts

LEMMA ExitNext == ExitIInv /\ [XNext]_everything => ExitIInv'
  <1> SUFFICES ASSUME ExitIInv, [XNext]_everything PROVE ExitIInv'
    OBVIOUS
  <1>1. CASE SupervisorSteps \/ \E t \in Threads : StopLockTimeout(t)
    BY <1>1, SupervisorStepsExit, LockTimeoutExit
  <1>2. CASE Request \/ RequestNotWritten
    BY <1>2, RequestExit
  <1>3. CASE Worker
    BY <1>3, WorkerApproachesExit, WorkerSubmitsExit, WorkerChecksExit, WorkerConcludesExit DEF Worker
  <1>4. CASE DeadlinePasses \/ Watchdog \/ SvcStop \/ SvcExits
    BY <1>4, TimeAndScmExit, WatchdogExit
  <1>5. CASE UNCHANGED everything
    BY <1>5, ExitStutter
  <1> QED
    BY <1>1, <1>2, <1>3, <1>4, <1>5 DEF XNext

(* ExitIInv is an invariant of the service, its worker, the supervisor and their crashes:
   of the overlap that ServiceStop.request permits with the startup recovery and with any
   operation. *)
THEOREM ExitInductive == XSpec => []ExitIInv
  <1>1. XInit => ExitIInv
    BY ExitInit
  <1>2. ExitIInv /\ [XNext]_everything => ExitIInv'
    BY ExitNext
  <1> QED
    BY <1>1, <1>2, PTL DEF XSpec

(* ServiceStop._run authorizes the SCM stop, and SvcStop accepts it, only with no child, a
   clean environment and no marker to recover, however many attempts, deadlines, refused
   submissions and crashes came before. *)
THEOREM CleanExit == XSpec => []ExitInv
  <1>1. ExitIInv => ExitInv
    BY ExitImplies
  <1> QED
    BY <1>1, ExitInductive, PTL

=============================================================================
