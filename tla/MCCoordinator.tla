--------------------------- MODULE MCCoordinator ---------------------------
(***************************************************************************)
(* A small instance of Coordinator for TLC.  The calls other threads make  *)
(* on the coordinator between the phases of submit() are bounded by        *)
(* MaxInterference; submissions are bounded by MaxVersion.                 *)
(***************************************************************************)
EXTENDS Coordinator, TLC

CONSTANT MaxInterference
VARIABLE interferences

Interference ==
    \/ Observe
    \/ Restore
    \/ \E r \in Reasons : RecordTerminalFailure(r)
    \/ BeginDraining
    \/ \E r \in Reasons : FailControlledExit(r)
    \/ RecoverWhenIdle
    \/ NewInstance

MCInit == Init /\ interferences = 0
MCNext ==
    \/ Submit /\ UNCHANGED interferences
    \/ (\E c \in DOMAIN active : Finish(c)) /\ UNCHANGED interferences
    \/ IdleRecoveryEnds /\ UNCHANGED interferences
    \/ /\ interferences < MaxInterference
       /\ interferences' = interferences + 1
       /\ Interference
MCSpec == MCInit /\ [][MCNext]_<<vars, interferences>> /\ Fairness

Symmetry == Permutations(Clients) \cup Permutations(Commands) \cup Permutations(Names)
            \cup Permutations(Idents)
=============================================================================
