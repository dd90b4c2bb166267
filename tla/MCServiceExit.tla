---------------------------- MODULE MCServiceExit ----------------------------
(* A small instance of ServiceExit for TLC. *)
EXTENDS ServiceExit, TLC

MCReasons == {"start_failed", "stop_failed", "probe_failed", "exit_failed"}
Symmetry == Permutations(Commands) \cup Permutations(Runs)
=============================================================================
