---------------------------- MODULE MCSupervisor ----------------------------
(* A small instance of Supervisor for TLC. *)
EXTENDS Supervisor, TLC

MCReasons == {"start_failed", "stop_failed", "probe_failed", "exit_failed"}
Symmetry == Permutations(Commands) \cup Permutations(Runs)
=============================================================================
