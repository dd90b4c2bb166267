---------------------------- MODULE MCHostFacade ----------------------------
(* A small instance of HostFacade. *)
EXTENDS HostFacade

Symmetry == Permutations(Facades) \cup Permutations(Commands)
=============================================================================
