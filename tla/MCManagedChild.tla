--------------------------- MODULE MCManagedChild ---------------------------
(* The health thread's probes next to the requests of the lifecycle operation. *)
EXTENDS ManagedChild

MCUses == [c \in Callers |-> IF c = "op" THEN {"start", "stacks", "stop"} ELSE {"health"}]
=============================================================================
