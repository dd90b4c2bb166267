-------------------------- MODULE MCExitRetention --------------------------
(* One managed process and one helper; a stop and its retry, or one stop for liveness. *)
EXTENDS ExitRetention
=============================================================================
