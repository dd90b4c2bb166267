---------------------------- MODULE MCApplication ----------------------------
(* Two listeners, and a second thread that calls stop(). *)
EXTENDS Application

MCOrder == <<"dns", "relay">>
=============================================================================
