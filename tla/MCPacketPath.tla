---------------------------- MODULE MCPacketPath ----------------------------
(* Two protocols share one client port; one program is on the blacklist, the other exempt from
   one listener; the destinations
   are a foreign host's unserved, served and hidden ports, and a served port of this host. *)
EXTENDS PacketPath

CONSTANTS f1, app

MCDestinations == {<<f1, 4444>>, <<f1, 80>>, <<f1, 25>>, <<Ext, 80>>}
\* Two programs of this host that answer, for IgnoredPath.cfg.
MCServices == {<<Ext, 8080>>, <<Ext, 9090>>}
MCPortLists == {<<app, 25>>}
=============================================================================
