---------------------------- MODULE MCEgressRelay ----------------------------
(* Two servers reached from one client port, and a second client port of   *)
(* the same address.                                                       *)
EXTENDS EgressRelay

CONSTANTS f1, f2, f3

MCClientOf == f1 :> "c1" @@ f2 :> "c1" @@ f3 :> "c2"
MCSourceOf == "c1" :> "s" @@ "c2" :> "s"
MCSymmetry == Permutations({f1, f2})
=============================================================================
