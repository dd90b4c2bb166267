------------------------- MODULE MCProcessRedirect -------------------------
(* Two flows of one client port, to two ports of A.                        *)
EXTENDS ProcessRedirect

CONSTANTS f1, f2, r1, r2, p1

MCFlows == {f1, f2}
MCClientOf == [f \in MCFlows |-> "c1"]
MCSymmetry == Permutations({r1, r2}) \cup Permutations({f1, f2})
=============================================================================
