-------------------------- MODULE MCLapsTransport ---------------------------
(* LapsTransport with two flows of different size that share two paths. *)
EXTENDS LapsTransport, TLC

CONSTANTS f1, f2, p1, p2

MCSize == (f1 :> 3) @@ (f2 :> 1)
MCSizeSmall == (f1 :> 2) @@ (f2 :> 1)
=============================================================================
