----------------------------- MODULE MCConWeave -----------------------------
(* ConWeave over two paths between the ToR switches. *)
EXTENDS ConWeave

CONSTANTS p1, p2
=============================================================================
