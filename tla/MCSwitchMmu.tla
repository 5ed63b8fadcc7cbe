---------------------------- MODULE MCSwitchMmu -----------------------------
(* SwitchMmu on two ports of different headroom and one lossless priority. *)
EXTENDS SwitchMmu, TLC

CONSTANTS p1, p2

MCheadroom == (p1 :> 3) @@ (p2 :> 2)
=============================================================================
