----------------------------- MODULE MCHostNic ------------------------------
(* HostNic with flows of two and three segments. *)
EXTENDS HostNic

MCSize == [f \in Flow |-> f + 2]
=============================================================================
