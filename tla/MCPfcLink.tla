----------------------------- MODULE MCPfcLink ------------------------------
(* PfcLink with a delay of two packet times and a short pause time. *)
EXTENDS PfcLink
=============================================================================
