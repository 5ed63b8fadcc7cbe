---------------------------- MODULE MCSackManager ---------------------------
(* SackManager on a flow of a few bytes, answered in blocks of any size. *)
EXTENDS SackManager
=============================================================================
