-------------------------- MODULE MCGbnTransport ----------------------------
(* GbnTransport over two paths. *)
EXTENDS GbnTransport

CONSTANTS p1, p2
=============================================================================
