---------------------------- MODULE MCSwitchNode ----------------------------
(* SwitchNode with an incast (p1 and p2 into p3) and traffic back to p1, so *)
(* that PFC frames and data share ports.                                    *)
EXTENDS SwitchNode

CONSTANTS p1, p2, p3

MCTurn == {<<p1, p3>>, <<p2, p3>>, <<p3, p1>>}

MCheadroomOne == [p \in Port |-> 1]
=============================================================================
