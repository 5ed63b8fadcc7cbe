-------------------------- MODULE ReliableDelivery --------------------------
(***************************************************************************)
(* What the transport promises to the application of each flow: every      *)
(* segment reaches the receiver, the flow is reported complete only after  *)
(* that, once, and nothing is handed to a receiver whose flow is complete. *)
(***************************************************************************)
EXTENDS Integers

CONSTANTS
    Flow,   \* the flows
    Size    \* Size[f]: how many segments the flow has

VARIABLES
    delivered,  \* [Flow -> the segments that reached the receiver]
    finished    \* [Flow -> the sender reported the flow complete]

rdVars == <<delivered, finished>>

Segments(f) == 0 .. (Size[f] - 1)

Init ==
    /\ delivered = [f \in Flow |-> {}]
    /\ finished = [f \in Flow |-> FALSE]

Deliver(f) ==
    /\ ~finished[f]
    /\ \E s \in Segments(f) : delivered' = [delivered EXCEPT ![f] = @ \cup {s}]
    /\ UNCHANGED finished

Complete(f) ==
    /\ ~finished[f]
    /\ delivered[f] = Segments(f)
    /\ finished' = [finished EXCEPT ![f] = TRUE]
    /\ UNCHANGED delivered

Next == \E f \in Flow : Deliver(f) \/ Complete(f)

Spec == Init /\ [][Next]_rdVars

=============================================================================
