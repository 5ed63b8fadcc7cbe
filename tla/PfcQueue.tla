------------------------------ MODULE PfcQueue ------------------------------
(***************************************************************************)
(* What the switch's memory management unit promises for ONE ingress queue *)
(* (one input port, one priority), with a single counter: the bytes of the *)
(* queue that are in the buffer.                                           *)
(*                                                                         *)
(*   0 ........ reserve ........ XOFF ..................... XOFF + headroom*)
(*                               pause the sender          nothing fits    *)
(*                                                                         *)
(* XOFF is reserve + shared.  A packet is refused only when the part of    *)
(* the queue above XOFF would outgrow the headroom; the sender is paused   *)
(* from XOFF upwards and resumed at or below XON.                          *)
(***************************************************************************)
EXTENDS Integers

CONSTANTS
    PSize,          \* the packet sizes, in bytes
    reserve,        \* bytes guaranteed to the queue
    shared_bytes,   \* bytes above the reserve that do not pause the sender
    resume_offset,  \* distance between the two thresholds
    room            \* bytes the queue may use above XOFF

VARIABLES
    bytes,  \* the bytes of the queue in the buffer
    off     \* TRUE iff the sender has been told to pause

qvars == <<bytes, off>>

XOFF == reserve + shared_bytes

\* The queue resumes at or below this level; never below the reserve.
XON == IF shared_bytes >= resume_offset THEN XOFF - resume_offset ELSE reserve

AboveXoff(b) == IF b > XOFF THEN b - XOFF ELSE 0

Init == bytes = 0 /\ off = FALSE

\* A packet that fits is buffered, and pauses the sender at XOFF.
Arrive(s) ==
    /\ s + AboveXoff(bytes) <= room
    /\ bytes' = bytes + s
    /\ off' = (off \/ bytes' >= XOFF)

\* A packet leaves the buffer, and resumes the sender at XON.
Depart(s) ==
    /\ s <= bytes
    /\ bytes' = bytes - s
    /\ off' = (off /\ bytes' > XON)

Next == \E s \in PSize : Arrive(s) \/ Depart(s)

Spec == Init /\ [][Next]_qvars
=============================================================================
