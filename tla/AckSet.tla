------------------------------- MODULE AckSet -------------------------------
(***************************************************************************)
(* What a queue pair promises about acknowledged bytes, with a set: all    *)
(* bytes below una are acknowledged, una is not, and sacked holds the      *)
(* acknowledged bytes above it.  LapsTransport keeps these two per flow.   *)
(***************************************************************************)
EXTENDS Integers, FiniteSets

CONSTANT m_size     \* the bytes are 0 .. m_size - 1

VARIABLES
    una,    \* the first byte that is not acknowledged
    sacked, \* acknowledged bytes above una
    answer  \* the block that was acknowledged last

ackVars == <<una, sacked, answer>>

Init == una = 0 /\ sacked = {} /\ answer = <<0, 0>>

\* The bytes seq .. end - 1 are acknowledged.
Advance(seq, end) ==
    LET got == sacked \cup (seq .. (end - 1)) IN
    /\ una' \in una .. m_size
    /\ una' \notin got
    /\ una .. (una' - 1) \subseteq got
    /\ sacked' = got \ (0 .. (una' - 1))

Acknowledge(seq, end) == Advance(seq, end) /\ answer' = <<seq, end>>

Next ==
    \E seq \in una .. (m_size - 1) :
        \E end \in (seq + 1) .. m_size : Acknowledge(seq, end)

Spec == Init /\ [][Next]_ackVars
=============================================================================
