------------------------------ MODULE PfcLink -------------------------------
(***************************************************************************)
(* Priority flow control on one link and one priority: the port of the     *)
(* sender (qbb-net-device.cc: Receive, Resume, TransmitStart), the wire,   *)
(* and the ingress queue of the switch at the other end, which is a        *)
(* PfcQueue (SwitchMmu is proved to implement it).                         *)
(*                                                                         *)
(* Time is discrete; its unit is the time to put one packet on the wire of *)
(* this link, so that the packets of a delay are packets at its rate.      *)
(* A pause lasts PauseTime and then ends by itself, whatever the switch    *)
(* thinks: SetPause is not repeated while `off` stays TRUE, so the switch  *)
(* sends one PAUSE per excursion above its threshold and no refresh.  The  *)
(* option of random packet loss drops PFC frames as well as packets.       *)
(***************************************************************************)
EXTENDS Integers, SequencesExt

CONSTANTS
    reserve, shared_bytes, resume_offset,   \* of the queue, in packets
    Delay,      \* propagation delay of the link
    LinkRate,   \* the rate of this link
    NicRate,    \* nicRateInGbps: the rate of host 0's NIC
    MaxWait,    \* bound on the time a PFC frame spends in queue 0, behind the
                \* packet being sent, answers and other PFC frames
    PauseTime   \* m_pausetime, carried by every PAUSE frame

ASSUME LinkAssumption ==
    /\ reserve \in Nat /\ shared_bytes \in Nat \ {0}
    /\ resume_offset \in Nat \ {0}
    /\ Delay \in Nat /\ PauseTime \in Nat \ {0}
    /\ LinkRate \in Nat \ {0} /\ NicRate \in Nat \ {0} /\ MaxWait \in Nat

\* config_switch_mmu: two delays, at the rate of host 0's NIC whatever the rate
\* of the link, and two packets (of this link's size; a part of one is dropped).
headroom == (2 * Delay * NicRate) \div LinkRate + 2

\* What really comes in above XOFF until a PAUSE frame takes effect: the frame
\* waits, travels, and the packets sent before it arrived follow it back.
RoundTrip == 2 * Delay + MaxWait + 1

VARIABLES
    bytes, off,     \* the ingress queue of the switch (PfcQueue)
    wire,           \* time to arrival of the packets on the wire, in order
    frames,         \* PFC frames on their way back: [pause, due]
    m_paused,       \* the sender's queue is paused
    resumeEvt,      \* time to the end of the pause; -1: not scheduled
    txLeft,         \* time until the sender's port is ready again
    misled          \* the last frame was lost, or its pause ran out too early

vars == <<bytes, off, wire, frames, m_paused, resumeEvt, txLeft, misled>>
senderVars == <<m_paused, resumeEvt, txLeft>>

Q == INSTANCE PfcQueue WITH PSize <- {1}, room <- headroom

Init ==
    /\ Q!Init
    /\ wire = <<>> /\ frames = <<>>
    /\ m_paused = FALSE /\ resumeEvt = -1 /\ txLeft = 0
    /\ misled = FALSE

\* Mutant: the port does not wait for the end of the packet before.
TransmitStartBusy ==
    /\ ~m_paused
    /\ wire' = Append(wire, 1 + Delay)
    /\ txLeft' = 1
    /\ UNCHANGED <<bytes, off, frames, m_paused, resumeEvt, misled>>

\* DequeueAndTransmit, TransmitStart: the port is ready and not paused.
TransmitStart ==
    /\ ~m_paused /\ txLeft = 0
    /\ wire' = Append(wire, 1 + Delay)
    /\ txLeft' = 1
    /\ UNCHANGED <<bytes, off, frames, m_paused, resumeEvt, misled>>

\* Mutant: the resume frame is forgotten.
SendPfcPauseOnly ==
    IF off' = off \/ off THEN UNCHANGED <<frames, misled>>
    ELSE frames' = Append(frames, [pause |-> TRUE, due |-> Delay]) /\ misled' = FALSE

\* Mutant: a frame also waits behind a data packet of another queue.
SendPfcBehindData ==
    IF off' = off THEN UNCHANGED <<frames, misled>>
    ELSE \E wait \in 0 .. MaxWait :
            /\ frames # <<>> => Last(frames).due <= Delay + wait + 1
            /\ frames' = Append(frames, [pause |-> off', due |-> Delay + wait + 1])
            /\ misled' = FALSE

\* SendPfc: the frame goes to the end of queue 0, before the data queues.
SendPfc ==
    IF off' = off THEN UNCHANGED <<frames, misled>>
    ELSE \E wait \in 0 .. MaxWait :
            /\ frames # <<>> => Last(frames).due <= Delay + wait
            /\ frames' = Append(frames, [pause |-> off', due |-> Delay + wait])
            /\ misled' = FALSE

PacketArrives == wire # <<>> /\ Head(wire) = 0
Full == 1 + Q!AboveXoff(bytes) > headroom

\* The switch receives the first packet of the wire: admit and maybe pause, or
\* refuse it.
ReceivePacket ==
    /\ PacketArrives
    /\ wire' = Tail(wire)
    /\ \/ Q!Arrive(1) /\ SendPfc
       \/ Full /\ UNCHANGED <<bytes, off, frames, misled>>
    /\ UNCHANGED senderVars

LosePacket ==
    /\ PacketArrives
    /\ wire' = Tail(wire)
    /\ UNCHANGED <<bytes, off, frames, senderVars, misled>>

\* The switch forwards a packet of the queue and maybe resumes the sender.
Forward ==
    /\ Q!Depart(1)
    /\ SendPfc
    /\ UNCHANGED <<wire, senderVars>>

\* Mutant: the old event is not cancelled by a resume frame.
ReceivePfcNoCancel ==
    /\ frames # <<>> /\ Head(frames).due = 0
    /\ frames' = Tail(frames)
    /\ m_paused' = Head(frames).pause
    /\ resumeEvt' = IF Head(frames).pause THEN PauseTime ELSE resumeEvt
    /\ UNCHANGED <<bytes, off, wire, txLeft, misled>>

\* QbbNetDevice::Receive of a PFC frame: cancel, then pause anew or resume.
ReceivePfc ==
    /\ frames # <<>> /\ Head(frames).due = 0
    /\ frames' = Tail(frames)
    /\ m_paused' = Head(frames).pause
    /\ resumeEvt' = IF Head(frames).pause THEN PauseTime ELSE -1
    /\ UNCHANGED <<bytes, off, wire, txLeft, misled>>

\* The random loss of Receive.
LosePfc ==
    /\ frames # <<>> /\ Head(frames).due = 0
    /\ frames' = Tail(frames)
    /\ misled' = (misled \/ frames' = <<>>)
    /\ UNCHANGED <<bytes, off, wire, senderVars>>

\* QbbNetDevice::Resume as a scheduled event; it also makes up for a lost RESUME.
PauseExpires ==
    /\ resumeEvt = 0
    /\ m_paused' = FALSE
    /\ resumeEvt' = -1
    /\ misled' = (off /\ frames = <<>>)
    /\ UNCHANGED <<bytes, off, wire, frames, txLeft>>

\* Time passes when nothing is due.
Due ==
    \/ wire # <<>> /\ Head(wire) = 0
    \/ frames # <<>> /\ Head(frames).due = 0
    \/ resumeEvt = 0

Tick ==
    /\ ~Due
    /\ wire' = [i \in DOMAIN wire |-> wire[i] - 1]
    /\ frames' = [i \in DOMAIN frames |-> [frames[i] EXCEPT !.due = @ - 1]]
    /\ resumeEvt' = IF resumeEvt > 0 THEN resumeEvt - 1 ELSE resumeEvt
    /\ txLeft' = IF txLeft > 0 THEN txLeft - 1 ELSE 0
    /\ UNCHANGED <<bytes, off, m_paused, misled>>

Next ==
    \/ TransmitStart \/ ReceivePacket \/ LosePacket \/ Forward
    \/ ReceivePfc \/ LosePfc \/ PauseExpires \/ Tick

Spec == Init /\ [][Next]_vars
-----------------------------------------------------------------------------
TypeOK ==
    /\ bytes \in 0 .. (Q!XOFF + headroom)
    /\ off \in BOOLEAN
    /\ wire \in Seq(0 .. (1 + Delay))
    /\ \A i \in 2 .. Len(wire) : wire[i - 1] < wire[i]
    /\ frames \in Seq([pause : BOOLEAN, due : 0 .. (MaxWait + Delay)])
    /\ m_paused \in BOOLEAN
    /\ resumeEvt \in -1 .. PauseTime
    /\ txLeft \in 0 .. 1
    /\ misled \in BOOLEAN

(***************************************************************************)
(* A PAUSE frame takes effect in time: above XOFF the queue takes at most  *)
(* what a round trip brings, unless the PAUSE frame of this excursion was  *)
(* lost or its pause ran out, however often that happened before.          *)
(***************************************************************************)
PausedInTime ==
    PacketArrives /\ ~misled => 1 + Q!AboveXoff(bytes) <= RoundTrip

(***************************************************************************)
(* A lossless priority is refused a packet only if its PAUSE frame was     *)
(* lost, its pause ran out, or the headroom is less than a round trip.     *)
(***************************************************************************)
NoRefusalUnlessMisled == PacketArrives /\ Full => misled \/ headroom < RoundTrip

(***************************************************************************)
(* The last word about the sender's queue, on the way or received, is the  *)
(* switch's flag, unless that frame was lost or the timer overruled it.    *)
(***************************************************************************)
SenderFollowsSwitch ==
    misled \/ off = (IF frames # <<>> THEN Last(frames).pause ELSE m_paused)

\* A paused sender always has its resume event scheduled.
PausedHasTimer == m_paused <=> resumeEvt >= 0
=============================================================================
