---------------------------- MODULE GbnTransport ----------------------------
(***************************************************************************)
(* The go-back-N transport of one flow, sender and receiver                *)
(* (point-to-point/model/rdma-hw.cc), over paths that a load balancer in   *)
(* the switches chooses for each packet: packets and answers overtake each *)
(* other between paths.  The receiver keeps what comes in order only, and  *)
(* answers anything else with a negative acknowledgement, not repeated     *)
(* while its timer runs.  The retransmission timer of the sender is        *)
(* started by answers only.                                                *)
(*                                                                         *)
(* Unit of sequence numbers: one segment of an MTU.  The NIC sends what    *)
(* may be sent: HostNic shows that the port does not sleep over it.        *)
(***************************************************************************)
EXTENDS Integers, Sequences, FiniteSets

CONSTANTS
    Path,       \* the paths the load balancers spread the flow over
    Size,       \* segments of the flow
    Win,        \* window in segments
    AnyLoss,    \* TRUE: losses at any time; FALSE: while the timer runs
    MaxLoss,    \* bound: losses altogether
    MaxFlight,  \* bound: packets in flight on one path
    MaxAnswers  \* bound: answers in flight on one path

ASSUME GbnAssumption ==
    /\ Path # {}
    /\ Size \in Nat \ {0} /\ Win \in Nat \ {0}
    /\ AnyLoss \in BOOLEAN
    /\ MaxLoss \in Nat /\ MaxFlight \in Nat \ {0} /\ MaxAnswers \in Nat \ {0}

VARIABLES
    snd_una, snd_nxt,   \* first segment not acknowledged, and next to send
    m_retransmit,       \* the retransmission timer is running
    finished,           \* QpComplete was called, which also ends the receiver
    ReceiverNextExpectedSeq,
    m_lastNACK,         \* what the last negative acknowledgement asked for
    m_nackTimer,        \* its timer has not run out yet
    data,               \* [Path -> segments in flight]
    answers,            \* [Path -> answers in flight]
    losses

sndVars == <<snd_una, snd_nxt, m_retransmit, finished>>
rcvVars == <<ReceiverNextExpectedSeq, m_lastNACK, m_nackTimer>>
vars == <<sndVars, rcvVars, data, answers, losses>>

Init ==
    /\ snd_una = 0 /\ snd_nxt = 0
    /\ m_retransmit = FALSE
    /\ finished = FALSE
    /\ ReceiverNextExpectedSeq = 0 /\ m_lastNACK = 0 /\ m_nackTimer = FALSE
    /\ data = [p \in Path |-> << >>]
    /\ answers = [p \in Path |-> << >>]
    /\ losses = 0

Larger(a, b) == IF a > b THEN a ELSE b

-----------------------------------------------------------------------------
(* The sender *)

GetBytesLeft == Size - snd_nxt

MaySend == ~finished /\ GetBytesLeft > 0 /\ snd_nxt - snd_una < Win

Send(p) ==
    /\ MaySend
    /\ Len(data[p]) < MaxFlight
    /\ data' = [data EXCEPT ![p] = Append(@, snd_nxt)]
    /\ snd_nxt' = snd_nxt + 1
    /\ UNCHANGED <<snd_una, m_retransmit, finished, rcvVars, answers, losses>>

\* Mutant: what is in flight does not move with the acknowledgement.
AcknowledgeUnaOnly(seq) ==
    /\ snd_una' = Larger(snd_una, seq)
    /\ snd_nxt' = snd_nxt
Acknowledge(seq) ==
    /\ snd_una' = Larger(snd_una, seq)
    /\ snd_nxt' = Larger(snd_nxt, snd_una')

\* The answer that completes the flow.
ReceiveLastAck(seq) ==
    /\ seq = Size
    /\ Acknowledge(seq)
    /\ finished' = TRUE
    /\ UNCHANGED m_retransmit

\* Another one: the timer restarts if anything is in flight; a negative answer
\* goes back to the first segment not acknowledged, however old it is.
\* Mutant: the timer is cancelled and not started again.
RestartNever(inFlight) == m_retransmit' = (m_retransmit /\ ~inFlight)
Restart(inFlight) == m_retransmit' = (m_retransmit \/ inFlight)

ReceiveAck(a) ==
    /\ a.seq < Size
    /\ IF a.nack
       THEN /\ snd_una' = Larger(snd_una, a.seq)
            /\ snd_nxt' = snd_una'
       ELSE Acknowledge(a.seq)
    /\ Restart(Larger(snd_nxt, snd_una') > snd_una')
    /\ UNCHANGED finished

ReceiveAnswer(p) ==
    /\ answers[p] # << >>
    /\ answers' = [answers EXCEPT ![p] = Tail(@)]
    /\ LET a == Head(answers[p]) IN
        \/ finished /\ UNCHANGED sndVars
        \/ ~finished /\ (ReceiveLastAck(a.seq) \/ ReceiveAck(a))
    /\ UNCHANGED <<rcvVars, data, losses>>

HandleTimeout ==
    /\ m_retransmit
    /\ m_retransmit' = FALSE
    /\ snd_nxt' = IF finished THEN snd_nxt ELSE snd_una
    /\ UNCHANGED <<snd_una, finished, rcvVars, data, answers, losses>>

-----------------------------------------------------------------------------
(* The receiver: ReceiverCheckSeq for segment s, and the answer. *)

Answer(nack, seq) ==
    \E q \in Path :
        /\ Len(answers[q]) < MaxAnswers
        /\ answers' = [answers EXCEPT ![q] = Append(@, [nack |-> nack, seq |-> seq])]

Expected(s) ==
    /\ s = ReceiverNextExpectedSeq
    /\ ReceiverNextExpectedSeq' = s + 1
    /\ Answer(FALSE, s + 1)
    /\ UNCHANGED <<m_lastNACK, m_nackTimer>>

\* Mutant: it takes what comes early.
EarlyTaken(s) ==
    /\ s > ReceiverNextExpectedSeq
    /\ ReceiverNextExpectedSeq' = s + 1
    /\ Answer(FALSE, s + 1)
    /\ UNCHANGED <<m_lastNACK, m_nackTimer>>
Early(s) ==
    /\ s > ReceiverNextExpectedSeq
    /\ IF m_nackTimer /\ m_lastNACK = ReceiverNextExpectedSeq
       THEN UNCHANGED <<m_lastNACK, m_nackTimer, answers>>
       ELSE /\ m_lastNACK' = ReceiverNextExpectedSeq
            /\ m_nackTimer' = TRUE
            /\ Answer(TRUE, ReceiverNextExpectedSeq)
    /\ UNCHANGED ReceiverNextExpectedSeq

\* Mutant: a duplicate is not answered.
DuplicateSilent(s) ==
    /\ s < ReceiverNextExpectedSeq
    /\ UNCHANGED <<rcvVars, answers>>
Duplicate(s) ==
    /\ s < ReceiverNextExpectedSeq
    /\ Answer(FALSE, ReceiverNextExpectedSeq)
    /\ UNCHANGED rcvVars

ReceiveUdp(p) ==
    /\ data[p] # << >>
    /\ data' = [data EXCEPT ![p] = Tail(@)]
    /\ LET s == Head(data[p]) IN
        \/ finished /\ UNCHANGED <<rcvVars, answers>>
        \/ ~finished /\ (Expected(s) \/ Early(s) \/ Duplicate(s))
    /\ UNCHANGED <<sndVars, losses>>

NackTimerExpires ==
    /\ m_nackTimer
    /\ m_nackTimer' = FALSE
    /\ UNCHANGED <<sndVars, ReceiverNextExpectedSeq, m_lastNACK, data, answers, losses>>

-----------------------------------------------------------------------------
(* The network *)

MayLose == losses < MaxLoss /\ (AnyLoss \/ m_retransmit)

LoseData(p) ==
    /\ MayLose /\ data[p] # << >>
    /\ data' = [data EXCEPT ![p] = Tail(@)]
    /\ losses' = losses + 1
    /\ UNCHANGED <<sndVars, rcvVars, answers>>

LoseAnswer(p) ==
    /\ MayLose /\ answers[p] # << >>
    /\ answers' = [answers EXCEPT ![p] = Tail(@)]
    /\ losses' = losses + 1
    /\ UNCHANGED <<sndVars, rcvVars, data>>

Idle == \A p \in Path : data[p] = << >> /\ answers[p] = << >>

\* No event is left and the simulation ends.
SimulationEnds ==
    /\ Idle
    /\ ~MaySend /\ ~m_retransmit /\ ~m_nackTimer
    /\ UNCHANGED vars

Next ==
    \/ \E p \in Path :
        Send(p) \/ ReceiveUdp(p) \/ ReceiveAnswer(p) \/ LoseData(p) \/ LoseAnswer(p)
    \/ HandleTimeout \/ NackTimerExpires
    \/ SimulationEnds

Spec == Init /\ [][Next]_vars

\* The NIC serves the flow, what is in flight arrives, and the timer fires when
\* nothing is left that could restart it.
FairSpec ==
    /\ Spec
    /\ WF_vars(\E p \in Path : Send(p))
    /\ \A p \in Path : WF_vars(ReceiveUdp(p)) /\ WF_vars(ReceiveAnswer(p))
    /\ WF_vars(Idle /\ HandleTimeout)

-----------------------------------------------------------------------------
(* Properties *)

\* The ranges of the variables, a part of SequencesOrdered.
TypeOK ==
    /\ {snd_una, snd_nxt, ReceiverNextExpectedSeq, m_lastNACK} \subseteq 0..Size
    /\ {m_retransmit, m_nackTimer, finished} \subseteq BOOLEAN
    /\ data \in [Path -> Seq(0..(Size - 1))]
    /\ answers \in [Path -> Seq([nack : BOOLEAN, seq : 0..Size])]
    /\ \A p \in Path : Len(data[p]) <= MaxFlight /\ Len(answers[p]) <= MaxAnswers
    /\ losses \in 0..MaxLoss

\* Whatever is duplicated, lost, overtaken and gone back over, the sequence
\* numbers stay in the flow and the network within its bounds, the sender
\* acknowledges only what the receiver took, never falls behind its own
\* acknowledgements (the assertion of GetOnTheFly) and keeps to its window, and
\* no answer claims more than the receiver took.
SequencesOrdered ==
    /\ TypeOK
    /\ snd_una <= ReceiverNextExpectedSeq
    /\ snd_una <= snd_nxt /\ snd_nxt - snd_una <= Win
    /\ \A p \in Path : \A k \in DOMAIN answers[p] : answers[p][k].seq <= ReceiverNextExpectedSeq

\* An unfinished flow is never left waiting for nothing: it may send, its timer
\* runs, or something is in flight that brings an answer, unless something was
\* lost while no timer ran. A negative acknowledgement held back, and packets
\* it lets pass in silence, do not count.
NeverStuck ==
    \/ finished \/ MaySend \/ m_retransmit
    \/ \E p \in Path :
        \/ answers[p] # << >>
        \/ \E k \in DOMAIN data[p] : data[p][k] <= ReceiverNextExpectedSeq

\* Segments reach the application in order, and completion is reported once,
\* after all of them.
RD == INSTANCE ReliableDelivery WITH
    Flow <- {1}, Size <- [f \in {1} |-> Size],
    delivered <- [f \in {1} |-> 0..(ReceiverNextExpectedSeq - 1)],
    finished <- [f \in {1} |-> finished]
ImplementsReliableDelivery == RD!Spec

\* The flow completes: a missing answer is noticed, by the transport timer at the
\* latest (the comment at m_waitAckTimeout, rdma-hw.h). With losses while no timer
\* runs (AnyLoss) it need not.
FlowCompletes == <>finished
=============================================================================
