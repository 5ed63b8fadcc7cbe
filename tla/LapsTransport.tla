--------------------------- MODULE LapsTransport ----------------------------
(***************************************************************************)
(* The multipath transport of one sending host in mode LAPS/NACK           *)
(* (point-to-point/model/rdma-hw.cc and rdma-queue-pair.cc).               *)
(*                                                                         *)
(* Several flows share several paths.  The sender keeps, per path, the     *)
(* list of what it sent there and has not heard of (m_outstanding_data),   *)
(* and one retransmission timer.  The receiver keeps nothing: it answers   *)
(* every data packet with a packet that names it and its path.  Since a    *)
(* path and its reverse path are FIFO, an answer for an entry that is not  *)
(* the first of its list means that everything before it was lost; the     *)
(* timer declares the whole list lost.  Lost segments of a flow are sent   *)
(* again, before new ones, on whatever path the routing picks.             *)
(*                                                                         *)
(* Unit of sequence numbers: one segment of an MTU.  A switch that drops a *)
(* packet, a full buffer or a bit error is LoseData or LoseAck.  Where the *)
(* code has an NS_ASSERT the action is disabled when the assertion fails,  *)
(* and AssertsHold says that none does.                                    *)
(* The NIC works through the flows that may send until none is left, then  *)
(* it rests until a handler calls TriggerTransmit: `awake`.  A trigger is  *)
(* served at once when the port is ready and after the packet being sent   *)
(* when it is busy: Send is a step of its own.                             *)
(***************************************************************************)
EXTENDS Integers, SequencesExt, FiniteSets

CONSTANTS
    Flow,       \* the flows of the sending host
    Path,       \* the paths of the path information table
    Size,       \* [Flow -> segments of the flow]
    MaxWin,     \* window of a flow at its initial rate, in segments
    SafeRto,    \* TRUE: the timer outlasts everything in flight on its path
    OtherTraffic,   \* TRUE: the host also receives data and answers it
    MaxFlight   \* bound: packets and answers in flight on one path

ASSUME LapsAssumption ==
    /\ Size \in [Flow -> Nat \ {0}]
    /\ MaxWin \in Nat \ {0}
    /\ SafeRto \in BOOLEAN /\ OtherTraffic \in BOOLEAN
    /\ MaxFlight \in Nat \ {0}

VARIABLES
    snd_una,        \* [Flow -> all segments below are answered]
    max_next_seq,   \* [Flow -> all segments below were sent at least once]
    sacked,         \* [Flow -> answered segments at or above snd_una]
    lossy,          \* [Flow -> m_lossy_data: segments to send again, in order]
    win,            \* [Flow -> the window GetWinForLaps derives from the rate]
    finished,       \* [Flow -> QpComplete was called]
    outstanding,    \* [Path -> m_outstanding_data: <<flow, segment>> in order]
    rto,            \* [Path -> the retransmission timer is running]
    awake,          \* the NIC is sending or DequeueAndTransmit was triggered
    data,           \* [Path -> data packets in flight]
    acks,           \* [Path -> answers in flight on the reverse path]
    delivered       \* [Flow -> segments that reached the receiver]

flowVars == <<snd_una, max_next_seq, sacked, lossy, win, finished>>
pathVars == <<outstanding, rto>>
netVars  == <<data, acks>>
vars == <<flowVars, pathVars, awake, netVars, delivered>>

Segment(f) == 0 .. (Size[f] - 1)
Entry == UNION {{f} \X Segment(f) : f \in Flow}
-----------------------------------------------------------------------------
(***************************************************************************)
(* The queue pair of a flow.                                               *)
(***************************************************************************)
GetOnTheFly(f) ==
    (max_next_seq[f] - snd_una[f]) - Len(lossy[f]) - Cardinality(sacked[f])

\* Mutant: one segment past the end of the flow.
GetBytesLeftOneMore(f) ==
    IF lossy[f] # <<>> THEN 1 ELSE Size[f] + 1 - max_next_seq[f]

GetBytesLeft(f) ==
    IF lossy[f] # <<>> THEN 1 ELSE Size[f] - max_next_seq[f]

\* Mutant: the segment to be sent is not counted.
WindowOpenOneMore(f) == GetOnTheFly(f) <= win[f]

\* IsWinBoundForLaps is false and CanIrnTransmitForLaps is true.
WindowOpen(f) == GetOnTheFly(f) + 1 <= win[f]

\* Mutant: the highest answer is taken for a cumulative one.
FirstGapOverHoles(S, u) == CHOOSE n \in {m + 1 : m \in S} : n - 1 \in S /\ \A m \in S : m < n

\* The first segment at or above u that is not in S.
FirstGap(S, u) ==
    CHOOSE n \in u .. (u + Cardinality(S)) :
        n \notin S /\ \A m \in u .. (n - 1) : m \in S

\* The segment GetNxtPacket takes: the first lost one, else a new one.
NextSegment(f) == IF lossy[f] # <<>> THEN Head(lossy[f]) ELSE max_next_seq[f]

(***************************************************************************)
(* The loss detector: entry e of path p was answered.                      *)
(***************************************************************************)
IsOutstanding(p, e) == Contains(outstanding[p], e)

Position(p, e) == SelectInSeq(outstanding[p], LAMBDA x : x = e)

\* What list q holds for flow f, in order: its k-th entry of the flow is the
\* one with k entries of the flow up to it.
SegmentsOf(q, f) ==
    LET mine == {i \in DOMAIN q : q[i][1] = f}
        Nth(k) == CHOOSE i \in mine : Cardinality({j \in mine : j <= i}) = k
    IN  [k \in 1 .. Cardinality(mine) |-> q[Nth(k)][2]]

\* Mutant: a second loss replaces the first instead of joining it.
DeclareLostAfresh(q) ==
    lossy' = [f \in Flow |-> IF SegmentsOf(q, f) = <<>> THEN lossy[f]
                                                       ELSE SegmentsOf(q, f)]

\* Every flow finds its part of the lost entries q at the end of its list.
DeclareLost(q) == lossy' = [f \in Flow |-> lossy[f] \o SegmentsOf(q, f)]

\* Mutant: the loop of the detector does not stop at the answered entry.
StillOutNone(p, i) == <<>>

\* What stays in the list when its entry i is answered: the later entries.
StillOut(p, i) == SubSeq(outstanding[p], i + 1, Len(outstanding[p]))

\* Mutants: the timer restarts for an empty list; it never restarts.
RestartOrCancelAlways(p, rest) == rto' = [rto EXCEPT ![p] = TRUE]
RestartOrCancelNever(p, rest) == rto' = [rto EXCEPT ![p] = FALSE]

\* SetTimeoutForLapsPerPath or CancelRtoPerPath, by what is left in the list.
RestartOrCancel(p, rest) == rto' = [rto EXCEPT ![p] = rest # <<>>]

\* Mutant: a segment that came before is not answered again.
AnswerToNew(f, s) == IF s \in delivered[f] THEN <<>> ELSE <<<<f, s>>>>

\* The answers to a data packet: one, that names it.
AnswerTo(f, s) == <<<<f, s>>>>

\* Mutant: the handler does not tell the NIC.
TriggerTransmitNever == UNCHANGED awake

TriggerTransmit == awake' = TRUE
-----------------------------------------------------------------------------
Init ==
    /\ snd_una = [f \in Flow |-> 0]
    /\ max_next_seq = [f \in Flow |-> 0]
    /\ sacked = [f \in Flow |-> {}]
    /\ lossy = [f \in Flow |-> <<>>]
    /\ win = [f \in Flow |-> MaxWin]
    /\ finished = [f \in Flow |-> FALSE]
    /\ outstanding = [p \in Path |-> <<>>]
    /\ rto = [p \in Path |-> FALSE]
    /\ awake = TRUE      \* NewQp
    /\ data = [p \in Path |-> <<>>]
    /\ acks = [p \in Path |-> <<>>]
    /\ delivered = [f \in Flow |-> {}]

(***************************************************************************)
(* DequeueAndTransmitOnSrcHostForLAPS picks flow f and path p: GetNxtPacket*)
(* takes the segment from the queue pair, the NIC sends it and             *)
(* AppendOutStandingDataPerPath records it and restarts the timer.         *)
(***************************************************************************)
GetNxtPacket(f, s) ==
    /\ s >= snd_una[f]
    /\ lossy' = [lossy EXCEPT ![f] = IF @ # <<>> THEN Tail(@) ELSE @]
    /\ max_next_seq' = [max_next_seq EXCEPT ![f] = IF @ < s + 1 THEN s + 1 ELSE @]

AppendOutStandingDataPerPath(p, e) ==
    /\ outstanding' = [outstanding EXCEPT ![p] = Append(@, e)]
    /\ rto' = [rto EXCEPT ![p] = TRUE]

MaySend(f) ==
    /\ ~finished[f]
    /\ GetBytesLeft(f) > 0
    /\ WindowOpen(f)

Send(f, p) ==
    LET s == NextSegment(f) IN
    /\ awake /\ MaySend(f)
    /\ Len(data[p]) + Len(acks[p]) < MaxFlight
    /\ GetNxtPacket(f, s)
    /\ AppendOutStandingDataPerPath(p, <<f, s>>)
    /\ data' = [data EXCEPT ![p] = Append(@, <<f, s>>)]
    /\ UNCHANGED <<snd_una, sacked, win, finished, awake, acks, delivered>>

\* DequeueAndTransmit finds no flow: nothing will call it before a trigger.
Rest ==
    /\ awake
    /\ \A f \in Flow : ~MaySend(f)
    /\ awake' = FALSE
    /\ UNCHANGED <<flowVars, pathVars, netVars, delivered>>

\* The answer to a packet of another host's flow goes out by the same NIC.
ReceiveOther ==
    /\ OtherTraffic /\ ~awake
    /\ TriggerTransmit
    /\ UNCHANGED <<flowVars, pathVars, netVars, delivered>>

\* ReceiveUdpOnDstHostForLaps: answer the packet, unless the flow is over.
ReceiveUdp(p) ==
    /\ data[p] # <<>>
    /\ LET f == Head(data[p])[1]
           s == Head(data[p])[2]
       IN  IF finished[f]
           THEN UNCHANGED <<acks, delivered>>
           ELSE /\ delivered' = [delivered EXCEPT ![f] = @ \cup {s}]
                /\ acks' = [acks EXCEPT ![p] = @ \o AnswerTo(f, s)]
    /\ data' = [data EXCEPT ![p] = Tail(@)]
    /\ UNCHANGED <<flowVars, pathVars, awake>>

(***************************************************************************)
(* ReceiveAckForLaps, for an answer to a flow that still has a queue pair: *)
(* what was sent on the path before the answered entry is lost, the timer  *)
(* restarts or stops, the segment is acknowledged, and the flow completes  *)
(* or its rate, hence its window, changes and the NIC is triggered.  (The  *)
(* branch that completes the flow returns before TriggerTransmit.)         *)
(***************************************************************************)
checkOutstandingDataAndUpdateLossyData(p, e) ==
    LET i == Position(p, e) IN
    /\ IsOutstanding(p, e)
    /\ outstanding' = [outstanding EXCEPT ![p] = StillOut(p, i)]
    /\ DeclareLost(SubSeq(outstanding[p], 1, i - 1))
    /\ RestartOrCancel(p, StillOut(p, i))

\* The blocks of IrnSackManager as a set: SackManager implements this.
AcknowledgeForLaps(f, s) ==
    LET got == sacked[f] \cup {s}
        una == FirstGap(got, snd_una[f])
    IN  /\ s >= snd_una[f]
        /\ snd_una' = [snd_una EXCEPT ![f] = una]
        /\ sacked' = [sacked EXCEPT ![f] = {m \in got : m >= una}]

QpComplete(f) ==
    /\ snd_una'[f] >= Size[f]
    /\ finished' = [finished EXCEPT ![f] = TRUE]
    /\ UNCHANGED <<win, awake>>

\* The rate follows the delays that the answers report: any window.
HandleAckLaps(f) ==
    /\ snd_una'[f] < Size[f]
    /\ \E w \in 1 .. MaxWin : win' = [win EXCEPT ![f] = w]
    /\ TriggerTransmit
    /\ UNCHANGED finished

ReceiveAckLive(p, f, s) ==
    /\ checkOutstandingDataAndUpdateLossyData(p, <<f, s>>)
    /\ AcknowledgeForLaps(f, s)
    /\ QpComplete(f) \/ HandleAckLaps(f)
    /\ acks' = [acks EXCEPT ![p] = Tail(@)]
    /\ UNCHANGED <<max_next_seq, data, delivered>>

ReceiveAck(p) ==
    /\ acks[p] # <<>>
    /\ LET f == Head(acks[p])[1]
           s == Head(acks[p])[2]
       IN  IF finished[f]
           THEN /\ acks' = [acks EXCEPT ![p] = Tail(@)]
                /\ UNCHANGED <<flowVars, pathVars, awake, data, delivered>>
           ELSE ReceiveAckLive(p, f, s)

(***************************************************************************)
(* HandleTimeoutForLapsPerPath: everything outstanding on the path is      *)
(* lost.  The period is a constant 8 ms, whatever the path.  SafeRto says  *)
(* that this outlasts every queue of the path: nothing is in flight.       *)
(***************************************************************************)
HandleTimeout(p) ==
    /\ rto[p]
    /\ SafeRto => data[p] = <<>> /\ acks[p] = <<>>
    /\ outstanding[p] # <<>>
    /\ DeclareLost(outstanding[p])
    /\ outstanding' = [outstanding EXCEPT ![p] = <<>>]
    /\ rto' = [rto EXCEPT ![p] = FALSE]
    /\ TriggerTransmit
    /\ UNCHANGED <<snd_una, max_next_seq, sacked, win, finished, netVars,
                   delivered>>

\* The network drops the next packet or answer of the path.
LoseData(p) ==
    /\ data[p] # <<>>
    /\ data' = [data EXCEPT ![p] = Tail(@)]
    /\ UNCHANGED <<flowVars, pathVars, awake, acks, delivered>>

LoseAck(p) ==
    /\ acks[p] # <<>>
    /\ acks' = [acks EXCEPT ![p] = Tail(@)]
    /\ UNCHANGED <<flowVars, pathVars, awake, data, delivered>>

\* All flows are complete and the last packets have left the network.
Quiet ==
    /\ \A f \in Flow : finished[f]
    /\ \A p \in Path : data[p] = <<>> /\ acks[p] = <<>>
    /\ UNCHANGED vars

Next ==
    \/ \E f \in Flow, p \in Path : Send(f, p)
    \/ \E p \in Path :
        \/ ReceiveUdp(p) \/ ReceiveAck(p) \/ HandleTimeout(p)
        \/ LoseData(p) \/ LoseAck(p)
    \/ Rest \/ ReceiveOther
    \/ Quiet

Spec == Init /\ [][Next]_vars

(***************************************************************************)
(* Fairness.  While it is awake the NIC serves every flow that may send,   *)
(* round robin; a timer that stays armed fires; a path does not drop       *)
(* everything for ever: packets that keep coming at its end are sometimes  *)
(* received; a host with other traffic gets another packet.                *)
(***************************************************************************)
Fairness ==
    /\ \A f \in Flow : WF_vars(\E p \in Path : Send(f, p))
    /\ WF_vars(ReceiveOther)
    /\ \A p \in Path :
        /\ WF_vars(HandleTimeout(p))
        /\ SF_vars(ReceiveUdp(p))
        /\ SF_vars(ReceiveAck(p))
        /\ WF_vars(ReceiveUdp(p) \/ LoseData(p))
        /\ WF_vars(ReceiveAck(p) \/ LoseAck(p))

FairSpec == Spec /\ Fairness
-----------------------------------------------------------------------------
TypeOK ==
    /\ snd_una \in [Flow -> Nat] /\ max_next_seq \in [Flow -> Nat]
    /\ sacked \in [Flow -> SUBSET Nat] /\ delivered \in [Flow -> SUBSET Nat]
    /\ lossy \in [Flow -> Seq(Nat)]
    /\ win \in [Flow -> 1 .. MaxWin]
    /\ \A f \in Flow :
        /\ snd_una[f] <= Size[f] /\ max_next_seq[f] <= Size[f]
        /\ sacked[f] \cup delivered[f] \cup ToSet(lossy[f]) \subseteq Segment(f)
    /\ finished \in [Flow -> BOOLEAN]
    /\ outstanding \in [Path -> Seq(Entry)]
    /\ rto \in [Path -> BOOLEAN]
    /\ awake \in BOOLEAN
    /\ data \in [Path -> Seq(Entry)]
    /\ acks \in [Path -> Seq(Entry)]

\* Where the lists hold segment s of flow f.
OutstandingAt(f, s) ==
    UNION {{p} \X {i \in 1 .. Len(outstanding[p]) : outstanding[p][i] = <<f, s>>} :
           p \in Path}
LossyAt(f, s) == {i \in 1 .. Len(lossy[f]) : lossy[f][i] = s}
Answered(f) == {s \in Segment(f) : s < snd_una[f]} \cup sacked[f]

(***************************************************************************)
(* No segment is forgotten and none is accounted for twice: each segment   *)
(* that was ever sent is answered, or waits in one path's list, or waits   *)
(* to be sent again -- exactly one of the three, once, whatever was lost   *)
(* and whoever found out.  Everything else rests on it: the window formula *)
(* of GetOnTheFlyForLaps, termination, and no needless retransmission.     *)
(***************************************************************************)
EachSegmentOnce ==
    \A f \in Flow : \A s \in Segment(f) :
        Cardinality(OutstandingAt(f, s)) + Cardinality(LossyAt(f, s))
            + (IF s \in Answered(f) THEN 1 ELSE 0)
        = (IF s < max_next_seq[f] THEN 1 ELSE 0)

(***************************************************************************)
(* An answer for a flow that is not over finds the entry it names in the   *)
(* list of its path (the NS_ASSERTs of rdma-hw.cc, lines 1751 and 1813).   *)
(***************************************************************************)
AnswerFindsEntry ==
    \A p \in Path :
        acks[p] # <<>> /\ ~finished[Head(acks[p])[1]]
            => IsOutstanding(p, Head(acks[p]))

(***************************************************************************)
(* The NS_ASSERTs of the sender hold: an answer finds its entry in the     *)
(* list of its path and is not for an acknowledged segment, a lost segment *)
(* is not below snd_una when it is sent again, the timer of a path never   *)
(* fires with an empty list, GetOnTheFlyForLaps is not negative            *)
(* (rdma-hw.cc 1751, 1813, 2734; rdma-queue-pair.cc 550, 641, 717).        *)
(***************************************************************************)
AssertsHold ==
    /\ AnswerFindsEntry
    /\ \A f \in Flow :
        /\ GetOnTheFly(f) >= 0
        /\ MaySend(f) => NextSegment(f) >= snd_una[f]
    /\ \A p \in Path :
        /\ rto[p] => outstanding[p] # <<>>
        /\ acks[p] # <<>> /\ ~finished[Head(acks[p])[1]]
              => Head(acks[p])[2] >= snd_una[Head(acks[p])[1]]

(***************************************************************************)
(* The window bounds what is really in the lists, over all paths, although *)
(* the code never counts it: it subtracts three other quantities.          *)
(***************************************************************************)
InFlightWithinWindow ==
    \A f \in Flow :
        Cardinality(UNION {OutstandingAt(f, s) : s \in Segment(f)}) <= MaxWin

(***************************************************************************)
(* Data that may be lost always has a timer: without it the flow would     *)
(* wait for ever when the rest of a path's packets is dropped.             *)
(***************************************************************************)
TimerRuns == \A p \in Path : outstanding[p] # <<>> => rto[p]

(***************************************************************************)
(* A segment is declared lost, by the order of answers or by the timer,    *)
(* only when neither its packet nor its answer is in the network: nothing  *)
(* is sent twice for nothing, and no packet outlives its flow.             *)
(***************************************************************************)
NoSpuriousLoss ==
    \A p \in Path : ToSet(data[p]) \cup ToSet(acks[p]) \subseteq ToSet(outstanding[p])

(***************************************************************************)
(* The NIC rests over a segment that may be sent only once some flow has   *)
(* completed: every other handler that hands a flow something to send, for *)
(* whichever flow, also wakes the NIC.  (The exception is the run          *)
(* LapsStall; a flow alone on its host is never left so.)                  *)
(***************************************************************************)
SleepsOnlyAfterCompletion ==
    ~awake /\ (\E f \in Flow : MaySend(f)) => \E f \in Flow : finished[f]

(***************************************************************************)
(* Every flow completes, on lossy paths, with any window of at least one   *)
(* segment that the rate control leaves (the output of the simulator       *)
(* computes a completion time for every flow, userdefinedfunction.cc 2454).*)
(* It holds for a flow alone, or on a host with other traffic.  Else the   *)
(* answer that completes one flow may declare all that another has in      *)
(* flight lost, and nothing wakes the NIC to send it again.                *)
(***************************************************************************)
EveryFlowCompletes == <>(\A f \in Flow : finished[f])

(***************************************************************************)
(* The transport implements ReliableDelivery: completion is reported once, *)
(* after every segment reached the receiver.                               *)
(***************************************************************************)
RD == INSTANCE ReliableDelivery
ImplementsReliableDelivery == RD!Spec

(***************************************************************************)
(* snd_una and sacked of a flow change as AckSet says, one segment at a    *)
(* time: SackManager, which implements AckSet, may stand in their place.   *)
(***************************************************************************)
Acked(f) == INSTANCE AckSet WITH
    m_size <- Size[f], una <- snd_una[f], sacked <- sacked[f], answer <- <<>>

AckFlow(f) == \E s \in Segment(f) : s >= snd_una[f] /\ Acked(f)!Advance(s, s + 1)

EachFlowKeepsAckSet ==
    /\ \A f \in Flow : snd_una[f] = 0 /\ sacked[f] = {}
    /\ [][\A f \in Flow : AckFlow(f) \/ UNCHANGED <<snd_una[f], sacked[f]>>]_vars
=============================================================================
