------------------------------ MODULE ConWeave ------------------------------
(* ConWeave between the ToR switch of a sender (Tx) and of a receiver (Rx)  *)
(* for one flow: the Tx ToR reroutes the flow in epochs of two phases, the  *)
(* Rx ToR holds back, in a virtual output queue, packets of the new path    *)
(* until the last packet of the old path, the TAIL, has passed.             *)
(*                                                                          *)
(* A packet's id is its rank of arrival at the Tx ToR and stands for the    *)
(* time stamps too. Deadlines fall at any moment: nothing in the code ties  *)
(* an idle gap, the waiting time of the queue or the age of an entry to     *)
(* what is still on its way. One that falls too early disturbs the flow,    *)
(* which the history variable `disturbed` records until the flow begins     *)
(* anew with nothing on its way. Which path is good, and so which is taken, *)
(* is open: congestion notices only narrow the choice.                      *)
EXTENDS Naturals, Sequences, SequencesExt, FiniteSets

CONSTANTS
    Path,           \* the paths between the two ToR switches, each FIFO
    NoPath,         \* CW_DEFAULT_32BIT
    MaxPackets,     \* bound on the packets of the flow
    Lossy,          \* packets and replies may be dropped
    Early           \* the deadlines that may fall too early: with all four, at any
                    \* time; with fewer, what the others alone can do

ASSUME ConWeaveAssumption ==
    /\ Path # {} /\ NoPath \notin Path
    /\ MaxPackets \in Nat \ {0}
    /\ Lossy \in BOOLEAN
    /\ Early \subseteq {"expiry", "flush", "aging", "txFirst"}

VARIABLES
    tx,         \* m_conweaveTxTable at the Tx ToR, the entry of the flow
    rx,         \* m_conweaveRxTable at the Rx ToR, the entry of the flow
    voq,        \* m_voqMap at the Rx ToR: the queue of the flow
    net,        \* the packets on each path
    replies,    \* the replies on their way back, on one path
    sent, out, lost,    \* the packets sent, handed to the host, and dropped
    disturbed           \* a deadline fell too early since the flow last began anew

vars == <<tx, rx, voq, net, replies, sent, out, lost, disturbed>>

Packet == [id : 1..MaxPackets, epoch : 1..MaxPackets, phase : {0, 1},
           flag : {"INIT", "TAIL", "DATA"}, tail : 0..MaxPackets]
Reply == [flag : {"INIT", "TAIL"}, epoch : 1..MaxPackets]

\* The phase a reply carries: SendReply derives it from the flag.
PhaseOf(r) == IF r.flag = "TAIL" THEN 1 ELSE 0

conweaveTxState ==
    [known |-> FALSE, epoch |-> 0, phase |-> 0, path |-> NoPath,
     timer |-> "none", stabilized |-> TRUE, tail |-> 0]

conweaveRxState ==
    [known |-> FALSE, epoch |-> 1, phase |-> 0, cache |-> FALSE,
     phase0Tx |-> 0, reordering |-> FALSE, flushing |-> FALSE]

Init ==
    /\ tx = conweaveTxState
    /\ rx = conweaveRxState
    /\ voq = << >>
    /\ net = [p \in Path |-> << >>]
    /\ replies = << >>
    /\ sent = 0
    /\ out = << >>
    /\ lost = {}
    /\ disturbed = FALSE

OnPath(p) == ToSet(net[p])
InFlight == UNION {OnPath(p) : p \in Path}
Ids(packets) == {pk.id : pk \in packets}

\* Nothing of the flow is on its way.
Quiet == InFlight = {} /\ voq = << >> /\ replies = << >>

\* A deadline of kind d may fall now, and disturbs the flow unless it is in time.
Falls(d, inTime) ==
    /\ inTime \/ d \in Early
    /\ disturbed' = (disturbed \/ ~inTime)

-----------------------------------------------------------------------------
(* The Tx ToR *)

\* The next packet of the flow leaves on path p.
SendOn(p, epoch, phase, flag, tail) ==
    /\ sent < MaxPackets
    /\ sent' = sent + 1
    /\ net' = [net EXCEPT ![p] = Append(@, [id |-> sent + 1, epoch |-> epoch,
                               phase |-> phase, flag |-> flag, tail |-> tail])]
    /\ UNCHANGED <<rx, voq, replies, out, lost>>

\* A new epoch on path p. After a quiet time it finds a receiver that is behind,
\* as if the flow had just begun.
\* Mutant: the time of the last TAIL is kept.
NewEpochKeepTail(p) ==
    /\ tx' = [known |-> TRUE, epoch |-> tx.epoch + 1, phase |-> 0, path |-> p,
              timer |-> "running", stabilized |-> FALSE, tail |-> tx.tail]
    /\ SendOn(p, tx.epoch + 1, 0, "INIT", tx.tail)
NewEpoch(p) ==
    /\ tx' = [known |-> TRUE, epoch |-> tx.epoch + 1, phase |-> 0, path |-> p,
              timer |-> "running", stabilized |-> FALSE, tail |-> 0]
    /\ SendOn(p, tx.epoch + 1, 0, "INIT", 0)

BeginsAnew == Quiet /\ (rx.known => rx.epoch <= tx.epoch)

\* The first packet, or one after an idle gap: any path may be chosen. The gap is
\* in time if nothing is in flight or held.
SendExpired ==
    /\ \E p \in Path : NewEpoch(p)
    /\ \/ BeginsAnew /\ disturbed' = FALSE
       \/ ~BeginsAnew /\ Falls("expiry", ~tx.known \/ (InFlight = {} /\ voq = << >>))

\* The last rerouting is settled: a new epoch on the same path.
SendStabilized ==
    /\ tx.known
    /\ tx.stabilized
    /\ NewEpoch(tx.path)
    /\ disturbed' = (disturbed /\ ~BeginsAnew)

\* No answer to INIT in time: the last packet of the old path announces that
\* the following ones may use another.
\* Mutant: the TAIL leaves on the new path already.
SendTailNewPath ==
    /\ tx.known /\ ~tx.stabilized
    /\ tx.timer = "out"
    /\ \E p \in Path :
        /\ tx' = [tx EXCEPT !.timer = "none", !.phase = 1, !.path = p, !.tail = sent + 1]
        /\ SendOn(p, tx.epoch, 0, "TAIL", sent + 1)
    /\ UNCHANGED disturbed
SendTail ==
    /\ tx.known /\ ~tx.stabilized
    /\ tx.timer = "out"
    /\ \E p \in Path :
        tx' = [tx EXCEPT !.timer = "none", !.phase = 1, !.path = p, !.tail = sent + 1]
    /\ SendOn(tx.path, tx.epoch, 0, "TAIL", sent + 1)
    /\ UNCHANGED disturbed

SendData ==
    /\ tx.known /\ ~tx.stabilized
    /\ tx.timer # "out"
    /\ SendOn(tx.path, tx.epoch, tx.phase, "DATA", tx.tail)
    /\ UNCHANGED <<tx, disturbed>>

\* The reply deadline passes; the next packet or reply finds it passed.
ReplyDeadline ==
    /\ tx.timer = "running"
    /\ tx' = [tx EXCEPT !.timer = "out"]
    /\ UNCHANGED <<rx, voq, net, replies, sent, out, lost, disturbed>>

\* A reply counts for its own epoch and phase; one to INIT only in time.
\* Mutant: the phase is not compared.
TimelyAnyPhase(r) ==
    /\ tx.known
    /\ r.epoch = tx.epoch
    /\ r.flag = "INIT" => tx.timer # "out"
Timely(r) ==
    /\ tx.known
    /\ r.epoch = tx.epoch
    /\ PhaseOf(r) = tx.phase
    /\ r.flag = "INIT" => tx.timer = "running"

\* The answer to a TAIL takes longer than the nanosecond in which that TAIL
\* flushes the queue.
disposeReplyPacket ==
    /\ replies # << >>
    /\ Head(replies).flag = "TAIL" => ~rx.flushing
    /\ LET r == Head(replies) IN
        tx' = IF Timely(r) THEN [tx EXCEPT !.stabilized = TRUE, !.timer = "none"] ELSE tx
    /\ replies' = Tail(replies)
    /\ UNCHANGED <<rx, voq, net, sent, out, lost, disturbed>>

-----------------------------------------------------------------------------
(* The Rx ToR *)

\* rxEntry after the epoch, phase and cache updates for packet pk, which is of
\* the current or a new epoch. A packet of phase 0 sets a new deadline for the
\* queue; a TAIL puts it one nanosecond ahead (flushing).
\* Mutant: a TAIL sets the phase though packets are held back.
EpochToCheckTail(pk) ==
    LET new == rx.epoch < pk.epoch IN
    [rx EXCEPT
        !.known = TRUE,
        !.epoch = pk.epoch,
        !.phase = IF new THEN IF pk.flag = "TAIL" THEN 1 ELSE 0
                  ELSE IF pk.flag = "TAIL" THEN 1 ELSE @,
        !.cache = pk.phase = 0 \/ (@ /\ ~new),
        !.phase0Tx = IF pk.phase = 0 THEN pk.id ELSE @,
        !.flushing = IF pk.phase = 0 /\ rx.reordering THEN pk.flag = "TAIL" ELSE @]
\* Mutant: a new epoch does not start in phase 0.
EpochToCheckOldPhase(pk) ==
    LET new == rx.epoch < pk.epoch IN
    [rx EXCEPT
        !.known = TRUE,
        !.epoch = pk.epoch,
        !.phase = IF pk.flag = "TAIL" /\ ~rx.reordering THEN 1 ELSE @,
        !.cache = pk.phase = 0 \/ (@ /\ ~new),
        !.phase0Tx = IF pk.phase = 0 THEN pk.id ELSE @,
        !.flushing = IF pk.phase = 0 /\ rx.reordering THEN pk.flag = "TAIL" ELSE @]
epochToCheck(pk) ==
    LET new == rx.epoch < pk.epoch IN
    [rx EXCEPT
        !.known = TRUE,
        !.epoch = pk.epoch,
        !.phase = IF new THEN IF pk.flag = "TAIL" THEN 1 ELSE 0
                  ELSE IF pk.flag = "TAIL" /\ ~rx.reordering THEN 1 ELSE @,
        !.cache = pk.phase = 0 \/ (@ /\ ~new),
        !.phase0Tx = IF pk.phase = 0 THEN pk.id ELSE @,
        !.flushing = IF pk.phase = 0 /\ rx.reordering THEN pk.flag = "TAIL" ELSE @]

OutOfOrder(entry, pk) == pk.phase > entry.phase

Answer(pk) ==
    replies' = IF pk.flag = "DATA" THEN replies
               ELSE Append(replies, [flag |-> pk.flag, epoch |-> pk.epoch])

\* A packet of an earlier epoch passes, and gets no answer.
PassPrevious(pk) ==
    /\ rx.epoch > pk.epoch
    /\ rx' = [rx EXCEPT !.known = TRUE]
    /\ out' = Append(out, pk.id)
    /\ UNCHANGED <<voq, replies>>

\* A packet of phase 0, or of phase 1 after the TAIL, passes.
PassInOrder(pk) ==
    /\ rx.epoch <= pk.epoch
    /\ ~OutOfOrder(epochToCheck(pk), pk)
    /\ rx' = epochToCheck(pk)
    /\ out' = Append(out, pk.id)
    /\ Answer(pk)
    /\ UNCHANGED voq

\* A packet of phase 1 that overtook the TAIL is held back.
HoldBack(pk) ==
    /\ rx.epoch <= pk.epoch
    /\ OutOfOrder(epochToCheck(pk), pk)
    /\ rx' = [epochToCheck(pk) EXCEPT !.reordering = TRUE]
    /\ voq' = Append(voq, pk.id)
    /\ Answer(pk)
    /\ UNCHANGED out

Receive(p) ==
    /\ net[p] # << >>
    /\ LET pk == Head(net[p]) IN
        PassPrevious(pk) \/ PassInOrder(pk) \/ HoldBack(pk)
    /\ net' = [net EXCEPT ![p] = Tail(@)]
    /\ UNCHANGED <<tx, sent, lost, disturbed>>

\* EnforceFlushAll: the deadline of the queue, set by its first packet and put
\* off by each packet of phase 0, or the nanosecond after a TAIL. It is in time
\* if all that was sent before what is held has come through.
\* Mutant: only a TAIL releases the queue, no deadline does.
FlushInTimeAfterTail ==
    rx.flushing
FlushInTime ==
    rx.flushing \/ \A i \in Ids(InFlight) : i > Head(voq)

FlushAllImmediately ==
    /\ voq # << >>
    /\ Falls("flush", FlushInTime)
    /\ rx' = [rx EXCEPT !.reordering = FALSE, !.flushing = FALSE,
                         !.phase = 1]
    /\ out' = out \o voq
    /\ voq' = << >>
    /\ UNCHANGED <<tx, net, replies, sent, lost>>

-----------------------------------------------------------------------------
(* Ageing and loss. Each switch erases its entries 2 ms after the last       *)
(* packet, on its own, and an answer does not refresh them.                 *)

\* In time: nothing is on its way, and the Rx entry is gone already. The Tx ToR
\* saw its last packet first, so its entry may well go first.
AgeTx ==
    /\ tx.known
    /\ Falls(IF Quiet THEN "txFirst" ELSE "aging", Quiet /\ ~rx.known)
    /\ tx' = conweaveTxState
    /\ UNCHANGED <<rx, voq, net, replies, sent, out, lost>>

\* In time: nothing is on its way. The queue is empty: its deadline is far below
\* 2 ms.
AgeRx ==
    /\ rx.known
    /\ voq = << >>
    /\ Falls("aging", Quiet)
    /\ rx' = conweaveRxState
    /\ UNCHANGED <<tx, voq, net, replies, sent, out, lost>>

LosePacket(p) ==
    /\ Lossy
    /\ net[p] # << >>
    /\ lost' = lost \cup {Head(net[p]).id}
    /\ net' = [net EXCEPT ![p] = Tail(@)]
    /\ UNCHANGED <<tx, rx, voq, replies, sent, out, disturbed>>

LoseReply ==
    /\ Lossy
    /\ replies # << >>
    /\ replies' = Tail(replies)
    /\ UNCHANGED <<tx, rx, voq, net, sent, out, lost, disturbed>>

Send == SendExpired \/ SendStabilized \/ SendTail \/ SendData

Next ==
    \/ Send \/ ReplyDeadline \/ disposeReplyPacket
    \/ \E p \in Path : Receive(p) \/ LosePacket(p)
    \/ FlushAllImmediately
    \/ AgeTx \/ AgeRx \/ LoseReply

Spec == Init /\ [][Next]_vars

\* Packets on a path arrive. The deadline of the queue is an event of the
\* simulator: it falls at the latest when all that was sent before has come.
FairSpec ==
    /\ Spec
    /\ \A p \in Path : WF_vars(Receive(p))
    /\ WF_vars(FlushAllImmediately /\ FlushInTime)
-----------------------------------------------------------------------------
(* Properties *)

\* The fields keep their ranges; only a TAIL and what follows it in its epoch
\* carry the time of a TAIL, an earlier one.
TypeOK ==
    /\ tx \in [known : BOOLEAN, epoch : 0..MaxPackets, phase : {0, 1},
               path : Path \cup {NoPath}, timer : {"none", "running", "out"},
               stabilized : BOOLEAN, tail : 0..MaxPackets]
    /\ rx \in [known : BOOLEAN, epoch : 1..MaxPackets, phase : {0, 1}, cache : BOOLEAN,
               phase0Tx : 0..MaxPackets, reordering : BOOLEAN, flushing : BOOLEAN]
    /\ voq \in Seq(1..MaxPackets) /\ out \in Seq(1..MaxPackets)
    /\ replies \in Seq(Reply)
    /\ sent \in 0..MaxPackets /\ lost \subseteq 1..sent /\ disturbed \in BOOLEAN
    /\ \A pk \in InFlight :
        /\ pk \in Packet
        /\ pk.tail = 0 <=> pk.phase = 0 /\ pk.flag # "TAIL"
        /\ pk.tail <= pk.id

\* The assertions of the two ToR switches and the exit(1) of
\* updateExpectedToFlushTime: at any time a queue exists exactly while the entry
\* says reordering, and a reply deadline passes in phase 0 only. Unless the flow
\* is disturbed a packet of phase 1 in order finds no queue, and a packet with a
\* TAIL time is not told of an earlier one than phase 0.
AssertsHold ==
    /\ rx.reordering <=> voq # << >>
    /\ rx.flushing => rx.reordering
    /\ rx.reordering => rx.known
    /\ tx.timer = "out" => tx.phase = 0
    /\ disturbed \/ \A p \in Path : net[p] # << >> /\ rx.epoch <= Head(net[p]).epoch =>
        LET pk == Head(net[p])
            entry == epochToCheck(pk)
        IN  /\ pk.phase = 1 /\ ~OutOfOrder(entry, pk) => ~rx.reordering
            /\ entry.cache /\ pk.tail # 0 => pk.tail >= entry.phase0Tx
            /\ pk.phase = 0 => entry.cache

\* The receiver is never ahead of the sender, in epochs or, within an epoch, in
\* phases: otherwise it takes packets for old ones, or rerouted ones for ones
\* in order.
NeverAhead ==
    rx.known /\ tx.known =>
        \/ rx.epoch < tx.epoch
        \/ rx.epoch = tx.epoch /\ rx.phase <= tx.phase

\* Only a deadline that falls too early puts the receiver ahead, and only until
\* the flow begins anew.
RxNotAhead == disturbed \/ NeverAhead

\* A sender that believes the flow stable is right, unless the flow is disturbed:
\* nothing is held back, and all that is in flight is on the path the flow uses.
StabilizedMeansSettled ==
    tx.known /\ tx.stabilized /\ ~disturbed =>
        /\ voq = << >>
        /\ \A p \in Path \ {tx.path} : net[p] = << >>

\* The host gets each packet at most once, whatever is rerouted and lost and
\* whenever the deadlines fall, and in the order in which they entered until one
\* falls too early; from then on, in order again once the flow begins anew.
Ordered == INSTANCE OrderedDelivery WITH ordered <- ~disturbed
ImplementsOrderedDelivery == Ordered!Spec

\* No packet is held back for ever, though the TAIL that would release it may
\* be lost.
NoneHeldForEver == voq # << >> ~> voq = << >>
=============================================================================
