# A TLA+ model of the LAPS simulator

This directory models the core of the LAPS simulator, a fork of ns-3.33 for
load balancing in RDMA data-centre networks: the switch with its memory
management unit (MMU) and priority flow control (PFC), the link layer, the
host's transmit scheduler, the multipath transport of LAPS with its loss
detector and retransmission timers, the go-back-N transport, and the rerouting
protocol ConWeave between top-of-rack switches.
TLC checks the modules on small instances; TLAPS proves their safety properties,
their action properties and the refinements between them for every instance.
Liveness is model-checked only.

File names below without a directory are in
`src/ns-3.33/src/point-to-point/model/`.

## 1. The system

| Component | Code | State | Operations | What is hard |
|---|---|---|---|---|
| Switch MMU | `switch-mmu.cc` | bytes per ingress queue, per egress queue, in the headroom, shared; `paused` | admit, charge, release a packet; test for pause and resume | two formulas, on the way in and out, must agree; unsigned arithmetic; hysteresis |
| Switch node | `switch-node.cc`, `network/utils/broadcom-egress-queue.cc` | egress queues of every port, round-robin pointer | `SendToDev`, `DoSwitchSend`, `SwitchNotifyDequeue`, `CheckAndSendPfc`, `CheckAndSendResume` | handlers nest: a departure sends a resume, which transmits on another port |
| Link layer | `qbb-net-device.cc`, `qbb-channel.cc` | `m_txMachineState`, `m_paused`, `m_resumeEvt`, `m_nextSend` | `DequeueAndTransmit`, `TransmitComplete`, `Receive`, `SendPfc`, `Resume` | lost wake-ups; PFC frames in flight; pauses that run out |
| LAPS transport | `rdma-hw.cc`, `rdma-queue-pair.cc` | per flow `snd_una`, `m_max_next_seq`, SACK blocks, `m_lossy_data`, rate; per path `m_outstanding_data` and a timer | send, receive and answer, `ReceiveAckForLaps`, `HandleTimeoutForLapsPerPath`, `QpComplete` | data of one flow is spread over the lists of all paths; an answer for one flow declares losses of others; timers against late answers |
| Go-back-N and IRN | same files | `snd_una`, `snd_nxt`, `m_retransmit`; at the receiver `ReceiverNextExpectedSeq`, `m_lastNACK`, `m_nackTimer` | `ReceiverCheckSeq`, `ReceiveAck`, `RecoverQueue`, `HandleTimeout` | late and overtaken answers, suppressed NACKs, a timer that only answers start |
| Host scheduler | `qbb-net-device.cc`, lines 107-309, 703-739 and 987-1084 | round-robin index, `nextAvail` of each flow, `m_nextSend` | pick a flow, schedule the next attempt | a flow that becomes ready at this very instant |
| Congestion control | `rdma-hw.cc`, lines 2811-2975 and 3628-3769 | rates, timers, stages | DCQCN, HPCC, TIMELY, DCTCP, LAPS | floating point |
| SmartFlow routing | `rdma-smartflow-routing.cc` | path tables with delays and time stamps, probing state | pick a path by weight, probe, expire | stale delays, probes in flight |
| Switch load balancers | `switch-node.cc` | flowlet, Conga and DRILL tables | pick an output port | ageing, feedback that is lost |
| ConWeave | `conweave-routing.cc` | at the sender's ToR epoch, phase, path, reply timer; at the receiver's epoch, phase, `_reordering` and the queue of packets held back | `RouteInput`: send DATA, INIT or TAIL, hold back or pass, answer, flush, age | two state machines that see each other only through packets that overtake, get lost or come late |
| Driver and applications | `rdma-driver.cc`, `applications/model/rdma-client.cc` | the list of flows | start a flow, record its end | none |
| Configuration and output | `userdefinedfunction/model/userdefinedfunction.cc` | tables read from files | set up, report | headroom and buffer formulas |

How they interact.  A simulator event is a handler that runs to completion, so
the actions of the models are handlers.  A host's `RdmaHw` hands packets to its
`QbbNetDevice` when the device asks for one; the device asks when a packet was
sent, when a timer `m_nextSend` fires, or when a handler calls
`TriggerTransmit`.  A switch port delivers a packet to `SwitchNode`, which
routes it, asks the MMU for admission and enqueues it at another port; when it
leaves, the port calls `SwitchNotifyDequeue`, which releases it from the MMU.
Admission may cause a PAUSE frame, release a RESUME frame, both on the port the
packet came in by.  The receiving host answers every LAPS data packet with a
packet that names it and its path, and that returns on the paired path.

What makes each component correct:

* MMU: the counters agree with each other and with the buffer; nobody holds
  more than was promised; no pause and no resume is forgotten.
* Switch: no lost wake-up; every departure is credited to the right port; the
  PFC frames, as a sequence, tell the story of the flag.
* Link: a PAUSE takes effect in time, so that a headroom of a round trip loses
  nothing, and a paused sender is freed.
* Transport: every segment is accounted for exactly once; a loss is declared
  only when there was one; the window bounds what is in flight; timers run when
  they must; each flow completes, once, after all its data arrived.
* Go-back-N: neither side gets ahead of what the other knows, whatever is old
  or overtaken; the flow never waits for something that cannot come.
* ConWeave: the receiving host sees no reordering though the flow changes paths,
  unless a deadline falls too early; what is held back is released; the
  receiver's idea of epoch and phase is not ahead of the sender's.

`PROJECT.json` lists the hazards one by one with the line where each bites.

## 2. Modules

| Module | Models | Implements |
|---|---|---|
| `PfcQueue` | abstract: one ingress queue as a byte count with a high and a low water mark | |
| `SwitchMmu` | the MMU, any ports, priorities and sizes | `PfcQueue`, per queue |
| `SwitchNode` | ports, egress queues and forwarding handlers around the MMU | `SwitchMmu` |
| `PfcLink` | one sender, the wire both ways, and one ingress queue in discrete time | uses `PfcQueue` |
| `AckSet` | abstract: the acknowledged bytes of a flow as a set | |
| `SackManager` | the interval list of `IrnSackManager` and `snd_una` | `AckSet` |
| `ReliableDelivery` | abstract: what a transport promises | |
| `LapsTransport` | flows, paths, loss detector, timers, receivers and a lossy network | `ReliableDelivery`; `AckSet`, per flow |
| `HostNic` | a host port: round robin over flows, pacing, and the scheduled attempt | |
| `GbnTransport` | go-back-N, sender and receiver, over paths that reorder and lose | `ReliableDelivery` |
| `OrderedDelivery` | abstract: packets leave at most once, and in order while order is kept | |
| `ConWeave` | both ToR switches for one flow, the paths between and the replies | `OrderedDelivery` |
| `Totals` | the sum of the values of a function, as a cardinality | |
| `MC...` | values of the constants for TLC | |
| `SwitchMmu_proofs`, `SwitchNode_proofs`, `PfcLink_proofs`, `HostNic_proofs`, `SackManager_proofs`, `LapsTransport_proofs`, `GbnTransport_proofs`, `ConWeave_proofs` | the theorems about each | |

The chain is: `PfcQueue` stands for the MMU in `PfcLink`, since `SwitchMmu`
implements it for each queue and `SwitchNode` implements `SwitchMmu` (both
proved).  `AckSet` stands for the SACK list in `LapsTransport`: `SackManager`
implements it, and `snd_una` and `sacked` of each flow change only as it says
(both proved).

### SwitchMmu
State: the arrays of the class under their own names.  The arithmetic is kept
as operators on the counters of one queue, in unsigned arithmetic of width
`Word`.  `Enter` is what `DoSwitchSend` does to the MMU with a packet it admits,
including the call of `CheckAndSendPfc`; `Leave` is what `SwitchNotifyDequeue`
does, including `CheckAndSendResume`.  The setters (`ConfigHdrm`,
`ConfigNPort`, ...) run before the simulation: constants.  `MmuAssumption`
asks that no packet exceeds `shared_bytes` and that the sums fit in a word; the
code relies on both and tests neither.

### SwitchNode
`SendToDev`, `DoSwitchSend` and the calls they make down to
`DequeueAndTransmit` are one event in the simulator.  A departure inside it may
send a RESUME frame on the ingress port, whose `SendPfc` calls
`DequeueAndTransmit` there before the outer call has started its own packet.
The model keeps the pending calls on a stack, `todo`; no event begins while it
is not empty, so the interleaving is that of the code and every step is at most
one step of `SwitchMmu`.  The inner call finds a PFC frame in queue 0, which is
not released from the MMU, so the nesting is one deep.  A packet never
leaves by the port it came in by (`Route`): there the inner call would make the
port busy before the outer one asserts that it is ready.  Routing is any pair
of `Route`.  A pause received from a peer (`ReceivePause`) may end by a RESUME
or by its timer (`Resume`), at any time.  `SwitchAssumption` adds to
`MmuAssumption` that `shared_bytes` is what `ConfigNPort` computes and that the
buffer, taken once per priority, fits in a counter: 8 priorities of 32 MB are a
sixteenth of it.  `BufferNotOvercommitted` is per priority: `ConfigNPort` divides
the buffer among the ports and not among their priorities, and the simulator
sends its data in one.

### PfcLink
One unit of time is the transmission of one packet at the rate of this link, so
headroom, thresholds and delays are whole packets; what overshoots by a part of
a packet is not visible.  The sender transmits whenever it is ready and not
paused, or idles.  `headroom` is the formula of `config_switch_mmu`: two delays
at the rate of host 0's NIC (`NicRate`), whatever the rate of the link
(`LinkRate`), and two packets.  A PFC frame goes to the end of queue 0: it waits
for the packet being sent and for answers and PFC frames before it, up to
`MaxWait`, never passes another frame, and then travels for `Delay`; data behind
it does not hold it up.  `RoundTrip` is what can come in until then.  The random
loss of `Receive` hits packets and PFC frames alike (`LosePacket`, `LosePfc`).
`misled` remembers that the last frame was lost or that its pause ended by the
timer while the switch still wanted it, as the switch does not repeat a PAUSE;
the next frame clears it.  So the properties hold for every excursion above the
threshold, not only for the first.

Is the headroom enough?  `PausedInTime` bounds what a queue has to take by
`RoundTrip`, which does not depend on the headroom.  The formula covers it on
links that are not faster than host 0's NIC if no PFC frame waits for more than
one packet (`HeadroomIsEnough`).  On a faster link, or behind several small
answers that add up to more than a packet, it does not: packets are refused,
and `Full` is a branch of `ReceivePacket`.

### SackManager
`sack` has the two loops of the code.  The first walks the list with what is left
to insert (`Walked`, one `Walk` per block, with the cases of the code) and
appends the rest (`Inserted`); the second merges neighbours (`Merged`).  Both are
recursive functions on the number of blocks passed.  `discardUpTo` drops whole
blocks up to `FirstKept` and cuts that one.  Where `sack` returns because the
block is contained, the code skips the second loop; in a list in normal form that
loop changes nothing, and nothing was inserted before.  The run explores all
blocks, with every overlap; the answers of LAPS name whole packets, a subset of
them.

### LapsTransport
One unit is a segment of one MTU.  `Send` is a dequeue of the NIC:
`GetNxtPacket` and `AppendOutStandingDataPerPath`, on any path, because the
choice by weight may fall on any path.  `ReceiveAck` is `ReceiveAckForLaps`:
loss detector, timer, acknowledgement and then either `QpComplete` or
`HandleAckLaps` and `TriggerTransmit`, in one step.  Where the code asserts, the
action is disabled, and `AssertsHold` says that it never is for that reason.

* The network is one FIFO per path and direction: a path is fixed hop by hop,
  every switch queue is FIFO, and the answer to path p's data always returns on
  `pathPair[p]`.  A loss at the head of the channel is a loss anywhere on it.
* `win` is any window from one segment to `MaxWin` after each answer: the LAPS
  rate, a floating-point function of delays, is left out.
* `awake`: the NIC is sending or was triggered.  It stays so while some flow may
  send and then rests (`Rest`) until the next trigger.
* `SafeRto`: whether the timer, a constant of 8 ms, outlasts everything that is
  in flight on a path.  With the 100 Gbps links of the experiments it does by
  far; at 1 Gbps, for which the code also has parameters, a full queue of 2.8 MB
  drains in 22 ms and it does not.
* `OtherTraffic`: the host also receives data; each answer it sends triggers
  the NIC (`ReceiveOther`).
* PFC pauses and pacing only delay `Send`.

### HostNic
The scheduler of the conventional transports, under go-back-N: in the IRN
modes `GetBytesLeft` ends the process.  The outcomes of
`DequeueAndTransmit` are separate operators: busy, an answer, data of the next
flow in turn, or nothing and perhaps a scheduled attempt.  A handler that calls
it sets `called`, and the call is the next step.  Times are relative to now and
0 means now or earlier, as the code only compares them with now and with each
other; a unit is the transmission of a packet, and `Gaps` are the times between
packets at the rates a flow may have.  `ReceiveAck` is split by its result:
`ReceiveAck`, `ReceiveLastAck` (which returns before `TriggerTransmit`) and
`ReceiveNack`.  Only HPCC calls `ChangeRate`; the other controllers change the
rate without moving `nextAvail`, which is the choice of another gap for the next
packet.  The retransmission timer is started by an answer that leaves data in
flight and at no other place, so `HandleTimeout` needs one.  The network is
free: any prefix of what was sent may be answered at any time.  All flows have
one priority, `m_paused`, other than that of answers, as with the default
`ack_q_idx`.

### GbnTransport
One unit is a segment of one MTU, with an answer to each (`m_ack_interval` is 1)
and `m_backto0` off, as shipped.  The load balancers of the switches may send
each packet, and each answer, by any path: FIFO per path, free between paths.
`Expected`, `Early` and `Duplicate` are the branches of `ReceiverCheckSeq`;
`Early` answers with a NACK only if the timer of the last one ran out or it asked
for something else.  `ReceiveAck` restarts the retransmission timer if anything
is in flight and leaves it alone otherwise, and a NACK goes back to `snd_una`
whatever its age.  `QpComplete` deletes both ends (`finished`).  The timer is
started by answers only: before the first answer nothing recovers a loss.
`AnyLoss` says whether such losses happen: in the run `GbnFirstLoss` they do, and
the flow never completes (finding 4); the run `GbnTransport` is about losses
while the timer runs.

### ConWeave
One flow, its two ToR switches, FIFO paths for the data and one for the replies.
`tx` and `rx` are the entries of the flow in `m_conweaveTxTable` and
`m_conweaveRxTable`, `voq` its queue in `m_voqMap`.  `SendExpired`,
`SendStabilized`, `SendTail` and `SendData` are the outcomes of
`initializeConweaveTxData` and `pathSelect`; `PassPrevious`, `PassInOrder` and
`HoldBack` those of the receiver's half of `RouteInput`, with the epoch and phase
update of `epochToCheck`.  Time stamps are ranks of arrival.

Deadlines fall at any time.  Four of them can fall while something they should
have waited for is still under way, and nothing in the code prevents it:

* the idle gap that ends an epoch, 10 us (`SendExpired`): too early while
  packets are in flight or held back, finding 3;
* the deadline of the queue (`FlushAllImmediately`): the arrival of the last
  packet of phase 0, plus its distance from the TAIL, plus 32 us; or 232 us from
  now if no packet of phase 0 was seen.  Too early while something sent before
  the held packets is in flight: that reorders, as the header says of
  `EnforceFlushAll`;
* the ageing of either entry after 2 ms (`AgeTx`, `AgeRx`): too early while
  anything of the flow is under way;
* the ageing of the sender's entry before the receiver's.  Each switch runs its own
  clean-up and the sender's sees the last packet first.

`disturbed` is a history variable: it becomes true when a deadline falls too
early and false when the flow begins anew (`BeginsAnew`: a new epoch with nothing
on its way and a receiver that is not ahead).  It guards no action.  The
properties say what holds whatever the timing (each packet leaves at most once, a
queue exists exactly while the entry says so, what is held is released) and what
holds unless `disturbed` (order, no false stability, receiver not ahead, the
assertions on what arrives).  `Early` names the deadlines that may fall too early.  It
is all four in the run `ConWeave`; the run `ConWeaveEarly` has the idle gap only, so
that the trace shows what it does alone.

A TAIL sets the deadline of the queue one nanosecond ahead (`flushing`): in that
nanosecond only packets from another path arrive and no reply does.

## 3. Runs

| Run | Instance | Shows |
|---|---|---|
| `MCSwitchMmu` | 2 ports of headroom 3 and 2, reserve 2, share 3, packets of 1, 2, 3 | exact headroom, bounds, hysteresis, refinement of `PfcQueue` |
| `SwitchIncast` | ports 1 and 2 into 3 and 3 back into 1, packets of 1 and 2, port 3 pausable | counters match the buffer, buffer not overcommitted, no lost wake-up, truthful PFC frames, refinement of `SwitchMmu` |
| `PfcLink` | delay 2, wait up to 2, NIC half as fast again as the link, pause time 4, share 2, any losses | a PAUSE takes effect within a round trip unless it was lost or ran out; sender and switch agree; no stuck pause |
| `SackManager` | 8 bytes, all blocks | normal form of the list, refinement of `AckSet` |
| `LapsFifo` | 2 flows (3 segments and 1), 2 paths, window 2, 3 in flight per path, safe timer, host with other traffic | all safety properties of the transport, the NIC sleeps over work only after a completion, refinement of `ReliableDelivery`, every flow completes |
| `HostNic` | 2 flows of 2 and 3, window 2, gaps 1 and 2, 2 events among pauses, NACKs, timeouts, rate changes and answers | the port sleeps only for a reason, the turn comes round, every flow completes |
| `GbnTransport` | 3 segments, window 2, 2 paths, 2 packets and 1 answer in flight on each, 1 loss | the two ends never contradict each other, never stuck, refinement of `ReliableDelivery`, the flow completes |
| `ConWeave` | 4 packets, 2 paths, any losses, deadlines at any time | assertions of the code, receiver not ahead, no false stability, refinement of `OrderedDelivery`, nothing held back for ever |
| `LapsStall` | 2 flows, host without other traffic | **violation**: a flow is never resumed (finding 2) |
| `LapsLateRto` | as `LapsFifo` with an unsafe timer | **violation**: an answer finds no entry (finding 1) |
| `ConWeaveEarly` | 6 packets, no losses, only the idle gap may fall too early | **violation**: the receiver is a phase ahead (finding 3) |
| `GbnFirstLoss` | as `GbnTransport` with the loss at any time | **violation**: the flow never completes (finding 4) |

Why the bounds are enough.  In the MMU, sizes 1 to 3 against reserve 2, share 3
and headroom 3 and 2 make packets that straddle each pair of limits; queues interact
only through `shared_used_bytes`, and the theorems cover all values anyway.
The incast needs two inputs and one output for pauses on both; the traffic back
from port 3 puts data and PFC frames on one port.  One data priority is enough
there: priorities meet only in the round robin, which the invariants do not
depend on.  In the transport, two flows
and two paths are the smallest instance in which one flow's answer declares
another's losses and segments of one flow are lost on different paths; three
segments leave a hole between acknowledged ones; three in flight let a list hold
both flows' packets with an answer behind them.  The flow of one segment completes with
any answer, the other goes on after its first two, so that losses of another flow are
found by both kinds of answer; safety was also run, and passed, with three segments and
two.  `MaxFlight`, `MaxHigh` and
`MaxWin` are the only bounds on counters there; they disable arrivals and sends,
never a handler.

Go-back-N needs three segments and a window of two for a segment that is early,
one that is a copy and one that is expected to be in flight together; two paths
let each of packets and answers overtake.  `MaxAnswers` does delay the receiver
until there is room, as if the answer sat in a queue; two losses, and two answers per
path, were also run and passed, in longer time.  ConWeave needs an INIT, a
TAIL and a packet that overtakes it to hold one back; the fourth packet comes before
them, to be disturbed, or after them, in a new epoch that meets what is held.  Five packets
were also run and passed, in longer time; six let `ConWeaveEarly` reroute in the
first epoch and start another.

The link: a NIC half as fast again as the link makes the headroom larger than the
round trip and the two differ, so that `PausedInTime` is not a consequence of the
admission test; a wait of two packets is more than the formula allows for.

`LapsStall` turns the deadlock check off, because there the system really stops,
and so do the ConWeave runs, where the flow ends at `MaxPackets`.  In
`LapsTransport` and `HostNic` the action `Quiet` stands for a host with no event
left, as `SimulationEnds` does in `GbnTransport`.  In `HostNic`, two flows are enough for one to hide the
other from the next attempt, and a window below the flow's size lets a flow be
bound by it; `MaxEvents` bounds what the network and the peers start.

### Fairness (`LapsTransport!Fairness`)
* Weak fairness of `Send` for each flow: the NIC is work conserving while
  awake and serves flows round robin.
* Weak fairness of the timers: a scheduled event happens.
* Strong fairness of reception: a path does not lose everything for ever.  On
  paths that do, no transport completes.
* Weak fairness of "received or lost": nothing stays on the wire for ever.
* Weak fairness of `ReceiveOther`, when the host has other traffic.

In `HostNic` all fairness is weak: calls return, scheduled events and the clock
go on, a pause ends (by its timer at the latest), and what was sent is answered
in the end.  The last is an assumption on the network and the receiver; it hides
that the retransmission timer does not run before the first answer, a hazard of
its own in the list and finding 4.

`GbnTransport`: the NIC serves the flow (`HostNic` shows that the port does not
sleep over it), what is in flight arrives, and the retransmission timer fires
once nothing is in flight that could restart it.  All weak.

`ConWeave`: packets on a path arrive, and the deadline of the queue is a scheduled
event, so it falls, at the latest when all that was sent before has come.  Nothing is
assumed of replies, ageing, the sender, or deadlines that fall too early.

### Findings
1. **A timer against late answers** (`rdma-hw.cc:2620`).  If the 8 ms run out with
   packets or answers in flight, the list of the path is cleared and the next
   answer trips the assertion at line 1751 or 1813.
2. **A completed flow does not wake the NIC** (`rdma-hw.cc:1923`).
   `ReceiveAckForLaps` runs the loss detector for all flows on the path, then
   returns before `TriggerTransmit` when its own flow is complete.  If the
   detector gave all of another flow's data back to it, its timer is cancelled,
   the NIC is idle, and that flow waits until other traffic wakes the NIC: on a
   host that only sends, for ever.
3. **An epoch that ends too early** (`conweave-routing.cc:456` and `:1440`).  A
   gap of 10 us starts a new epoch, on any path, though packets of the last one
   may be held back for longer: until the last packet of phase 0, plus its distance
   from the TAIL, plus 32 us, or for 232 us if no packet of phase 0 was seen
   (`conweave-routing.cc:964-972`).  If the INIT of the new epoch overtakes the
   TAIL of the last, the TAIL passes as a packet of an old epoch and flushes
   nothing; the timer then flushes the queue, behind newer packets, and sets
   phase 1 in the new epoch, so that rerouted packets of it count as in order.  The
   header says that an epoch starts when no packet is out of order
   (`conweave-routing.h:35`).
4. **A first loss that nobody times** (`rdma-hw.cc:1660`).  Go-back-N starts its
   retransmission timer when an answer arrives that leaves data in flight, and
   at no other place.  One packet or answer lost while none runs, as before the
   first answer, and the flow waits for ever; the header asks for a timer on
   outstanding requests (`rdma-hw.h:172-174`).

Ageing (`conweave-routing.cc:1462-1494`) has an effect like that of finding 3.  Each
ToR switch erases an entry 2 ms after the last packet it saw, at its own next clean-up.
The sender's may go first; if the flow goes on in between, it starts with epoch 1 and
meets a receiver in a later one, which passes its packets as packets of an old epoch:
no replies, every reroute times out, and nothing is held back.  The header has the
receiver start with epoch 1 "because Tx always starts with epoch 1"
(`conweave-routing.h:68`).  `NeverAhead` fails for this reason with `Early = {"txFirst"}`
and four packets; in the run `ConWeave` `RxNotAhead` shows that it ends once the sender's
epochs have caught up and nothing is on its way.

With windows that follow the rate (`VarWin`, off in the shipped configurations)
the early return of `ReceiveAck` at `rdma-hw.cc:1656` has the effect of finding 2
in the conventional transports too: `EveryFlowCompletes` of `HostNic` fails with
`VarWin = TRUE`, a window up to 3 and gaps 1 and 5.  With a fixed window what a
flow goes back over fits in its window, so a flow that is bound has an answer to
come that does not complete it; the run `HostNic` shows that nobody is forgotten.

## 4. Theorems

Each is proved for every value of the constants that the assumption of its
module allows (`MmuAssumption`, `SwitchAssumption`, `LinkAssumption`,
`NicAssumption`, `SackAssumption`, `LapsAssumption`, `GbnAssumption`, `ConWeaveAssumption`).  Some need
one hypothesis more, on a constant of the module, which stands in the theorem:

* `SafeRto` (`LossIsReal`, `LapsAssertsHold`): the timer outlasts what is in
  flight on a path.  Without it both fail, finding 1.
* `~AnyLoss` (`GbnNeverStuck`): nothing is lost before the first answer started
  the timer.  Without it the flow is stuck, finding 4.
* `~VarWin` (`SleepAlwaysHasReason`): windows are fixed, as in the shipped
  configurations.  Without it the property fails.

Those of `ConWeave` have none: they hold for deadlines at any time, and say in the
property itself what a deadline that falls too early may disturb.

| Theorem | States |
|---|---|
| **`SwitchMmu_proofs`** | |
| `Inductive` | `Spec => []IInv` |
| `TypeCorrect` | `Spec => []TypeOK` |
| `HeadroomNeverDrifts` | `Spec => []HeadroomExact` |
| `QueueWithinShare` | `Spec => []IngressBound` |
| `NoForgottenPause` | `Spec => []Hysteresis` |
| `MmuRefinesPfcQueue` | `Spec => EachQueueIsPfcQueue` |
| **`SwitchNode_proofs`** | |
| `SwitchTypeCorrect` | `Spec => []TypeOK` |
| `CountersMatch` | `Spec => []CountersMatchBuffer` |
| `BufferFits` | `Spec => []BufferNotOvercommitted` |
| `NoLostWakeUp` | `Spec => []WorkConserving` |
| `PfcFramesTellTruth` | `Spec => []PfcFramesAlternate` |
| `SwitchImplementsMmu` | `Spec => ImplementsMmu` |
| **`PfcLink_proofs`** | |
| `LinkTypeCorrect` | `Spec => []TypeOK` |
| `PausedAlwaysHasTimer` | `Spec => []PausedHasTimer` |
| `SenderAlwaysFollowsSwitch` | `Spec => []SenderFollowsSwitch` |
| `PauseTakesEffectInTime` | `Spec => []PausedInTime` |
| `HeadroomIsEnough` | `Spec => []NoRefusalUnlessMisled`; and the formula gives a round trip if `NicRate >= LinkRate` and `MaxWait <= 1` |
| **`HostNic_proofs`** | |
| `NicTypeCorrect` | `Spec => []TypeOK` |
| `EveryTurnComes` | `Spec => TurnComes` |
| `SleepAlwaysHasReason` | `~VarWin`: `Spec => []SleepHasReason` |
| **`SackManager_proofs`** | |
| `SackAddsBlock` | `sack` on any list in normal form gives one that covers the block besides |
| `DiscardKeepsRest` | `discardUpTo` on any list in normal form removes what is below the point, no more |
| `SackIsNormal` | `Spec => []Normal` |
| `SackImplementsAckSet` | `Spec => ImplementsAckSet` |
| **`LapsTransport_proofs`** | |
| `LapsTypeCorrect` | `Spec => []TypeOK` |
| `NoSegmentForgotten` | `Spec => []EachSegmentOnce` |
| `WindowBoundsFlight` | `Spec => []InFlightWithinWindow` |
| `TimerAlwaysRuns` | `Spec => []TimerRuns` |
| `SleepNeedsCompletion` | `Spec => []SleepsOnlyAfterCompletion` |
| `LapsRefinesReliableDelivery` | `Spec => ImplementsReliableDelivery` |
| `LapsKeepsAckSet` | `Spec => EachFlowKeepsAckSet` |
| `LossIsReal` | `SafeRto`: `Spec => []NoSpuriousLoss` |
| `LapsAssertsHold` | `SafeRto`: `Spec => []AssertsHold` |
| **`GbnTransport_proofs`** | |
| `SequencesAlwaysOrdered` | `Spec => []SequencesOrdered` |
| `GbnNeverStuck` | `~AnyLoss`: `Spec => []NeverStuck` |
| `GbnRefinesReliableDelivery` | `Spec => ImplementsReliableDelivery` |
| **`ConWeave_proofs`** | for deadlines at any time |
| `ConWeaveTypeCorrect` | `Spec => []TypeOK` |
| `ConWeaveAssertsHold` | `Spec => []AssertsHold` |
| `ConWeaveRxNotAhead` | `Spec => []RxNotAhead` |
| `ConWeaveStabilizedMeansSettled` | `Spec => []StabilizedMeansSettled` |
| `ConWeaveDeliversInOrder` | `Spec => ImplementsOrderedDelivery` |

The MMU.  `HeadroomExact` is nearly inductive: what a packet adds to or
takes from the headroom counter is the change of `Excess` of the byte count,
provided no sum or difference wraps.  That needs `IngressBound` (with
`MmuAssumption` it keeps all sums below `Word`) and, for departures,
that a packet is not larger than what the queue holds, the guard of `Leave`,
which `SwitchNode` justifies.  `IngressBound` in turn follows from the admission
test only because the headroom counter is exact.  So the three are proved
together as `IInv`, with the type invariant and `Hysteresis`.  The lemmas
`EnterQueue` and `LeaveQueue` are this arithmetic for one queue, `Thresholds`
turns the pause and resume tests into water marks on the byte count, and
`EnterEffect` and `LeaveEffect` lift both from one queue to the arrays.  The
refinement follows from the same lemmas: under `IInv` a step of the MMU is a
step of one `PfcQueue` and a stutter of all others.

The switch.  The sums over packets, ports and queues in its invariants are
cardinalities of sets of numbered bytes (`Totals`), so that the library's facts on
cardinalities apply.  The first part of `SwitchNode_proofs` has what the proofs
need of sums (split, change of one value, monotony, bounds), `BytesFromAppend` and `BytesFromTail` say what a packet
adds to a queue and takes from it.  The invariant is `IInv`: types, the MMU's own
invariant (`MmuP!IInv`, whose lemmas are used through `INSTANCE`),
`CountersMatchBuffer`, `Awake` and `PfcFramesAlternate`.  The parts need each other.
A departing packet is covered by the counters, so that `Leave` of the MMU is
enabled and nothing wraps, because the counters match the buffer; they go on
matching because no counter wraps, and `egress_bytes`, which no admission test
looks at, does not because what goes out at one port came in somewhere
(`GoesOutCameIn`) within shares that fit in the buffer (`SharesFit`).  In the same way
`shared_used_bytes` follows `SharedFollows`: the two formulas that charge and
credit it are both the change of `GetSharedUsed`.  `Awake` is `WorkConserving` in
the middle of an event: a port that could send and does not is on the stack of
calls.  `PfcFramesAlternate` is inductive; `AlternateAppend` and `AlternateTail` say
what a new frame and the departure of the first one do to it.

The link.  `SenderFollowsSwitch` is not inductive: were a frame on its way while
an earlier loss still excuses the sender (`misled`), the arrival of that frame
would say nothing.  `LinkInv` adds `FramesAreNews`: a frame under way is the one
of the current excursion, since sending it ends the excuse and only its own loss
starts a new one.  `FirstLeaves` and `NewLast` say what the queue of frames does
to its last element; there is one lemma per kind of step.  For `PausedInTime`,
`RoomInv` counts: what is above the threshold, plus the packets on the wire, plus what
the sender can still put there until the last frame arrives, is at most a round
trip (`Room`).  That holds when the flag turns because packets on the wire
are a transmission apart (`WireSpaced`), and stays because each tick that lets a
packet on the wire brings the frame nearer (`FramesInOrder`).  No headroom enters.
`HeadroomIsEnough` compares the bound with the formula, whose division drops a part of a
packet.

The host scheduler.  `Segments`, `Times` and `Port` are the types with the order
of each flow's numbers; the round robin needs nothing else.  The port sleeps for
a reason because of `HiderNotLast`: the flow that hides another one from the next attempt
is held by a full window whose size does not change, so it has data left that was never sent,
and no single answer completes it; every other answer triggers the port.

LAPS.  `EachSegmentOnce` counts over lists and is not inductive.  `IInv` says
the same without counting (`OnePlace`: the places exclude each other and a segment
that was sent has one), with `ListsDistinct`, `GapIsFirst` (nothing is stored
below `snd_una`), `TimerExact` and `AnswersTrue` (what is answered was delivered, and a flow that
is over is all answered), which the refinement of `ReliableDelivery` needs.
What is in flight is then the number of outstanding segments, and the window
bounds it.  `FifoOrder`, under `SafeRto`, says that the answers and the data of a
path, in the order they will arrive, are entries of the path's list in the order
of that list; so what the loss detector finds in front of an answered segment
was lost, and no answer finds its entry gone.

In `EachFlowKeepsAckSet` the first segment that is not answered exists because
the set is finite (`FirstGapIs`); the rest is that no handler but the answer to the
flow touches the two variables.  The property was also checked by TLC on the
instance of `LapsFifo`, where taking the highest answer for a cumulative one
violates it.

The interval list.  Lists of any length need induction.  The library's induction
theorems take an operator as a parameter and cannot be used, but a set can stand
for the operator: `Smallest` (from the well-foundedness of `<`) says that a set of
naturals has a least element, and `Reaches` that a set with 0 that is closed under the
successor holds everything up to a bound.  With it `WalkedIs` and `MergedIs` show that the recursive
functions exist and satisfy their equations.  Each loop then has its loop
invariant.  `WalkInv`: after i blocks the new list is in order, ends no later than the
i-th block, and together with what is left covers those blocks and what was to be
inserted.  `WalkEffect` reduces the seven branches to two effects, pass the
block or put a block before it, and `WalkKeeps` is the induction step.
`MergeInv`: the merged list has a gap between neighbours, ends with the
last block and covers the same bytes.  `SackAddsBlock` combines the two, and
`DiscardKeepsRest` does the same for `discardUpTo`.  The inductive invariant `IInv` of the
module is `Normal` with the bounds of the numbers; `StepIs` says what an answer
does to list and set together, and invariant and refinement follow from it.

Go-back-N.  `SequencesOrdered` is inductive as it stands: the sender learns only
from answers, and an answer never claims more than the receiver expected when it
was sent, which only grows.  The lemmas `DataTaken`, `DataAdded`, `AnswerTaken`
and `AnswerAdded` are the channels, `SenderAnswer` and `ReceiverCheck` the two
ends.  The refinement follows: taking the expected segment delivers it, an
answer that claims `Size` finds all delivered, and every other step stutters.
`NeverStuck` needs `Watched`: what is sent and not acknowledged is watched by the
timer, or there is an answer, or a segment the receiver will answer, on its way.

ConWeave.  What matters is which path a packet is on.  The last TAIL cuts what is in
flight in two (`tx.tail`): `PathsOK` says that all before it shares one path and all after
it is on the path in use, each in the order of sending.  From this the
invariant follows the packets through the receiver: what is held back lies
after the cut and before all else after it (`VoqOK`), what the host has lies
before everything (`OutOK`), and the receiver is in phase 1 of the sender's
epoch, or about to flush after a TAIL, only when nothing before the cut is left
(`RxOK`).  Two parts bind epochs together: a rerouted packet of an
earlier epoch is never held back, because a new epoch starts only when the last one was
settled (`Settled`), and a reply of the sender's epoch comes from a receiver
in it (`RepliesOK`), so a stale one settles nothing.  `CacheOK` is
for the assertion on the time of the TAIL.  `NetAppend`, `NetTail` and
`FirstLeaves` say what a path does; then there is one lemma per action.

All this, `IInv`, is true of a flow that is not disturbed.  What holds at any time is
`Basic`: the ranges (`Ranges`), queue and flags of the entry (`EntriesOK`), the tags
of a packet (`Shape`), and that each packet sent is at most at one place: on a path,
held, with the host, or lost (`PlacesOK`).  The invariant is `Inv`: `Basic`, and
`disturbed` or `IInv`.  A deadline that falls too early leaves only `Basic` to prove;
`AnewInv` is the way back: `Basic`, nothing on its way and a receiver that is not ahead
give `IInv` after the INIT of the new epoch.  In the refinement a flush delivers
several packets in one step, in increasing order if the flow is not disturbed
(`InOrderOfIncreasing`).

Only model-checked: the liveness properties (`EveryFlowCompletes` of
`LapsTransport` and `HostNic`, `FlowCompletes`, `NoneHeldForEver`).  Liveness under
fairness, which rests on ENABLED, is out of the provers' reach.

## 5. What is not modelled

* IRN: `GetBytesLeft` ends the process in its modes, so a flow of IRN never sends.
* The LAPS copy of the host scheduler with its probes, SmartFlow and the other
  switch load balancers: see the plan.
* In ConWeave, NOTIFY packets and the choice between good paths, several flows,
  and the recording of statistics.
* Rates of congestion control: floating point.  Their effect on the transport is
  an arbitrary window of at least one segment; that a rate low enough for a
  window below one segment would stop a flow is listed as a hazard.
* Headers, tags, probes and INT fields, except those the modelled handlers read.
* Reading the configuration and writing reports; the Python scripts that start
  simulations and plot results.
* Stock ns-3, its Python bindings and build files: third-party or generated
  code, by far the larger part of the repository.

## 6. Plan

1. Compose `HostNic` with `LapsTransport` in place of `awake`: the LAPS copy of
   the scheduler, with its probes.
2. `SmartFlow`: path table, probing, expiry; a path in use has a delay that is
   not older than the threshold or is being probed; pairs of paths.
3. Flowlet tables and Conga feedback; the timers of DCQCN.
