----------------------------- MODULE SwitchNode -----------------------------
(***************************************************************************)
(* A switch: its ports (qbb-net-device.cc), the egress queues of each port *)
(* (network/utils/broadcom-egress-queue.cc) and the forwarding handlers    *)
(* (switch-node.cc) around the counters of module SwitchMmu.               *)
(*                                                                         *)
(* A handler runs to completion: it may call DequeueAndTransmit on several *)
(* ports, from inside one another.  `todo` is the stack of those calls and *)
(* no new event is handled before it is empty.  Each step does at most one *)
(* admission or one departure, which is one step of SwitchMmu.             *)
(***************************************************************************)
EXTENDS Totals, Sequences

CONSTANTS
    Port, Queue, PSize, Word, reserve, resume_offset, shared_bytes, headroom,
    Route,          \* <<i, o>>: traffic may come in at i and leave at o
    qCnt,           \* queues per port; 0 has strict priority
    buffer_size,    \* ConfigBufferSize
    PausePort,      \* the ports whose peer may send PFC frames
    MaxHigh         \* bound: packets waiting in a queue 0

\* ConfigNPort: what is left of the buffer, in equal parts.
ConfigNPort ==
    (buffer_size - Total(headroom) - Cardinality(Port) * reserve)
        \div Cardinality(Port)

VARIABLES
    ingress_bytes, hdrm_bytes, egress_bytes, shared_used_bytes, paused,
    queue,      \* [Port -> [0 .. qCnt - 1 -> packets]]: m_queues
    m_rrlast,   \* [Port -> the data queue served last]
    m_paused,   \* [Port -> [0 .. qCnt - 1 -> the peer paused this queue]]
    busy,       \* [Port -> m_txMachineState = BUSY]
    todo,       \* ports on which DequeueAndTransmit is being called
    told        \* [Port -> [Queue -> last PFC frame sent to the peer was PAUSE]]

Mmu == INSTANCE SwitchMmu

\* The buffer, once for every priority, does not overflow a counter (the
\* simulator's switches have 32 MB and 8 priorities).
ASSUME SwitchAssumption ==
    /\ Mmu!MmuAssumption
    /\ IsFiniteSet(Port) /\ Port # {}
    /\ Route \subseteq {r \in Port \X Port : r[1] # r[2]}
    /\ PausePort \subseteq Port
    /\ qCnt \in Nat \ {0} /\ Queue \subseteq 1 .. (qCnt - 1)
    /\ buffer_size \in Nat /\ shared_bytes = ConfigNPort
    /\ IsFiniteSet(Queue) /\ Cardinality(Queue) * buffer_size < Word
    /\ MaxHigh \in Nat \ {0}

mmuVars ==
    <<ingress_bytes, hdrm_bytes, egress_bytes, shared_used_bytes, paused>>
portVars == <<queue, m_rrlast, busy, told>>
vars == <<mmuVars, portVars, m_paused, todo>>

\* What waits in a queue: a packet and the port it came in by, or a PFC frame.
Packet(i, s) == [in |-> i, size |-> s]
PfcFrame(q, p) == [pfc |-> q, pause |-> p]
IsPfc(x) == "pfc" \in DOMAIN x

QIndex == 0 .. (qCnt - 1)
-----------------------------------------------------------------------------
Init ==
    /\ Mmu!Init
    /\ queue = [p \in Port |-> [q \in QIndex |-> <<>>]]
    /\ m_rrlast = [p \in Port |-> 0]
    /\ m_paused = [p \in Port |-> [q \in QIndex |-> FALSE]]
    /\ busy = [p \in Port |-> FALSE]
    /\ todo = <<>>
    /\ told = [p \in Port |-> [q \in Queue |-> FALSE]]

(***************************************************************************)
(* DequeueRR: queue 0 first, paused or not; else the first queue after the *)
(* one served last, going round, that has a packet and is not paused.      *)
(***************************************************************************)
Eligible(o) == {q \in QIndex : queue[o][q] # <<>> /\ (q = 0 \/ ~m_paused[o][q])}

Distance(o, q) == (q - m_rrlast[o] + qCnt - 1) % qCnt

NextQueue(o) ==
    IF queue[o][0] # <<>> THEN 0
    ELSE CHOOSE q \in Eligible(o) :
            \A r \in Eligible(o) : Distance(o, q) <= Distance(o, r)

\* DoSwitchSend of a packet of a data queue that admission refuses.
Refuse(i, q, s) ==
    /\ ~Mmu!CheckIngressAdmission(i, q, s)
    /\ UNCHANGED vars

\* Mutant: the resume frame is forgotten.
PfcToPauseOnly(i, q) ==
    IF paused'[i][q] /\ ~paused[i][q] THEN <<PfcFrame(q, TRUE)>> ELSE <<>>

\* The frame SendPfc puts in queue 0 of port i when the flag of q changed.
PfcTo(i, q) ==
    IF paused'[i][q] # paused[i][q] THEN <<PfcFrame(q, paused'[i][q])>> ELSE <<>>

(***************************************************************************)
(* DoSwitchSend of a packet of a data queue that is admitted: charge it,   *)
(* pause the sender if need be, and put it in its egress queue.  SendPfc   *)
(* calls DequeueAndTransmit on the input port, SwitchSend on the output.   *)
(***************************************************************************)
Admit(i, o, q, s) ==
    /\ Mmu!CheckIngressAdmission(i, q, s)
    /\ Mmu!Admit(i, o, q, s)
    /\ queue' = [queue EXCEPT ![i][0] = @ \o PfcTo(i, q),
                              ![o][q] = Append(@, Packet(i, s))]
    /\ todo' = (IF PfcTo(i, q) # <<>> THEN <<i>> ELSE <<>>) \o <<o>>
    /\ UNCHANGED <<m_rrlast, busy, told, m_paused>>

SwitchReceiveFromDevice ==
    \E r \in Route, q \in Queue, s \in PSize :
        /\ todo = <<>>
        /\ Len(queue[r[1]][0]) < MaxHigh
        /\ Refuse(r[1], q, s) \/ Admit(r[1], r[2], q, s)

\* A packet of priority 0 (CNP, ACK if m_ackHighPrio) passes no admission.
ReceiveHighPriority ==
    \E r \in Route, s \in PSize :
        /\ todo = <<>>
        /\ Len(queue[r[2]][0]) < MaxHigh
        /\ queue' = [queue EXCEPT ![r[2]][0] = Append(@, Packet(r[1], s))]
        /\ todo' = <<r[2]>>
        /\ UNCHANGED <<mmuVars, m_rrlast, busy, told, m_paused>>

(***************************************************************************)
(* DequeueAndTransmit on port o, the top of the stack.  SwitchNotifyDequeue*)
(* credits a data packet to the queue it came in by and resumes the sender *)
(* if need be: DequeueAndTransmit on the input port, before the rest.      *)
(***************************************************************************)
\* Mutant: the port the packet leaves by is credited.
SwitchNotifyDequeueWrongPort(x, o, q) == Mmu!Release(o, o, q, x.size)

\* The MMU part of SwitchNotifyDequeue for packet x.
SwitchNotifyDequeue(x, o, q) == Mmu!Release(x.in, o, q, x.size)

NothingToDo(o) == busy[o] \/ Eligible(o) = {}

TransmitNothing(o) ==
    /\ NothingToDo(o)
    /\ todo' = Tail(todo)
    /\ UNCHANGED <<mmuVars, portVars, m_paused>>

TransmitHigh(o) ==
    LET x == Head(queue[o][0]) IN
    /\ ~busy[o] /\ queue[o][0] # <<>>
    /\ queue' = [queue EXCEPT ![o][0] = Tail(@)]
    /\ busy' = [busy EXCEPT ![o] = TRUE]
    /\ told' = IF IsPfc(x) THEN [told EXCEPT ![o][x.pfc] = x.pause] ELSE told
    /\ todo' = Tail(todo)
    /\ UNCHANGED <<mmuVars, m_rrlast, m_paused>>

TransmitData(o) ==
    LET q == NextQueue(o)
        x == Head(queue[o][q])
    IN  /\ ~NothingToDo(o) /\ queue[o][0] = <<>>
        /\ SwitchNotifyDequeue(x, o, q)
        /\ queue' = [queue EXCEPT ![o][q] = Tail(@),
                                  ![x.in][0] = @ \o PfcTo(x.in, q)]
        /\ m_rrlast' = [m_rrlast EXCEPT ![o] = q]
        /\ busy' = [busy EXCEPT ![o] = TRUE]
        /\ todo' = (IF PfcTo(x.in, q) # <<>> THEN <<x.in>> ELSE <<>>) \o Tail(todo)
        /\ UNCHANGED <<told, m_paused>>

DequeueAndTransmit ==
    /\ todo # <<>>
    /\ LET o == Head(todo) IN
        TransmitNothing(o) \/ TransmitHigh(o) \/ TransmitData(o)

TransmitComplete(o) ==
    /\ todo = <<>>
    /\ busy[o]
    /\ busy' = [busy EXCEPT ![o] = FALSE]
    /\ todo' = <<o>>
    /\ UNCHANGED <<mmuVars, queue, m_rrlast, told, m_paused>>

\* QbbNetDevice::Receive of a PFC frame from the peer of port o.
ReceivePause(o, q) ==
    /\ todo = <<>>
    /\ m_paused' = [m_paused EXCEPT ![o][q] = TRUE]
    /\ UNCHANGED <<mmuVars, portVars, todo>>

\* Mutant: the queue is unpaused and nobody is told.
ResumeSilently(o, q) ==
    /\ todo = <<>>
    /\ m_paused' = [m_paused EXCEPT ![o][q] = FALSE]
    /\ UNCHANGED <<mmuVars, portVars, todo>>

\* A resume frame, or the end of the pause time.
Resume(o, q) ==
    /\ todo = <<>>
    /\ m_paused' = [m_paused EXCEPT ![o][q] = FALSE]
    /\ todo' = <<o>>
    /\ UNCHANGED <<mmuVars, portVars>>

Next ==
    \/ SwitchReceiveFromDevice
    \/ ReceiveHighPriority
    \/ DequeueAndTransmit
    \/ \E o \in Port : TransmitComplete(o)
    \/ \E o \in PausePort, q \in Queue : ReceivePause(o, q) \/ Resume(o, q)

Spec == Init /\ [][Next]_vars
-----------------------------------------------------------------------------
\* What may wait in queue q.
Waiting(q) ==
    (IF q = 0 THEN [pfc : Queue, pause : BOOLEAN] ELSE {})
        \cup (IF q \in Queue \cup {0} THEN [in : Port, size : PSize] ELSE {})

TypeOK ==
    /\ Mmu!TypeOK
    /\ queue \in [Port -> [QIndex -> Seq(Waiting(0))]]
    /\ \A p \in Port, q \in QIndex : queue[p][q] \in Seq(Waiting(q))
    /\ m_rrlast \in [Port -> {0} \cup Queue]
    /\ m_paused \in [Port -> [QIndex -> BOOLEAN]]
    /\ busy \in [Port -> BOOLEAN]
    /\ todo \in Seq(Port)
    /\ told \in [Port -> [Queue -> BOOLEAN]]

\* The bytes of w that came in at i.
BytesFrom(i, w) ==
    Total([n \in {m \in DOMAIN w : w[m].in = i} |-> w[n].size])

(***************************************************************************)
(* The counters say what is in the buffer: per input port and priority     *)
(* over all output queues, per output queue over all input ports, and for  *)
(* the switch, however arrivals, departures, pauses and the nested calls   *)
(* of DequeueAndTransmit interleave.                                       *)
(***************************************************************************)
CountersMatchBuffer ==
    /\ \A i \in Port, q \in Queue :
          ingress_bytes[i][q] = Total([o \in Port |-> BytesFrom(i, queue[o][q])])
    /\ \A o \in Port, q \in Queue :
          egress_bytes[o][q] = Total([i \in Port |-> BytesFrom(i, queue[o][q])])
    /\ shared_used_bytes =
          Total([x \in Port \X Queue |-> Mmu!GetSharedUsed(ingress_bytes[x[1]][x[2]])])

(***************************************************************************)
(* The shares that ConfigNPort hands out fit in the buffer together (per   *)
(* lossless priority; the simulator is run with one).                      *)
(***************************************************************************)
BufferNotOvercommitted ==
    \A q \in Queue : Total([p \in Port |-> ingress_bytes[p][q]]) <= buffer_size

(***************************************************************************)
(* No lost wake-up: between events, a port that has something it may send  *)
(* is sending.  Nothing else would start it: only an enqueue, a resume or  *)
(* the end of a transmission calls DequeueAndTransmit.                     *)
(***************************************************************************)
WorkConserving ==
    todo = <<>> => \A o \in Port : busy[o] \/ Eligible(o) = {}

(***************************************************************************)
(* The sender learns the truth: the frame sent last and the PFC frames     *)
(* that wait in queue 0 for one queue alternate and end with the present   *)
(* flag.  Position 0 stands for the frame sent last.                       *)
(***************************************************************************)
Frames(w, q) ==
    {0} \cup {n \in DOMAIN w : IsPfc(w[n]) /\ w[n].pfc = q}

Said(w, last, n) == IF n = 0 THEN last ELSE w[n].pause

\* The frames for q in w, after one that said last, alternate up to flag.
Alternate(w, q, last, flag) ==
    \A n \in Frames(w, q) :
        /\ \A m \in Frames(w, q) :
              n < m /\ (\A k \in Frames(w, q) : k <= n \/ m <= k)
                  => Said(w, last, n) # Said(w, last, m)
        /\ (\A m \in Frames(w, q) : m <= n) => Said(w, last, n) = flag

PfcFramesAlternate ==
    \A i \in Port, q \in Queue :
        Alternate(queue[i][0], q, told[i][q], paused[i][q])

\* Every step of the switch is a step of the MMU on its own, or none.
ImplementsMmu == Mmu!Spec
=============================================================================
