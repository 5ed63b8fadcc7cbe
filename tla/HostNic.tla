------------------------------ MODULE HostNic -------------------------------
(***************************************************************************)
(* The transmit scheduler of a host port (qbb-net-device.cc) over the      *)
(* queue pairs of go-back-N with rate control (rdma-hw.cc).                *)
(*                                                                         *)
(* DequeueAndTransmit sends an answer, else a packet of the next flow,     *)
(* round robin, that has data left, window, no PFC pause, and whose time   *)
(* nextAvail has come.  When there is none it schedules itself, m_nextSend,*)
(* for the earliest nextAvail of the flows that have data left -- if that  *)
(* lies in the future.  Every handler ends with a call of it: `called` is  *)
(* TRUE between the handler and the call, and nothing else happens then.   *)
(*                                                                         *)
(* Time is discrete, its unit the transmission of a packet; all times are  *)
(* relative to now, and 0 stands for now or earlier.  The network answers  *)
(* all that is sent, in its own time: a loss of data is a NACK, which goes *)
(* back (go-back-N), a loss of answers a timeout.                          *)
(***************************************************************************)
EXTENDS Integers, FiniteSets, FiniteSetsExt

CONSTANTS
    N,          \* flows of the port, in the order of m_qpGrp
    Size,       \* [0 .. N-1 -> segments of the flow]
    MaxWin,     \* window at full rate, in segments
    VarWin,     \* m_var_win: the window follows the rate
    Nacks,      \* the network loses data, or only answers to data
    Gaps,       \* bound: the times between two packets of a flow, by its rates
    MaxEvents   \* bound: pauses, NACKs, timeouts, rate changes, answers to others

Flow == 0 .. (N - 1)

ASSUME NicAssumption ==
    /\ N \in Nat \ {0} /\ MaxWin \in Nat \ {0} /\ Gaps # {} /\ Gaps \subseteq Nat \ {0} /\ IsFiniteSet(Gaps)
    /\ Size \in [Flow -> Nat \ {0}]
    /\ VarWin \in BOOLEAN /\ Nacks \in BOOLEAN /\ MaxEvents \in Nat

VARIABLES
    snd_una,    \* [Flow -> answered]
    snd_nxt,    \* [Flow -> next segment to send]
    sent,       \* [Flow -> segments sent at least once]
    win,        \* [Flow -> GetWin, by the flow's rate]
    m_retransmit, \* [Flow -> the retransmission timer runs]
    nextAvail,  \* [Flow -> time until the flow may send]
    m_rrlast,   \* the flow served last
    m_ackQ,     \* answers to other hosts that wait
    m_paused,   \* the flows' priority is paused
    txLeft,     \* time until the port is READY; -1: READY
    m_nextSend, \* time until the scheduled call; -1: expired
    called,     \* DequeueAndTransmit is being called
    events      \* events of the bounded kinds so far

qpVars  == <<snd_una, snd_nxt, sent, win, m_retransmit>>
nicVars == <<nextAvail, m_rrlast, m_ackQ, m_paused, txLeft, m_nextSend>>
vars == <<qpVars, nicVars, called, events>>

Event == events < MaxEvents /\ events' = events + 1

IsFinished(f) == snd_una[f] >= Size[f]
GetBytesLeft(f) == Size[f] - snd_nxt[f]
IsWinBound(f) == snd_nxt[f] - snd_una[f] >= win[f]

\* What lets a flow send, but for the time.
Ready(f) ==
    /\ ~IsFinished(f) /\ GetBytesLeft(f) > 0
    /\ ~IsWinBound(f) /\ ~m_paused

Sendable(f) == Ready(f) /\ nextAvail[f] = 0

\* Steps of the round robin from the flow served last to f: 1 .. N.
Turn(f) == IF f > m_rrlast THEN f - m_rrlast ELSE f - m_rrlast + N

Init ==
    /\ snd_una = [f \in Flow |-> 0] /\ snd_nxt = [f \in Flow |-> 0]
    /\ sent = [f \in Flow |-> 0]
    /\ win = [f \in Flow |-> MaxWin]
    /\ m_retransmit = [f \in Flow |-> FALSE]
    /\ nextAvail = [f \in Flow |-> 0]
    /\ m_rrlast = 0
    /\ m_ackQ = 0 /\ m_paused = FALSE
    /\ txLeft = -1 /\ m_nextSend = -1
    /\ called = TRUE        \* NewQp
    /\ events = 0
-----------------------------------------------------------------------------
(***************************************************************************)
(* DequeueAndTransmit, by its outcomes.                                    *)
(***************************************************************************)
TransmitBusy ==
    /\ txLeft >= 0
    /\ UNCHANGED <<qpVars, nicVars>>

TransmitAck ==
    /\ txLeft = -1 /\ m_ackQ > 0
    /\ m_ackQ' = m_ackQ - 1
    /\ txLeft' = 1
    /\ UNCHANGED <<qpVars, nextAvail, m_rrlast, m_paused, m_nextSend>>

\* Mutant: the search always begins after the first flow.
ServedFirst(f) == m_rrlast' = 0

Served(f) == m_rrlast' = f

TransmitData ==
    /\ txLeft = -1 /\ m_ackQ = 0
    /\ \E f \in Flow :
        /\ Sendable(f)
        /\ \A g \in Flow : Sendable(g) => Turn(f) <= Turn(g)
        /\ snd_nxt' = [snd_nxt EXCEPT ![f] = @ + 1]
        /\ sent' = [sent EXCEPT ![f] = IF @ < snd_nxt'[f] THEN snd_nxt'[f] ELSE @]
        /\ Served(f)
        \* PktSent: the packet's time at the flow's rate.
        /\ \E gap \in Gaps : nextAvail' = [nextAvail EXCEPT ![f] = gap]
    /\ txLeft' = 1
    /\ UNCHANGED <<snd_una, win, m_retransmit, m_ackQ, m_paused, m_nextSend>>

\* Mutant: nothing is scheduled.
ScheduleNever == UNCHANGED m_nextSend

\* The earliest nextAvail of the flows with data left, if it is to come.
ScheduleNext ==
    LET later == {nextAvail[f] : f \in {g \in Flow : GetBytesLeft(g) > 0}}
    IN  m_nextSend' = IF m_nextSend = -1 /\ later # {} /\ 0 \notin later
                      THEN Min(later) ELSE m_nextSend

TransmitNothing ==
    /\ txLeft = -1 /\ m_ackQ = 0
    /\ \A f \in Flow : ~Sendable(f)
    /\ ScheduleNext
    /\ UNCHANGED <<qpVars, nextAvail, m_rrlast, m_ackQ, m_paused, txLeft>>

DequeueAndTransmit ==
    /\ called /\ called' = FALSE
    /\ TransmitBusy \/ TransmitAck \/ TransmitData \/ TransmitNothing
    /\ UNCHANGED events
-----------------------------------------------------------------------------
(***************************************************************************)
(* The events.                                                             *)
(***************************************************************************)
Call == ~called /\ called' = TRUE

TransmitComplete ==
    /\ Call /\ txLeft = 0
    /\ txLeft' = -1
    /\ UNCHANGED <<qpVars, nextAvail, m_rrlast, m_ackQ, m_paused, m_nextSend, events>>

NextSend ==
    /\ Call /\ m_nextSend = 0
    /\ m_nextSend' = -1
    /\ UNCHANGED <<qpVars, nextAvail, m_rrlast, m_ackQ, m_paused, txLeft, events>>

\* Receive: a PFC frame; the pause ends by a frame or by its timer.
Pause ==
    /\ ~called /\ ~m_paused /\ Event
    /\ m_paused' = TRUE
    /\ UNCHANGED <<qpVars, nextAvail, m_rrlast, m_ackQ, txLeft, m_nextSend, called>>

\* Mutant: the port is not restarted.
ResumeSilently ==
    /\ ~called /\ m_paused
    /\ m_paused' = FALSE
    /\ UNCHANGED <<qpVars, nextAvail, m_rrlast, m_ackQ, txLeft, m_nextSend, called, events>>

Resume ==
    /\ Call /\ m_paused
    /\ m_paused' = FALSE
    /\ UNCHANGED <<qpVars, nextAvail, m_rrlast, m_ackQ, txLeft, m_nextSend, events>>

\* ReceiveUdp for another host's flow: queue an answer.
ReceiveUdp ==
    /\ Call /\ Event
    /\ m_ackQ' = m_ackQ + 1
    /\ UNCHANGED <<qpVars, nextAvail, m_rrlast, m_paused, txLeft, m_nextSend>>

\* ChangeRate and QbbNetDevice::UpdateNextAvail, or no change.
SameRate == UNCHANGED <<win, nextAvail, m_nextSend>>

ChangeRate(f) ==
    /\ \E w \in IF VarWin THEN 1 .. MaxWin ELSE {MaxWin} : win' = [win EXCEPT ![f] = w]
    /\ \E t \in Gaps \union {0} :
        /\ nextAvail' = [nextAvail EXCEPT ![f] = t]
        /\ m_nextSend' = IF m_nextSend >= 0 /\ t < m_nextSend THEN t ELSE m_nextSend

\* Mutant: snd_nxt stays behind.
AcknowledgeUnaOnly(f, s) ==
    /\ snd_una' = [snd_una EXCEPT ![f] = s]
    /\ UNCHANGED snd_nxt

Acknowledge(f, s) ==
    /\ snd_una' = [snd_una EXCEPT ![f] = s]
    /\ snd_nxt' = [snd_nxt EXCEPT ![f] = IF @ < s THEN s ELSE @]

\* The timer starts on an answer only, if it leaves data in flight.
RestartTimer(f, s) ==
    m_retransmit' = [m_retransmit EXCEPT ![f] = @ \/ snd_nxt[f] > s]

\* ReceiveAck, by what the answer is: new data of a flow is answered, ...
ReceiveAck(f) ==
    /\ Call
    /\ \E s \in (snd_una[f] + 1) .. Min({sent[f], Size[f] - 1}) :
        Acknowledge(f, s) /\ RestartTimer(f, s)
    /\ \/ SameRate /\ UNCHANGED events
       \/ ChangeRate(f) /\ Event
    /\ UNCHANGED <<sent, m_rrlast, m_ackQ, m_paused, txLeft>>

\* ... or it completes the flow, and returns before TriggerTransmit, ...
ReceiveLastAck(f) ==
    /\ ~called /\ snd_una[f] < Size[f] /\ sent[f] = Size[f]
    /\ Acknowledge(f, Size[f])
    /\ UNCHANGED <<sent, win, m_retransmit, nicVars, called, events>>

\* ... or it is a NACK, and RecoverQueue goes back to what it answers.
ReceiveNack(f) ==
    /\ Nacks /\ Call /\ Event /\ ~IsFinished(f)
    /\ \E s \in snd_una[f] .. (Size[f] - 1) :
        /\ s < sent[f]
        /\ snd_una' = [snd_una EXCEPT ![f] = s]
        /\ snd_nxt' = [snd_nxt EXCEPT ![f] = s]
        /\ RestartTimer(f, s)
    /\ SameRate \/ ChangeRate(f)
    /\ UNCHANGED <<sent, m_rrlast, m_ackQ, m_paused, txLeft>>

\* The timer is not started again; that of a finished flow does nothing.
HandleTimeout(f) ==
    /\ Call /\ Event /\ m_retransmit[f] /\ ~IsFinished(f)
    /\ m_retransmit' = [m_retransmit EXCEPT ![f] = FALSE]
    /\ snd_nxt' = [snd_nxt EXCEPT ![f] = snd_una[f]]
    /\ UNCHANGED <<snd_una, sent, win, nicVars>>

Due == txLeft = 0 \/ m_nextSend = 0

Minus1(t) == IF t > 0 THEN t - 1 ELSE t

Tick ==
    /\ ~called /\ ~Due
    /\ txLeft > 0 \/ m_nextSend > 0 \/ \E f \in Flow : nextAvail[f] > 0
    /\ txLeft' = Minus1(txLeft) /\ m_nextSend' = Minus1(m_nextSend)
    /\ nextAvail' = [f \in Flow |-> Minus1(nextAvail[f])]
    /\ UNCHANGED <<qpVars, m_rrlast, m_ackQ, m_paused, called, events>>

\* No event of this host is left: the simulation goes on without it.
Quiet ==
    /\ ~called /\ txLeft = -1 /\ m_nextSend = -1 /\ ~m_paused
    /\ \A f \in Flow : nextAvail[f] = 0
    /\ UNCHANGED vars

Next ==
    \/ DequeueAndTransmit \/ TransmitComplete \/ NextSend
    \/ Pause \/ Resume \/ ReceiveUdp
    \/ \E f \in Flow :
        ReceiveAck(f) \/ ReceiveLastAck(f) \/ ReceiveNack(f) \/ HandleTimeout(f)
    \/ Tick \/ Quiet

Spec == Init /\ [][Next]_vars

(***************************************************************************)
(* Calls return, scheduled events happen, time passes, pauses end, and all *)
(* that was sent is answered in the end.                                   *)
(***************************************************************************)
Fairness ==
    /\ WF_vars(DequeueAndTransmit) /\ WF_vars(TransmitComplete)
    /\ WF_vars(NextSend) /\ WF_vars(Tick) /\ WF_vars(Resume)
    /\ \A f \in Flow : WF_vars(ReceiveAck(f) \/ ReceiveLastAck(f))

FairSpec == Spec /\ Fairness
-----------------------------------------------------------------------------
(***************************************************************************)
(* Types and ranges: what is answered was sent, and the segments to send   *)
(* next lie between the two ends of the flow, wherever it went back to.    *)
(***************************************************************************)
TypeOK ==
    /\ snd_una \in [Flow -> Nat] /\ snd_nxt \in [Flow -> Nat] /\ sent \in [Flow -> Nat]
    /\ \A f \in Flow :
        snd_una[f] <= snd_nxt[f] /\ snd_nxt[f] <= sent[f] /\ sent[f] <= Size[f]
    /\ win \in [Flow -> 1 .. MaxWin] /\ nextAvail \in [Flow -> 0 .. Max(Gaps)]
    /\ m_retransmit \in [Flow -> BOOLEAN]
    /\ m_rrlast \in Flow /\ m_ackQ \in 0 .. MaxEvents /\ m_paused \in BOOLEAN
    /\ txLeft \in -1 .. 1 /\ m_nextSend \in -1 .. Max(Gaps)
    /\ called \in BOOLEAN /\ events \in 0 .. MaxEvents

(***************************************************************************)
(* The port sleeps only for a reason: while it is READY and some flow is   *)
(* ready but for its time, the next call is scheduled, or a flow that has  *)
(* data left and whose time has come is held back by its window, and what  *)
(* it has in flight will be answered.  (That flow hides the other from     *)
(* the minimum over nextAvail, which then is not in the future.)           *)
(***************************************************************************)
SleepHasReason ==
    ~called /\ txLeft = -1 =>
        \A f \in Flow : Ready(f) =>
            \/ m_nextSend >= 0
            \/ \E g \in Flow :
                  ~IsFinished(g) /\ GetBytesLeft(g) > 0 /\ nextAvail[g] = 0 /\ IsWinBound(g)

(***************************************************************************)
(* Round robin: whoever is served, every other flow that could have been   *)
(* comes closer to its turn.                                               *)
(***************************************************************************)
Sends(f) == snd_nxt'[f] > snd_nxt[f] /\ called /\ ~called'

TurnComes ==
    [][\A f, g \in Flow :
         Sends(g) /\ f # g /\ Sendable(f) => Turn(f)' < Turn(f)]_vars

\* When the network answers all that is sent, every flow completes: the
\* port never sleeps for good over a flow that waits for its time.
EveryFlowCompletes == \A f \in Flow : <>IsFinished(f)
=============================================================================
