--------------------------- MODULE HostNic_proofs ---------------------------
(***************************************************************************)
(* Proofs about HostNic, for any flows, sizes, windows and packet times:   *)
(* types, the round robin, and, with a fixed window, that the port sleeps  *)
(* over a flow only for a reason.                                          *)
(***************************************************************************)
EXTENDS HostNic, FiniteSetTheorems, NaturalsInduction, TLAPS

\* A set of naturals has a smallest element, which Min is.
LEMMA MinIs ==
    ASSUME NEW T, T \subseteq Nat, T # {}
    PROVE  Min(T) \in T /\ \A m \in T : Min(T) <= m
<1> DEFINE R == OpToRel(<, Nat)
<1>1. IsWellFoundedOn(R, Nat)
  BY NatLessThanWellFounded
<1>2. \A a, b \in Nat : a < b => <<a, b>> \in R
  BY DEF OpToRel
<1> HIDE DEF R
<1>3. PICK n \in T : \A m \in T : ~(<<m, n>> \in R)
  BY <1>1, WFMin
<1>4. ASSUME NEW m \in T PROVE n <= m
  <2>1. m \in Nat /\ n \in Nat
    OBVIOUS
  <2>2. ~(m < n)
    BY <2>1, <1>2, <1>3
  <2> QED
    BY <2>1, <2>2
<1> QED
  BY <1>3, <1>4 DEF Min

\* A finite set of naturals has a largest element, which Max is: the sizes of
\* the subsets without one would have a smallest element.
LEMMA MaxIs ==
    ASSUME NEW S, S \subseteq Nat, S # {}, IsFiniteSet(S)
    PROVE  Max(S) \in S /\ \A m \in S : m <= Max(S)
<1> DEFINE HasLargest(T) == \E x \in T : \A y \in T : x >= y
           Bad == {n \in Nat : \E T \in SUBSET S :
                                 T # {} /\ Cardinality(T) = n /\ ~HasLargest(T)}
<1>1. Bad = {}
  <2> SUFFICES ASSUME Bad # {} PROVE FALSE
    OBVIOUS
  <2>1. Min(Bad) \in Bad /\ \A m \in Bad : Min(Bad) <= m
    <3>1. Bad \subseteq Nat
      OBVIOUS
    <3> HIDE DEF Bad
    <3> QED
      BY <3>1, MinIs
  <2>2. PICK T \in SUBSET S : T # {} /\ Cardinality(T) = Min(Bad) /\ ~HasLargest(T)
    BY <2>1
  <2>3. PICK x \in T : TRUE
    BY <2>2
  <2> DEFINE U == T \ {x}
  <2>4. IsFiniteSet(T) /\ IsFiniteSet(U) /\ Cardinality(U) = Cardinality(T) - 1
    <3>1. IsFiniteSet(T)
      BY FS_Subset
    <3> QED
      BY <3>1, <2>3, FS_RemoveElement
  <2>5. Cardinality(U) \in Nat /\ Cardinality(T) \in Nat
    BY <2>4, FS_CardinalityType
  <2>6. CASE U = {}
    <3>1. T = {x} /\ x \in Nat
      BY <2>3, <2>6
    <3> QED
      BY <2>2, <3>1
  <2>7. CASE U # {}
    <3>1. Cardinality(U) \notin Bad
      <4>1. ~(Min(Bad) <= Cardinality(U))
        BY <2>2, <2>4, <2>5
      <4> HIDE DEF Bad, U
      <4> QED
        BY <2>1, <4>1
    <3>2. HasLargest(U)
      BY <2>5, <2>7, <3>1
    <3>3. PICK m \in U : \A y \in U : m >= y
      BY <3>2
    <3>4. /\ T = U \cup {x} /\ T \subseteq Nat /\ x \in Nat /\ m \in Nat
          /\ m \in T /\ x \in T
      BY <2>3
    <3>5. CASE m >= x
      <4>1. \A y \in T : m >= y
        BY <3>3, <3>4, <3>5
      <4> QED
        BY <2>2, <3>4, <4>1
    <3>6. CASE ~(m >= x)
      <4>1. \A y \in T : x >= y
        <5> SUFFICES ASSUME NEW y \in T PROVE x >= y
          OBVIOUS
        <5>1. y \in Nat /\ (y = x \/ m >= y)
          BY <3>3, <3>4
        <5> QED
          BY <3>4, <3>6, <5>1
      <4> QED
        BY <2>2, <3>4, <4>1
    <3> QED
      BY <3>5, <3>6
  <2> QED
    BY <2>6, <2>7
<1>2. HasLargest(S)
  <2>1. Cardinality(S) \in Nat
    BY FS_CardinalityType
  <2> QED
    BY <1>1, <2>1
<1>3. Max(S) \in S /\ \A y \in S : Max(S) >= y
  BY <1>2 DEF Max
<1> QED
  BY <1>3

\* The constants, and what every step may use of them.
LEMMA NicConstants ==
    /\ N \in Nat \ {0} /\ MaxWin \in Nat \ {0} /\ MaxEvents \in Nat
    /\ Flow = 0 .. (N - 1) /\ \A f \in Flow : f \in Nat /\ Size[f] \in Nat \ {0}
    /\ Max(Gaps) \in Nat \ {0} /\ \A t \in Gaps : t \in 1 .. Max(Gaps)
<1>1. Max(Gaps) \in Gaps /\ \A t \in Gaps : t <= Max(Gaps)
  <2>1. Gaps \subseteq Nat /\ Gaps # {} /\ IsFiniteSet(Gaps)
    BY NicAssumption
  <2> QED
    BY <2>1, MaxIs
<1>2. \A t \in Gaps : t \in 1 .. Max(Gaps)
  BY <1>1, NicAssumption
<1>3. Max(Gaps) \in Nat \ {0}
  BY <1>1, NicAssumption
<1>4. \A f \in Flow : f \in Nat /\ Size[f] \in Nat \ {0}
  BY NicAssumption DEF Flow
<1> QED
  BY <1>2, <1>3, <1>4, NicAssumption DEF Flow

-----------------------------------------------------------------------------
(* The invariant, in the parts a step touches: what the flows sent and what *)
(* was answered, their rates and times, and the port.                       *)

\* Beyond the types, a flow never sends further ahead of what is answered than
\* the largest window, wherever it goes back to.
Segments ==
    /\ snd_una \in [Flow -> Nat] /\ snd_nxt \in [Flow -> Nat] /\ sent \in [Flow -> Nat]
    /\ \A f \in Flow :
          /\ snd_una[f] <= snd_nxt[f] /\ snd_nxt[f] <= sent[f] /\ sent[f] <= Size[f]
          /\ sent[f] - snd_una[f] <= MaxWin

Times ==
    /\ win \in [Flow -> 1 .. MaxWin]
    /\ ~VarWin => \A f \in Flow : win[f] = MaxWin
    /\ nextAvail \in [Flow -> 0 .. Max(Gaps)]
    /\ m_nextSend \in -1 .. Max(Gaps)

Port ==
    /\ m_retransmit \in [Flow -> BOOLEAN]
    /\ m_rrlast \in Flow /\ m_paused \in BOOLEAN /\ called \in BOOLEAN
    /\ txLeft \in -1 .. 1
    /\ m_ackQ \in Nat /\ m_ackQ <= events /\ events \in 0 .. MaxEvents

LEMMA PartsAreTypes == Segments /\ Times /\ Port => TypeOK
<1> SUFFICES ASSUME Segments, Times, Port PROVE TypeOK
  OBVIOUS
<1>1. m_ackQ \in 0 .. MaxEvents
  <2>1. m_ackQ \in Nat /\ m_ackQ <= events /\ events \in 0 .. MaxEvents
    BY DEF Port
  <2> QED
    BY <2>1, NicConstants
<1> QED
  BY <1>1 DEF Segments, Times, Port, TypeOK

\* One flow moves within its bounds.
LEMMA FlowMoves ==
    ASSUME Segments, NEW f \in Flow, NEW u \in Nat, NEW n \in Nat, NEW s \in Nat,
           u <= n, n <= s, s <= Size[f], s - u <= MaxWin,
           snd_una' = [snd_una EXCEPT ![f] = u],
           snd_nxt' = [snd_nxt EXCEPT ![f] = n],
           sent' = [sent EXCEPT ![f] = s]
    PROVE  Segments'
<1>1. snd_una' \in [Flow -> Nat] /\ snd_nxt' \in [Flow -> Nat] /\ sent' \in [Flow -> Nat]
  BY DEF Segments
<1>2. \A g \in Flow :
        /\ snd_una'[g] <= snd_nxt'[g] /\ snd_nxt'[g] <= sent'[g] /\ sent'[g] <= Size[g]
        /\ sent'[g] - snd_una'[g] <= MaxWin
  BY DEF Segments
<1> QED
  BY <1>1, <1>2 DEF Segments

\* The rate of a flow changes, or does not.
LEMMA RateMoves ==
    ASSUME Times, NEW f \in Flow, SameRate \/ ChangeRate(f)
    PROVE  Times'
<1> USE NicConstants
<1>1. CASE SameRate
  BY <1>1 DEF SameRate, Times
<1>2. CASE ChangeRate(f)
  <2>1. PICK w \in IF VarWin THEN 1 .. MaxWin ELSE {MaxWin} : win' = [win EXCEPT ![f] = w]
    BY <1>2 DEF ChangeRate
  <2>2. win' \in [Flow -> 1 .. MaxWin] /\ (~VarWin => \A g \in Flow : win'[g] = MaxWin)
    <3>1. w \in 1 .. MaxWin /\ (~VarWin => w = MaxWin)
      BY <2>1
    <3> QED
      BY <2>1, <3>1 DEF Times
  <2>3. PICK t \in Gaps \union {0} :
            /\ nextAvail' = [nextAvail EXCEPT ![f] = t]
            /\ m_nextSend' = IF m_nextSend >= 0 /\ t < m_nextSend THEN t ELSE m_nextSend
    BY <1>2 DEF ChangeRate
  <2>4. t \in 0 .. Max(Gaps)
    <3>1. t \in Gaps \/ t = 0
      BY <2>3
    <3> QED
      BY <3>1
  <2>5. nextAvail' \in [Flow -> 0 .. Max(Gaps)] /\ m_nextSend' \in -1 .. Max(Gaps)
    BY <2>3, <2>4 DEF Times
  <2> QED
    BY <2>2, <2>5 DEF Times
<1> QED
  BY <1>1, <1>2

\* The outcomes of DequeueAndTransmit.
LEMMA DequeueKeeps ==
    ASSUME Segments, Times, Port, DequeueAndTransmit
    PROVE  Segments' /\ Times' /\ Port'
<1> USE NicConstants
<1>0. called' = FALSE /\ UNCHANGED events
  BY DEF DequeueAndTransmit
<1>1. CASE TransmitBusy
  BY <1>0, <1>1 DEF TransmitBusy, qpVars, nicVars, Segments, Times, Port
<1>2. CASE TransmitAck
  <2>1. /\ m_ackQ' = m_ackQ - 1 /\ m_ackQ > 0 /\ txLeft' = 1
        /\ UNCHANGED <<qpVars, nextAvail, m_rrlast, m_paused, m_nextSend>>
    BY <1>2 DEF TransmitAck
  <2>2. m_ackQ' \in Nat /\ m_ackQ' <= events' /\ events' \in 0 .. MaxEvents
    BY <1>0, <2>1 DEF Port
  <2>3. txLeft' \in -1 .. 1 /\ called' \in BOOLEAN
    <3>1. txLeft' \in -1 .. 1
      BY <2>1
    <3> QED
      BY <1>0, <3>1
  <2> QED
    BY <2>1, <2>2, <2>3 DEF qpVars, Segments, Times, Port
<1>3. CASE TransmitData
  <2>1. PICK f \in Flow :
            /\ Sendable(f)
            /\ snd_nxt' = [snd_nxt EXCEPT ![f] = @ + 1]
            /\ sent' = [sent EXCEPT ![f] = IF @ < snd_nxt'[f] THEN snd_nxt'[f] ELSE @]
            /\ m_rrlast' = f
            /\ \E gap \in Gaps : nextAvail' = [nextAvail EXCEPT ![f] = gap]
    BY <1>3 DEF TransmitData, Served
  <2>2. /\ txLeft' = 1
        /\ UNCHANGED <<snd_una, win, m_retransmit, m_ackQ, m_paused, m_nextSend>>
    BY <1>3 DEF TransmitData
  <2> DEFINE n == snd_nxt[f] + 1
             s == IF sent[f] < n THEN n ELSE sent[f]
  <2>3. /\ n \in Nat /\ s \in Nat /\ n <= s /\ s <= Size[f]
        /\ snd_una[f] \in Nat /\ snd_una[f] <= n /\ s - snd_una[f] <= MaxWin
    <3>1. snd_nxt[f] < Size[f] /\ ~(snd_nxt[f] - snd_una[f] >= win[f])
      <4>1. Size[f] - snd_nxt[f] > 0 /\ ~(snd_nxt[f] - snd_una[f] >= win[f])
        BY <2>1 DEF Sendable, Ready, GetBytesLeft, IsWinBound
      <4>2. Size[f] \in Nat /\ snd_nxt[f] \in Nat
        BY NicAssumption DEF Segments
      <4> QED
        BY <4>1, <4>2
    <3>2. win[f] \in 1 .. MaxWin
      BY DEF Times
    <3>3. /\ snd_una[f] \in Nat /\ snd_nxt[f] \in Nat /\ sent[f] \in Nat
          /\ snd_una[f] <= snd_nxt[f] /\ snd_nxt[f] <= sent[f] /\ sent[f] <= Size[f]
          /\ sent[f] - snd_una[f] <= MaxWin
      BY DEF Segments
    <3>4. n \in Nat /\ snd_una[f] <= n /\ n <= Size[f] /\ n - snd_una[f] <= MaxWin
      <4>1. Size[f] \in Nat /\ MaxWin \in Nat
        BY NicAssumption
      <4>2. n \in Nat /\ snd_una[f] <= n
        BY <3>3
      <4>3. n <= Size[f]
        BY <3>1, <3>3, <4>1
      <4>4. n - snd_una[f] <= MaxWin
        <5> DEFINE flying == snd_nxt[f] - snd_una[f]
                   room == win[f]
        <5>1. flying \in Int /\ n - snd_una[f] = flying + 1
          BY <3>3
        <5>2. room \in 1 .. MaxWin /\ ~(flying >= room)
          BY <3>1, <3>2
        <5> HIDE DEF flying, room
        <5>3. flying + 1 <= MaxWin
          BY <4>1, <5>1, <5>2
        <5> QED
          BY <5>1, <5>3
      <4> QED
        BY <4>2, <4>3, <4>4
    <3> HIDE DEF n
    <3> QED
      BY <3>3, <3>4
  <2>4. snd_nxt'[f] = n
    BY <2>1 DEF Segments
  <2>5. /\ snd_una' = [snd_una EXCEPT ![f] = snd_una[f]]
        /\ snd_nxt' = [snd_nxt EXCEPT ![f] = n]
        /\ sent' = [sent EXCEPT ![f] = s]
    BY <2>1, <2>2, <2>4 DEF Segments
  <2> HIDE DEF n, s
  <2>6. Segments'
    BY <2>3, <2>5, FlowMoves
  <2>7. Times'
    <3>1. PICK gap \in Gaps : nextAvail' = [nextAvail EXCEPT ![f] = gap]
      BY <2>1
    <3>2. gap \in 0 .. Max(Gaps)
      BY <3>1
    <3>3. nextAvail' \in [Flow -> 0 .. Max(Gaps)]
      BY <3>1, <3>2 DEF Times
    <3> QED
      BY <2>2, <3>3 DEF Times
  <2>8. Port'
    <3>1. txLeft' \in -1 .. 1 /\ called' \in BOOLEAN
      <4>1. txLeft' \in -1 .. 1
        BY <2>2
      <4> QED
        BY <1>0, <4>1
    <3>2. m_ackQ' \in Nat /\ m_ackQ' <= events' /\ events' \in 0 .. MaxEvents
      BY <1>0, <2>2 DEF Port
    <3> QED
      BY <1>0, <2>1, <2>2, <3>1, <3>2 DEF Port
  <2> QED
    BY <2>6, <2>7, <2>8
<1>4. CASE TransmitNothing
  <2>1. /\ ScheduleNext
        /\ UNCHANGED <<qpVars, nextAvail, m_rrlast, m_ackQ, m_paused, txLeft>>
    BY <1>4 DEF TransmitNothing
  <2>2. m_nextSend' \in -1 .. Max(Gaps)
    <3> DEFINE later == {nextAvail[f] : f \in {g \in Flow : GetBytesLeft(g) > 0}}
    <3>1. later \subseteq 0 .. Max(Gaps)
      BY DEF Times
    <3>2. m_nextSend' = IF m_nextSend = -1 /\ later # {} /\ 0 \notin later
                        THEN Min(later) ELSE m_nextSend
      BY <2>1 DEF ScheduleNext
    <3>3. later # {} => Min(later) \in later
      <4>1. later \subseteq Nat
        BY <3>1
      <4> HIDE DEF later
      <4> QED
        BY <4>1, MinIs
    <3> HIDE DEF later
    <3>4. later # {} => Min(later) \in -1 .. Max(Gaps)
      <4>1. later # {} => Min(later) \in 0 .. Max(Gaps)
        BY <3>1, <3>3
      <4> QED
        BY <4>1
    <3> QED
      BY <3>2, <3>4 DEF Times
  <2> QED
    BY <1>0, <2>1, <2>2 DEF qpVars, Segments, Times, Port
<1> QED
  BY <1>1, <1>2, <1>3, <1>4 DEF DequeueAndTransmit

\* The answers to a flow and its timer.
LEMMA AnswersKeep ==
    ASSUME Segments, Times, Port, NEW f \in Flow,
           ReceiveAck(f) \/ ReceiveLastAck(f) \/ ReceiveNack(f) \/ HandleTimeout(f)
    PROVE  Segments' /\ Times' /\ Port' /\ snd_una'[f] >= snd_una[f]
<1> USE NicConstants
<1>0. /\ snd_una[f] \in Nat /\ snd_nxt[f] \in Nat /\ sent[f] \in Nat /\ Size[f] \in Nat
      /\ snd_una[f] <= snd_nxt[f] /\ snd_nxt[f] <= sent[f] /\ sent[f] <= Size[f]
      /\ sent[f] - snd_una[f] <= MaxWin
  BY DEF Segments
<1>1. ASSUME NEW s \in Nat, snd_una[f] <= s, s <= sent[f], Acknowledge(f, s), UNCHANGED sent
      PROVE  Segments' /\ snd_una'[f] >= snd_una[f]
  <2> DEFINE n == IF snd_nxt[f] < s THEN s ELSE snd_nxt[f]
  <2>1. /\ snd_una' = [snd_una EXCEPT ![f] = s]
        /\ snd_nxt' = [snd_nxt EXCEPT ![f] = n]
        /\ sent' = [sent EXCEPT ![f] = sent[f]]
    BY <1>1 DEF Acknowledge, Segments
  <2>2. n \in Nat /\ s <= n /\ n <= sent[f] /\ sent[f] - s <= MaxWin
    BY <1>0, <1>1
  <2> HIDE DEF n
  <2>3. Segments'
    BY <1>0, <1>1, <2>1, <2>2, FlowMoves
  <2> QED
    BY <1>1, <2>1, <2>3 DEF Segments
<1>2. ASSUME NEW s, RestartTimer(f, s)
      PROVE  m_retransmit' \in [Flow -> BOOLEAN]
  BY <1>2 DEF RestartTimer, Port
<1>3. CASE ReceiveAck(f)
  <2>1. PICK s \in (snd_una[f] + 1) .. Min({sent[f], Size[f] - 1}) :
            Acknowledge(f, s) /\ RestartTimer(f, s)
    BY <1>3 DEF ReceiveAck
  <2>2. s \in Nat /\ snd_una[f] <= s /\ s <= sent[f]
    <3> DEFINE T == {sent[f], Size[f] - 1}
    <3>1. T \subseteq Nat /\ T # {} /\ sent[f] \in T
      BY <1>0
    <3>2. s \in (snd_una[f] + 1) .. Min(T)
      BY <2>1
    <3> HIDE DEF T
    <3>3. Min(T) \in Nat /\ Min(T) <= sent[f]
      BY <3>1, MinIs
    <3> QED
      BY <1>0, <3>2, <3>3
  <2>3. UNCHANGED <<sent, m_rrlast, m_ackQ, m_paused, txLeft>> /\ Call
    BY <1>3 DEF ReceiveAck
  <2>4. Segments' /\ snd_una'[f] >= snd_una[f]
    BY <1>1, <2>1, <2>2, <2>3
  <2>5. Times'
    BY <1>3, RateMoves DEF ReceiveAck
  <2>6. events' \in 0 .. MaxEvents /\ events' >= events
    BY <1>3 DEF ReceiveAck, Event, Port
  <2>7. m_retransmit' \in [Flow -> BOOLEAN]
    BY <1>2, <2>1
  <2>8. Port'
    BY <2>3, <2>6, <2>7 DEF Port, Call
  <2> QED
    BY <2>4, <2>5, <2>8
<1>4. CASE ReceiveLastAck(f)
  <2>1. sent[f] = Size[f] /\ Acknowledge(f, Size[f]) /\ UNCHANGED sent
    BY <1>4 DEF ReceiveLastAck
  <2>2. Segments' /\ snd_una'[f] >= snd_una[f]
    BY <1>0, <1>1, <2>1
  <2>3. UNCHANGED <<win, m_retransmit, nicVars, called, events>>
    BY <1>4 DEF ReceiveLastAck
  <2> QED
    BY <2>2, <2>3 DEF nicVars, Times, Port
<1>5. CASE ReceiveNack(f)
  <2>1. PICK s \in snd_una[f] .. (Size[f] - 1) :
            /\ s < sent[f]
            /\ snd_una' = [snd_una EXCEPT ![f] = s]
            /\ snd_nxt' = [snd_nxt EXCEPT ![f] = s]
            /\ RestartTimer(f, s)
    BY <1>5 DEF ReceiveNack
  <2>2. /\ s \in Nat /\ s >= snd_una[f] /\ s <= s /\ s <= sent[f]
        /\ sent[f] - s <= MaxWin
    BY <1>0, <2>1
  <2>3. UNCHANGED <<sent, m_rrlast, m_ackQ, m_paused, txLeft>> /\ Call /\ Event
    BY <1>5 DEF ReceiveNack
  <2>4. sent' = [sent EXCEPT ![f] = sent[f]]
    BY <2>3 DEF Segments
  <2>5. Segments'
    BY <1>0, <2>1, <2>2, <2>4, FlowMoves
  <2>6. snd_una'[f] >= snd_una[f]
    BY <2>1, <2>2 DEF Segments
  <2>7. Times'
    BY <1>5, RateMoves DEF ReceiveNack
  <2>8. m_retransmit' \in [Flow -> BOOLEAN]
    BY <1>2, <2>1
  <2>9. Port'
    BY <2>3, <2>8 DEF Port, Call, Event
  <2> QED
    BY <2>5, <2>6, <2>7, <2>9
<1>6. CASE HandleTimeout(f)
  <2>1. /\ Call /\ Event
        /\ m_retransmit' = [m_retransmit EXCEPT ![f] = FALSE]
        /\ snd_nxt' = [snd_nxt EXCEPT ![f] = snd_una[f]]
        /\ UNCHANGED <<snd_una, sent, win, nicVars>>
    BY <1>6 DEF HandleTimeout
  <2>2. /\ snd_una' = [snd_una EXCEPT ![f] = snd_una[f]]
        /\ sent' = [sent EXCEPT ![f] = sent[f]]
    BY <2>1 DEF Segments
  <2>3. snd_una[f] <= sent[f] /\ snd_una[f] <= snd_una[f]
    BY <1>0
  <2>4. Segments'
    BY <1>0, <2>1, <2>2, <2>3, FlowMoves
  <2>5. Times'
    BY <2>1 DEF nicVars, Times
  <2>6. Port'
    BY <2>1 DEF nicVars, Port, Call, Event
  <2> QED
    BY <1>0, <2>1, <2>4, <2>5, <2>6
<1> QED
  BY <1>3, <1>4, <1>5, <1>6

\* The port's own events.
LEMMA PortKeeps ==
    ASSUME Segments, Times, Port,
           \/ TransmitComplete \/ NextSend \/ Pause \/ Resume \/ ReceiveUdp \/ Tick
    PROVE  Segments' /\ Times' /\ Port'
<1> USE NicConstants
<1>1. UNCHANGED qpVars
  BY DEF TransmitComplete, NextSend, Pause, Resume, ReceiveUdp, Tick
<1>2. Segments' /\ m_retransmit' \in [Flow -> BOOLEAN]
  BY <1>1 DEF qpVars, Segments, Port
<1>3. CASE TransmitComplete
  BY <1>1, <1>2, <1>3 DEF TransmitComplete, Call, qpVars, Times, Port
<1>4. CASE NextSend
  BY <1>1, <1>2, <1>4 DEF NextSend, Call, qpVars, Times, Port
<1>5. CASE Pause
  BY <1>1, <1>2, <1>5 DEF Pause, Event, qpVars, Times, Port
<1>6. CASE Resume
  BY <1>1, <1>2, <1>6 DEF Resume, Call, qpVars, Times, Port
<1>7. CASE ReceiveUdp
  BY <1>1, <1>2, <1>7 DEF ReceiveUdp, Call, Event, qpVars, Times, Port
<1>8. CASE Tick
  <2>1. /\ txLeft' = Minus1(txLeft) /\ m_nextSend' = Minus1(m_nextSend)
        /\ nextAvail' = [f \in Flow |-> Minus1(nextAvail[f])]
        /\ UNCHANGED <<win, m_rrlast, m_ackQ, m_paused, called, events>>
    BY <1>8 DEF Tick, qpVars
  <2>2. txLeft' \in -1 .. 1 /\ m_nextSend' \in -1 .. Max(Gaps)
    BY <2>1 DEF Minus1, Times, Port
  <2>3. \A f \in Flow : Minus1(nextAvail[f]) \in 0 .. Max(Gaps)
    BY DEF Minus1, Times
  <2> QED
    BY <1>2, <2>1, <2>2, <2>3 DEF Times, Port
<1> QED
  BY <1>3, <1>4, <1>5, <1>6, <1>7, <1>8

\* One step of the port keeps the types and the window of what was sent.
LEMMA TypesInductive ==
    Segments /\ Times /\ Port /\ [Next]_vars => Segments' /\ Times' /\ Port'
<1> SUFFICES ASSUME Segments, Times, Port, [Next]_vars
             PROVE  Segments' /\ Times' /\ Port'
  OBVIOUS
<1>1. CASE DequeueAndTransmit
  BY <1>1, DequeueKeeps
<1>2. CASE TransmitComplete \/ NextSend \/ Pause \/ Resume \/ ReceiveUdp \/ Tick
  BY <1>2, PortKeeps
<1>3. ASSUME NEW f \in Flow,
             ReceiveAck(f) \/ ReceiveLastAck(f) \/ ReceiveNack(f) \/ HandleTimeout(f)
      PROVE  Segments' /\ Times' /\ Port'
  BY <1>3, AnswersKeep
<1>4. CASE UNCHANGED vars
  BY <1>4 DEF vars, qpVars, nicVars, Segments, Times, Port
<1> QED
  BY <1>1, <1>2, <1>3, <1>4 DEF Next, Quiet

\* The parts hold in every state.
LEMMA PartsHold == Spec => [](Segments /\ Times /\ Port)
<1>1. Init => Segments /\ Times /\ Port
  <2> SUFFICES ASSUME Init PROVE Segments /\ Times /\ Port
    OBVIOUS
  <2> USE NicConstants
  <2>1. Segments
    BY DEF Init, Segments
  <2>2. Times
    BY DEF Init, Times
  <2>3. Port
    <3>1. 0 \in Flow
      OBVIOUS
    <3>2. m_retransmit \in [Flow -> BOOLEAN] /\ m_paused \in BOOLEAN /\ called \in BOOLEAN
      BY DEF Init
    <3>3. txLeft \in -1 .. 1 /\ m_ackQ \in Nat /\ m_ackQ <= events /\ events \in 0 .. MaxEvents
      BY DEF Init
    <3>4. m_rrlast \in Flow
      BY <3>1 DEF Init
    <3> QED
      BY <3>2, <3>3, <3>4 DEF Port
  <2> QED
    BY <2>1, <2>2, <2>3
<1> QED
  BY <1>1, TypesInductive, PTL DEF Spec

\* For any flows, windows and packet times: what is answered was sent, what was
\* sent lies in the flow, and all times stay in their ranges, wherever a flow
\* went back to (rdma-hw.cc, qbb-net-device.cc).
THEOREM NicTypeCorrect == Spec => []TypeOK
BY PartsHold, PartsAreTypes, PTL

-----------------------------------------------------------------------------
(* The round robin. *)

\* For any flows: whoever is served, every other flow that could have been
\* comes closer to its turn (GetNextQindex, DequeueAndTransmit).
THEOREM EveryTurnComes == Spec => TurnComes
<1>1. /\ Segments /\ Times /\ Port /\ [Next]_vars
      => [\A f, g \in Flow :
            Sends(g) /\ f # g /\ Sendable(f) => Turn(f)' < Turn(f)]_vars
  <2> SUFFICES ASSUME Segments, Port, Next, NEW f \in Flow, NEW g \in Flow,
                      Sends(g), f # g, Sendable(f)
               PROVE  Turn(f)' < Turn(f)
    OBVIOUS
  <2> USE NicConstants
  <2>1. DequeueAndTransmit
    BY DEF Sends, Next, TransmitComplete, NextSend, Pause, Resume, ReceiveUdp, ReceiveAck,
           ReceiveLastAck, ReceiveNack, HandleTimeout, Tick, Quiet, Call, vars
  <2>2. snd_nxt'[g] > snd_nxt[g]
    BY DEF Sends
  <2>3. TransmitData
    <3>1. snd_nxt' # snd_nxt
      <4>1. ~(snd_nxt[g] > snd_nxt[g])
        BY DEF Segments
      <4> QED
        BY <2>2, <4>1
    <3> QED
      BY <2>1, <3>1 DEF DequeueAndTransmit, TransmitBusy, TransmitAck, TransmitNothing, qpVars
  <2>4. PICK h \in Flow : /\ \A k \in Flow : Sendable(k) => Turn(h) <= Turn(k)
                          /\ snd_nxt' = [snd_nxt EXCEPT ![h] = @ + 1]
                          /\ m_rrlast' = h
    BY <2>3 DEF TransmitData, Served
  <2>5. h = g
    <3> SUFFICES ASSUME h # g PROVE FALSE
      OBVIOUS
    <3>1. snd_nxt'[g] = snd_nxt[g] /\ snd_nxt[g] \in Nat
      BY <2>4 DEF Segments
    <3> QED
      BY <2>2, <3>1
  <2>6. Turn(g) <= Turn(f) /\ m_rrlast' = g
    BY <2>4, <2>5
  <2>7. m_rrlast \in Nat /\ f \in Nat /\ g \in Nat /\ m_rrlast < N /\ f < N /\ g < N
    BY DEF Port
  <2> QED
    BY <2>6, <2>7 DEF Turn
<1> QED
  BY <1>1, PartsHold, PTL DEF Spec, TurnComes

-----------------------------------------------------------------------------
(* The port sleeps only for a reason.  With a fixed window, the flow that   *)
(* hides another one from the schedule is not completed by its next answer: *)
(* it has data left that was never sent.                                    *)

\* A flow that hides the others: its time has come but its window is full.
Hides(g) == ~IsFinished(g) /\ GetBytesLeft(g) > 0 /\ nextAvail[g] = 0 /\ IsWinBound(g)

\* A flow held back by a fixed window has not sent its last segment.
LEMMA HiderNotLast ==
    ASSUME Segments, Times, ~VarWin, NEW g \in Flow, Hides(g)
    PROVE  sent[g] # Size[g]
<1>1. win[g] = MaxWin
  BY DEF Times
<1>2. /\ snd_una[g] \in Nat /\ snd_nxt[g] \in Nat /\ sent[g] \in Nat
      /\ sent[g] - snd_una[g] <= MaxWin
  BY DEF Segments
<1>3. Size[g] - snd_nxt[g] > 0 /\ snd_nxt[g] - snd_una[g] >= MaxWin
  BY <1>1 DEF Hides, GetBytesLeft, IsWinBound
<1> QED
  BY <1>2, <1>3, NicConstants

\* A call that finds nothing to send schedules the next one, or finds a flow
\* that hides the others.
LEMMA NothingHasReason ==
    ASSUME Segments, Times, TransmitNothing, NEW f \in Flow, Ready(f)
    PROVE  m_nextSend' >= 0 \/ \E g \in Flow : Hides(g)
<1> USE NicConstants
<1> DEFINE later == {nextAvail[k] : k \in {g \in Flow : GetBytesLeft(g) > 0}}
<1>1. m_nextSend' = IF m_nextSend = -1 /\ later # {} /\ 0 \notin later
                    THEN Min(later) ELSE m_nextSend
  BY DEF TransmitNothing, ScheduleNext
<1>2. later # {} /\ later \subseteq Nat
  <2>1. f \in {g \in Flow : GetBytesLeft(g) > 0}
    BY DEF Ready
  <2>2. later # {}
    BY <2>1
  <2>3. \A k \in Flow : nextAvail[k] \in Nat
    BY DEF Times
  <2> QED
    BY <2>2, <2>3
<1>3. CASE 0 \in later
  <2>1. PICK g \in Flow : GetBytesLeft(g) > 0 /\ nextAvail[g] = 0
    BY <1>3
  <2>2. ~Ready(g)
    BY <2>1 DEF TransmitNothing, Sendable
  <2>3. ~IsFinished(g)
    <3>1. /\ snd_una[g] \in Nat /\ snd_nxt[g] \in Nat /\ Size[g] \in Nat
          /\ snd_una[g] <= snd_nxt[g]
      BY DEF Segments
    <3>2. Size[g] - snd_nxt[g] > 0
      BY <2>1 DEF GetBytesLeft
    <3> QED
      BY <3>1, <3>2 DEF IsFinished
  <2>4. IsWinBound(g)
    BY <2>1, <2>2, <2>3 DEF Ready
  <2> QED
    BY <2>1, <2>3, <2>4 DEF Hides
<1>4. CASE 0 \notin later
  <2> HIDE DEF later
  <2>1. Min(later) \in Nat
    BY <1>2, MinIs
  <2>2. m_nextSend \in -1 .. Max(Gaps)
    BY DEF Times
  <2>3. CASE m_nextSend = -1
    BY <1>1, <1>2, <1>4, <2>1, <2>3
  <2>4. CASE m_nextSend # -1
    BY <1>1, <2>2, <2>4
  <2> QED
    BY <2>3, <2>4
<1> QED
  BY <1>3, <1>4

Reason == m_nextSend >= 0 \/ \E g \in Flow : Hides(g)

LEMMA SleepHasReasonIs ==
    SleepHasReason <=> (~called /\ txLeft = -1 => \A f \in Flow : Ready(f) => Reason)
BY DEF SleepHasReason, Reason, Hides

\* One step never leaves the port asleep without a reason.
LEMMA ReasonInductive ==
    ASSUME ~VarWin
    PROVE  Segments /\ Times /\ Port /\ SleepHasReason /\ [Next]_vars => SleepHasReason'
<1> SUFFICES ASSUME Segments, Times, Port, SleepHasReason, [Next]_vars,
                    ~called', txLeft' = -1, NEW f \in Flow, Ready(f)'
             PROVE  Reason'
  BY DEF SleepHasReason, Reason, Hides
<1> USE NicConstants
<1>1. CASE DequeueAndTransmit
  <2>1. TransmitBusy \/ TransmitNothing
    BY <1>1 DEF DequeueAndTransmit, TransmitAck, TransmitData
  <2>2. UNCHANGED <<qpVars, nextAvail, m_paused, txLeft>>
    BY <2>1 DEF TransmitBusy, TransmitNothing, nicVars
  <2>3. TransmitNothing
    BY <2>1, <2>2 DEF TransmitBusy
  <2>4. Ready(f)
    BY <2>2 DEF Ready, IsFinished, GetBytesLeft, IsWinBound, qpVars
  <2>5. m_nextSend' >= 0 \/ \E g \in Flow : Hides(g)
    BY <2>3, <2>4, NothingHasReason
  <2>6. \A g \in Flow : Hides(g) => Hides(g)'
    BY <2>2 DEF Hides, IsFinished, GetBytesLeft, IsWinBound, qpVars
  <2> QED
    BY <2>5, <2>6 DEF Reason
<1>2. CASE TransmitComplete \/ NextSend \/ Resume \/ ReceiveUdp
  BY <1>2 DEF TransmitComplete, NextSend, Resume, ReceiveUdp, Call
<1>3. CASE Pause
  BY <1>3 DEF Pause, Ready
<1>4. ASSUME NEW h \in Flow, ReceiveAck(h) \/ ReceiveNack(h) \/ HandleTimeout(h)
      PROVE  FALSE
  BY <1>4 DEF ReceiveAck, ReceiveNack, HandleTimeout, Call
<1>5. ASSUME NEW h \in Flow, ReceiveLastAck(h)
      PROVE  Reason'
  <2>1. /\ ~called /\ sent[h] = Size[h] /\ Acknowledge(h, Size[h])
        /\ UNCHANGED <<sent, win, m_retransmit, nicVars, called, events>>
    BY <1>5 DEF ReceiveLastAck
  <2>2. /\ \A g \in Flow \ {h} : snd_una'[g] = snd_una[g] /\ snd_nxt'[g] = snd_nxt[g]
        /\ snd_una'[h] = Size[h]
    BY <2>1 DEF Acknowledge, Segments
  <2>3. \A g \in Flow \ {h} : (Ready(g)' <=> Ready(g)) /\ (Hides(g)' <=> Hides(g))
    BY <2>1, <2>2 DEF Ready, Hides, IsFinished, GetBytesLeft, IsWinBound, nicVars
  <2>4. f # h
    <3>1. ~(snd_una'[f] >= Size[f])
      BY DEF Ready, IsFinished
    <3> QED
      BY <2>2, <3>1
  <2>5. Reason
    BY <2>1, <2>3, <2>4, SleepHasReasonIs DEF nicVars
  <2>6. ~Hides(h)
    BY <2>1, HiderNotLast
  <2> QED
    BY <2>1, <2>3, <2>5, <2>6 DEF Reason, nicVars
<1>6. CASE Tick
  <2>1. /\ ~called /\ txLeft # 0 /\ m_nextSend # 0
        /\ txLeft' = Minus1(txLeft) /\ m_nextSend' = Minus1(m_nextSend)
        /\ nextAvail' = [g \in Flow |-> Minus1(nextAvail[g])]
        /\ UNCHANGED <<qpVars, m_paused>>
    BY <1>6 DEF Tick, Due
  <2>2. txLeft = -1
    <3>1. txLeft \in -1 .. 1
      BY DEF Port
    <3> QED
      BY <2>1, <3>1 DEF Minus1
  <2>3. Ready(f)
    BY <2>1 DEF Ready, IsFinished, GetBytesLeft, IsWinBound, qpVars
  <2>4. Reason
    BY <2>1, <2>2, <2>3, SleepHasReasonIs
  <2>5. m_nextSend >= 0 => m_nextSend' >= 0
    <3>1. m_nextSend \in -1 .. Max(Gaps)
      BY DEF Times
    <3> QED
      BY <2>1, <3>1 DEF Minus1
  <2>6. \A g \in Flow : nextAvail[g] = 0 => nextAvail'[g] = 0
    BY <2>1 DEF Minus1
  <2>7. \A g \in Flow : Hides(g) => Hides(g)'
    BY <2>1, <2>6 DEF Hides, IsFinished, GetBytesLeft, IsWinBound, qpVars
  <2> QED
    BY <2>4, <2>5, <2>7 DEF Reason
<1>7. CASE UNCHANGED vars
  <2>1. ~called /\ txLeft = -1 /\ Ready(f)
    BY <1>7 DEF vars, qpVars, nicVars, Ready, IsFinished, GetBytesLeft, IsWinBound
  <2>2. Reason
    BY <2>1, SleepHasReasonIs
  <2> QED
    BY <1>7, <2>2 DEF vars, qpVars, nicVars, Reason, Hides, IsFinished, GetBytesLeft, IsWinBound
<1> QED
  BY <1>1, <1>2, <1>3, <1>4, <1>5, <1>6, <1>7 DEF Next, Quiet

\* For any flows and packet times, with a fixed window (m_var_win off, as
\* shipped): a ready port sleeps over a flow that may send only if the next call
\* is scheduled, or the flow that hides it waits for an answer that wakes the
\* port (DequeueAndTransmit, ReceiveAck).
THEOREM SleepAlwaysHasReason ==
    ASSUME ~VarWin
    PROVE  Spec => []SleepHasReason
<1>1. Init => SleepHasReason
  BY DEF Init, SleepHasReason
<1> QED
  BY <1>1, ReasonInductive, PartsHold, PTL DEF Spec
=============================================================================
