------------------------- MODULE GbnTransport_proofs -------------------------
(***************************************************************************)
(* Proofs about GbnTransport, for every number of paths, size of flow,     *)
(* window and bound: SequencesOrdered is inductive as it stands, and from  *)
(* it the transport refines ReliableDelivery.  If losses need a running    *)
(* timer, what is in flight is always watched, so no flow is ever stuck.   *)
(***************************************************************************)
EXTENDS GbnTransport, SequenceTheorems, TLAPS

\* What Larger computes.
LEMMA LargerBounds ==
    ASSUME NEW a \in Nat, NEW b \in Nat
    PROVE  /\ Larger(a, b) \in Nat /\ Larger(a, b) >= a /\ Larger(a, b) >= b
           /\ Larger(a, b) = a \/ Larger(a, b) = b
BY DEF Larger

\* The head and the tail of a queue of one path, as the channels use them.
LEMMA ReceiveOne ==
    ASSUME NEW S, NEW s \in Seq(S), s # << >>
    PROVE  /\ Head(s) \in S /\ Head(s) = s[1] /\ 1 \in DOMAIN s
           /\ Tail(s) \in Seq(S) /\ Len(Tail(s)) = Len(s) - 1
           /\ \A k \in DOMAIN Tail(s) : k + 1 \in DOMAIN s /\ Tail(s)[k] = s[k + 1]
<1>1. Len(s) \in Nat \ {0} /\ DOMAIN s = 1..Len(s)
  BY EmptySeq, LenProperties
<1>2. /\ Tail(s) \in Seq(S) /\ Len(Tail(s)) = Len(s) - 1
      /\ DOMAIN Tail(s) = 1..(Len(s) - 1)
  BY <1>1, HeadTailProperties, LenProperties
<1>3. \A k \in 1..(Len(s) - 1) : Tail(s)[k] = s[k + 1]
  BY <1>1, HeadTailProperties
<1>4. Head(s) \in S /\ Head(s) = s[1] /\ 1 \in DOMAIN s
  BY <1>1, HeadTailProperties, ElementOfSeq
<1> QED
  BY <1>1, <1>2, <1>3, <1>4

\* What a channel holds after a packet is added to it.
LEMMA SendOne ==
    ASSUME NEW S, NEW s \in Seq(S), NEW e \in S
    PROVE  /\ Append(s, e) \in Seq(S) /\ Len(Append(s, e)) = Len(s) + 1
           /\ \A k \in DOMAIN Append(s, e) :
                \/ k \in DOMAIN s /\ Append(s, e)[k] = s[k]
                \/ k = Len(s) + 1 /\ Append(s, e)[k] = e
<1>1. Len(s) \in Nat /\ DOMAIN s = 1..Len(s)
  BY LenProperties
<1>2. /\ Append(s, e) \in Seq(S) /\ Len(Append(s, e)) = Len(s) + 1
      /\ \A i \in 1..Len(s) : Append(s, e)[i] = s[i]
      /\ Append(s, e)[Len(s) + 1] = e
  BY AppendProperties
<1>3. DOMAIN Append(s, e) = 1..(Len(s) + 1)
  BY <1>2, LenProperties
<1> QED
  BY <1>1, <1>2, <1>3

-----------------------------------------------------------------------------
(* The invariant in the three parts a step touches: the numbers, the data   *)
(* and the answers in flight.                                               *)

Numbers ==
    /\ snd_una \in 0..Size /\ snd_nxt \in 0..Size
    /\ ReceiverNextExpectedSeq \in 0..Size /\ m_lastNACK \in 0..Size
    /\ m_retransmit \in BOOLEAN /\ m_nackTimer \in BOOLEAN /\ finished \in BOOLEAN
    /\ losses \in 0..MaxLoss
    /\ snd_una <= ReceiverNextExpectedSeq
    /\ snd_una <= snd_nxt /\ snd_nxt - snd_una <= Win

DataOK ==
    /\ data \in [Path -> Seq(0..(Size - 1))]
    /\ \A p \in Path : Len(data[p]) <= MaxFlight

AnswersOK ==
    /\ answers \in [Path -> Seq([nack : BOOLEAN, seq : 0..Size])]
    /\ \A p \in Path : Len(answers[p]) <= MaxAnswers
    /\ \A p \in Path : \A k \in DOMAIN answers[p] :
           answers[p][k].seq <= ReceiverNextExpectedSeq

LEMMA InvariantParts == SequencesOrdered <=> Numbers /\ DataOK /\ AnswersOK
BY DEF SequencesOrdered, TypeOK, Numbers, DataOK, AnswersOK

\* What every step may use: the flow's numbers are naturals.
LEMMA NumbersTyped ==
    ASSUME Numbers
    PROVE  /\ Size \in Nat \ {0} /\ Win \in Nat \ {0} /\ MaxLoss \in Nat
           /\ snd_una \in 0..Size /\ snd_nxt \in 0..Size
           /\ ReceiverNextExpectedSeq \in 0..Size /\ m_lastNACK \in 0..Size
           /\ m_retransmit \in BOOLEAN /\ m_nackTimer \in BOOLEAN /\ finished \in BOOLEAN
BY GbnAssumption DEF Numbers

\* A segment leaves the channel of path p: received or lost.
LEMMA DataTaken ==
    ASSUME DataOK, NEW p \in Path, data[p] # << >>,
           data' = [data EXCEPT ![p] = Tail(@)]
    PROVE  DataOK' /\ Head(data[p]) \in 0..(Size - 1)
<1>1. data[p] \in Seq(0..(Size - 1)) /\ Len(data[p]) <= MaxFlight
  BY DEF DataOK
<1>2. /\ Head(data[p]) \in 0..(Size - 1) /\ Tail(data[p]) \in Seq(0..(Size - 1))
      /\ Len(Tail(data[p])) = Len(data[p]) - 1 /\ Len(data[p]) \in Nat
  BY <1>1, ReceiveOne, LenProperties
<1>3. data' \in [Path -> Seq(0..(Size - 1))]
  BY <1>2 DEF DataOK
<1>4. \A q \in Path : Len(data'[q]) <= MaxFlight
  BY <1>1, <1>2, GbnAssumption DEF DataOK
<1> QED
  BY <1>2, <1>3, <1>4 DEF DataOK

\* A segment enters the channel of path p.
LEMMA DataAdded ==
    ASSUME DataOK, NEW p \in Path, Len(data[p]) < MaxFlight, NEW s \in 0..(Size - 1),
           data' = [data EXCEPT ![p] = Append(@, s)]
    PROVE  DataOK'
<1>1. data[p] \in Seq(0..(Size - 1))
  BY DEF DataOK
<1>2. /\ Append(data[p], s) \in Seq(0..(Size - 1)) /\ Len(data[p]) \in Nat
      /\ Len(Append(data[p], s)) = Len(data[p]) + 1
  BY <1>1, SendOne, LenProperties
<1>3. data' \in [Path -> Seq(0..(Size - 1))]
  BY <1>2 DEF DataOK
<1>4. \A q \in Path : Len(data'[q]) <= MaxFlight
  BY <1>2, GbnAssumption DEF DataOK
<1> QED
  BY <1>3, <1>4 DEF DataOK

\* An answer leaves the channel of path p: it asks for nothing the receiver
\* did not expect already.
LEMMA AnswerTaken ==
    ASSUME Numbers, AnswersOK, NEW p \in Path, answers[p] # << >>,
           answers' = [answers EXCEPT ![p] = Tail(@)],
           UNCHANGED ReceiverNextExpectedSeq
    PROVE  /\ AnswersOK'
           /\ Head(answers[p]).seq \in 0..Size /\ Head(answers[p]).nack \in BOOLEAN
           /\ Head(answers[p]).seq <= ReceiverNextExpectedSeq
<1> DEFINE R == [nack : BOOLEAN, seq : 0..Size]
<1>1. answers[p] \in Seq(R) /\ Len(answers[p]) <= MaxAnswers
  BY DEF AnswersOK
<1> HIDE DEF R
<1>2. /\ Head(answers[p]) \in R /\ Head(answers[p]) = answers[p][1] /\ 1 \in DOMAIN answers[p]
      /\ Tail(answers[p]) \in Seq(R)
      /\ Len(Tail(answers[p])) = Len(answers[p]) - 1 /\ Len(answers[p]) \in Nat
      /\ \A k \in DOMAIN Tail(answers[p]) :
             k + 1 \in DOMAIN answers[p] /\ Tail(answers[p])[k] = answers[p][k + 1]
  BY <1>1, ReceiveOne, LenProperties
<1>3. answers \in [Path -> Seq(R)]
  BY DEF AnswersOK, R
<1>4. answers' \in [Path -> Seq(R)] /\ answers'[p] = Tail(answers[p])
      /\ \A q \in Path \ {p} : answers'[q] = answers[q]
  BY <1>2, <1>3
<1>5. \A q \in Path : Len(answers'[q]) <= MaxAnswers
  BY <1>1, <1>2, <1>4, GbnAssumption DEF AnswersOK
<1>6. ASSUME NEW q \in Path, NEW k \in DOMAIN answers'[q]
      PROVE  answers'[q][k].seq <= ReceiverNextExpectedSeq
  <2>1. CASE q = p
    BY <2>1, <1>2, <1>4, <1>6 DEF AnswersOK
  <2>2. CASE q # p
    BY <2>2, <1>4, <1>6 DEF AnswersOK
  <2> QED
    BY <2>1, <2>2
<1>7. Head(answers[p]).seq <= ReceiverNextExpectedSeq
  BY <1>2 DEF AnswersOK
<1>8. AnswersOK'
  BY <1>4, <1>5, <1>6 DEF AnswersOK, R
<1> QED
  BY <1>2, <1>7, <1>8 DEF R

\* The receiver answers, or keeps silent, with what it expects after the step,
\* which is never less than before.
LEMMA AnswerAdded ==
    ASSUME Numbers, AnswersOK, NEW nack \in BOOLEAN,
           ReceiverNextExpectedSeq' \in 0..Size,
           ReceiverNextExpectedSeq <= ReceiverNextExpectedSeq',
           UNCHANGED answers \/ Answer(nack, ReceiverNextExpectedSeq')
    PROVE  AnswersOK'
<1> DEFINE R == [nack : BOOLEAN, seq : 0..Size]
           a == [nack |-> nack, seq |-> ReceiverNextExpectedSeq']
<1>1. a \in R
  OBVIOUS
<1>2. ReceiverNextExpectedSeq \in Nat /\ ReceiverNextExpectedSeq' \in Nat /\ MaxAnswers \in Nat
  BY NumbersTyped, GbnAssumption
<1>3. answers \in [Path -> Seq(R)]
  BY DEF AnswersOK
<1>4. a.seq = ReceiverNextExpectedSeq'
  OBVIOUS
<1>5. \A q \in Path : \A k \in DOMAIN answers[q] :
          answers[q][k].seq <= ReceiverNextExpectedSeq'
  <2> SUFFICES ASSUME NEW q \in Path, NEW k \in DOMAIN answers[q]
               PROVE  answers[q][k].seq <= ReceiverNextExpectedSeq'
    OBVIOUS
  <2>1. answers[q] \in Seq(R)
    BY <1>3
  <2>2. answers[q][k] \in R
    BY <2>1, ElementOfSeq, LenProperties
  <2>3. answers[q][k].seq \in 0..Size /\ answers[q][k].seq <= ReceiverNextExpectedSeq
    BY <2>2 DEF AnswersOK
  <2> QED
    BY <2>3, <1>2, GbnAssumption
<1>6. CASE UNCHANGED answers
  BY <1>5, <1>6 DEF AnswersOK
<1>7. CASE Answer(nack, ReceiverNextExpectedSeq')
  <2>1. PICK p \in Path : /\ Len(answers[p]) < MaxAnswers
                          /\ answers' = [answers EXCEPT ![p] = Append(@, a)]
    BY <1>7 DEF Answer
  <2> HIDE DEF R, a
  <2>2. answers[p] \in Seq(R)
    BY <1>3
  <2>3. /\ Append(answers[p], a) \in Seq(R)
        /\ Len(Append(answers[p], a)) = Len(answers[p]) + 1 /\ Len(answers[p]) \in Nat
        /\ \A k \in DOMAIN Append(answers[p], a) :
             \/ k \in DOMAIN answers[p] /\ Append(answers[p], a)[k] = answers[p][k]
             \/ k = Len(answers[p]) + 1 /\ Append(answers[p], a)[k] = a
    BY <2>2, <1>1, SendOne, LenProperties
  <2>4. /\ answers' \in [Path -> Seq(R)] /\ answers'[p] = Append(answers[p], a)
        /\ \A q \in Path \ {p} : answers'[q] = answers[q]
    BY <2>1, <2>3, <1>3
  <2>5. \A q \in Path : Len(answers'[q]) <= MaxAnswers
    BY <2>1, <2>3, <2>4, <1>2 DEF AnswersOK
  <2>6. ASSUME NEW q \in Path, NEW k \in DOMAIN answers'[q]
        PROVE  answers'[q][k].seq <= ReceiverNextExpectedSeq'
    <3>1. CASE q = p
      BY <3>1, <2>3, <2>4, <2>6, <1>2, <1>4, <1>5
    <3>2. CASE q # p
      BY <3>2, <2>4, <2>6, <1>5
    <3> QED
      BY <3>1, <3>2
  <2> QED
    BY <2>4, <2>5, <2>6 DEF AnswersOK, R
<1> QED
  BY <1>6, <1>7

-----------------------------------------------------------------------------
(* The invariant, one lemma for each actor. *)

\* The sender's answer handling moves only snd_una, snd_nxt and the timer, and
\* to no more than the answer claims.
LEMMA SenderAnswer ==
    ASSUME Numbers, NEW a, a.seq \in 0..Size, a.nack \in BOOLEAN,
           a.seq <= ReceiverNextExpectedSeq,
           ReceiveLastAck(a.seq) \/ ReceiveAck(a),
           UNCHANGED <<rcvVars, losses>>
    PROVE  Numbers'
<1> USE NumbersTyped
<1>1. /\ Larger(snd_una, a.seq) \in 0..Size
      /\ snd_una <= Larger(snd_una, a.seq)
      /\ Larger(snd_una, a.seq) <= ReceiverNextExpectedSeq
  BY DEF Larger, Numbers
<1>2. ASSUME Acknowledge(a.seq)
      PROVE  /\ snd_una' = Larger(snd_una, a.seq) /\ snd_nxt' \in 0..Size
             /\ snd_una' <= snd_nxt' /\ snd_nxt' - snd_una' <= Win
  <2>1. snd_una' = Larger(snd_una, a.seq) /\ snd_nxt' = Larger(snd_nxt, snd_una')
    BY <1>2 DEF Acknowledge
  <2>2. snd_nxt' \in 0..Size /\ (snd_nxt' = snd_nxt \/ snd_nxt' = snd_una')
        /\ snd_una' <= snd_nxt'
    BY <1>1, <2>1 DEF Larger
  <2> QED
    BY <1>1, <2>1, <2>2 DEF Numbers
<1>3. CASE ReceiveLastAck(a.seq)
  <2>1. m_retransmit' \in BOOLEAN /\ finished' \in BOOLEAN
    BY <1>3 DEF ReceiveLastAck
  <2> QED
    BY <1>1, <1>2, <1>3, <2>1 DEF ReceiveLastAck, rcvVars, Numbers
<1>4. CASE ReceiveAck(a)
  <2>1. m_retransmit' \in BOOLEAN /\ finished' \in BOOLEAN
    BY <1>4 DEF ReceiveAck, Restart
  <2>2. /\ snd_una' = Larger(snd_una, a.seq) /\ snd_nxt' \in 0..Size
        /\ snd_una' <= snd_nxt' /\ snd_nxt' - snd_una' <= Win
    <3>1. CASE a.nack
      BY <3>1, <1>1, <1>4 DEF ReceiveAck
    <3>2. CASE ~a.nack
      BY <3>2, <1>2, <1>4 DEF ReceiveAck
    <3> QED
      BY <3>1, <3>2
  <2> QED
    BY <1>1, <1>4, <2>1, <2>2 DEF ReceiveAck, rcvVars, Numbers
<1> QED
  BY <1>3, <1>4

\* ReceiverCheckSeq takes the expected segment only, and answers with what it
\* then expects.
LEMMA ReceiverCheck ==
    ASSUME Numbers, AnswersOK, NEW s \in 0..(Size - 1),
           Expected(s) \/ Early(s) \/ Duplicate(s),
           UNCHANGED <<sndVars, losses>>
    PROVE  Numbers' /\ AnswersOK'
<1> USE NumbersTyped
<1>1. CASE Expected(s)
  <2>1. /\ ReceiverNextExpectedSeq' = ReceiverNextExpectedSeq + 1
        /\ ReceiverNextExpectedSeq' \in 0..Size
        /\ ReceiverNextExpectedSeq <= ReceiverNextExpectedSeq'
    BY <1>1 DEF Expected
  <2>2. Answer(FALSE, ReceiverNextExpectedSeq')
    BY <1>1 DEF Expected, Answer
  <2>3. AnswersOK'
    BY <2>1, <2>2, AnswerAdded
  <2> QED
    BY <1>1, <2>1, <2>3 DEF Expected, sndVars, Numbers
<1>2. CASE Early(s)
  <2>1. /\ UNCHANGED ReceiverNextExpectedSeq
        /\ ReceiverNextExpectedSeq' \in 0..Size
        /\ ReceiverNextExpectedSeq <= ReceiverNextExpectedSeq'
    BY <1>2 DEF Early
  <2>2. UNCHANGED answers \/ Answer(TRUE, ReceiverNextExpectedSeq')
    BY <1>2 DEF Early, Answer
  <2>3. m_lastNACK' \in 0..Size /\ m_nackTimer' \in BOOLEAN
    BY <1>2 DEF Early
  <2>4. AnswersOK'
    BY <2>1, <2>2, AnswerAdded
  <2> QED
    BY <2>1, <2>3, <2>4 DEF sndVars, Numbers
<1>3. CASE Duplicate(s)
  <2>1. /\ UNCHANGED rcvVars
        /\ ReceiverNextExpectedSeq' \in 0..Size
        /\ ReceiverNextExpectedSeq <= ReceiverNextExpectedSeq'
    BY <1>3 DEF Duplicate, rcvVars
  <2>2. Answer(FALSE, ReceiverNextExpectedSeq')
    BY <1>3 DEF Duplicate, Answer, rcvVars
  <2>3. AnswersOK'
    BY <2>1, <2>2, AnswerAdded
  <2> QED
    BY <2>1, <2>3 DEF sndVars, rcvVars, Numbers
<1> QED
  BY <1>1, <1>2, <1>3

\* An answer queue nothing touches stays as it was.
LEMMA AnswersUntouched ==
    ASSUME AnswersOK, UNCHANGED <<answers, ReceiverNextExpectedSeq>>
    PROVE  AnswersOK'
BY DEF AnswersOK

\* One step of the system keeps the sequence numbers in order.
LEMMA SequencesOrderedInductive ==
    SequencesOrdered /\ [Next]_vars => SequencesOrdered'
<1> SUFFICES ASSUME Numbers, DataOK, AnswersOK, [Next]_vars
             PROVE  Numbers' /\ DataOK' /\ AnswersOK'
  BY InvariantParts DEF SequencesOrdered, TypeOK, Numbers, DataOK, AnswersOK
<1> USE NumbersTyped
<1>1. ASSUME NEW p \in Path, Send(p)
      PROVE  Numbers' /\ DataOK' /\ AnswersOK'
  <2>1. snd_nxt < Size /\ snd_nxt - snd_una < Win
    BY <1>1 DEF Send, MaySend, GetBytesLeft
  <2>2. Numbers'
    BY <1>1, <2>1 DEF Send, rcvVars, Numbers
  <2>3. DataOK'
    <3>1. snd_nxt \in 0..(Size - 1)
      BY <2>1
    <3> QED
      BY <1>1, <3>1, DataAdded DEF Send
  <2>4. AnswersOK'
    BY <1>1, AnswersUntouched DEF Send, rcvVars
  <2> QED
    BY <2>2, <2>3, <2>4
<1>2. ASSUME NEW p \in Path, ReceiveUdp(p)
      PROVE  Numbers' /\ DataOK' /\ AnswersOK'
  <2>1. DataOK' /\ Head(data[p]) \in 0..(Size - 1)
    BY <1>2, DataTaken DEF ReceiveUdp
  <2>2. CASE finished /\ UNCHANGED <<rcvVars, answers>>
    BY <1>2, <2>1, <2>2, AnswersUntouched DEF ReceiveUdp, sndVars, rcvVars, Numbers
  <2>3. CASE ~finished /\ (\/ Expected(Head(data[p])) \/ Early(Head(data[p]))
                           \/ Duplicate(Head(data[p])))
    BY <1>2, <2>1, <2>3, ReceiverCheck DEF ReceiveUdp
  <2> QED
    BY <1>2, <2>2, <2>3 DEF ReceiveUdp
<1>3. ASSUME NEW p \in Path, ReceiveAnswer(p)
      PROVE  Numbers' /\ DataOK' /\ AnswersOK'
  <2>1. /\ AnswersOK'
        /\ Head(answers[p]).seq \in 0..Size /\ Head(answers[p]).nack \in BOOLEAN
        /\ Head(answers[p]).seq <= ReceiverNextExpectedSeq
    BY <1>3, AnswerTaken DEF ReceiveAnswer, rcvVars
  <2>2. CASE finished /\ UNCHANGED sndVars
    BY <1>3, <2>1, <2>2 DEF ReceiveAnswer, sndVars, rcvVars, Numbers, DataOK
  <2>3. CASE ~finished /\ (\/ ReceiveLastAck(Head(answers[p]).seq)
                           \/ ReceiveAck(Head(answers[p])))
    <3>1. Numbers'
      BY <1>3, <2>1, <2>3, SenderAnswer DEF ReceiveAnswer
    <3> QED
      BY <1>3, <2>1, <3>1 DEF ReceiveAnswer, DataOK
  <2> QED
    BY <1>3, <2>2, <2>3 DEF ReceiveAnswer
<1>4. ASSUME NEW p \in Path, LoseData(p)
      PROVE  Numbers' /\ DataOK' /\ AnswersOK'
  <2>1. DataOK'
    BY <1>4, DataTaken DEF LoseData
  <2>2. Numbers'
    BY <1>4 DEF LoseData, MayLose, sndVars, rcvVars, Numbers
  <2> QED
    BY <1>4, <2>1, <2>2, AnswersUntouched DEF LoseData, rcvVars
<1>5. ASSUME NEW p \in Path, LoseAnswer(p)
      PROVE  Numbers' /\ DataOK' /\ AnswersOK'
  <2>1. AnswersOK'
    BY <1>5, AnswerTaken DEF LoseAnswer, rcvVars
  <2>2. Numbers'
    BY <1>5 DEF LoseAnswer, MayLose, sndVars, rcvVars, Numbers
  <2> QED
    BY <1>5, <2>1, <2>2 DEF LoseAnswer, DataOK
<1>6. CASE HandleTimeout
  <2>1. Numbers'
    <3>1. m_retransmit' \in BOOLEAN
      BY <1>6 DEF HandleTimeout
    <3>2. snd_nxt' \in 0..Size /\ snd_una <= snd_nxt' /\ snd_nxt' - snd_una <= Win
      BY <1>6 DEF HandleTimeout, Numbers
    <3> QED
      BY <1>6, <3>1, <3>2 DEF HandleTimeout, rcvVars, Numbers
  <2> QED
    BY <1>6, <2>1, AnswersUntouched DEF HandleTimeout, rcvVars, DataOK
<1>7. CASE NackTimerExpires
  <2>1. Numbers'
    BY <1>7 DEF NackTimerExpires, sndVars, Numbers
  <2> QED
    BY <1>7, <2>1, AnswersUntouched DEF NackTimerExpires, DataOK
<1>8. CASE UNCHANGED vars
  BY <1>8, AnswersUntouched DEF vars, sndVars, rcvVars, Numbers, DataOK
<1> QED
  BY <1>1, <1>2, <1>3, <1>4, <1>5, <1>6, <1>7, <1>8 DEF Next, SimulationEnds

\* For every number of paths, size of flow and window: the sender acknowledges
\* only what the receiver took, keeps to its window and never falls behind its
\* own acknowledgements, whatever is duplicated, lost, overtaken or gone back
\* over (rdma-hw.cc, ReceiveAck, ReceiverCheckSeq, HandleTimeout).
THEOREM SequencesAlwaysOrdered == Spec => []SequencesOrdered
<1>1. Init => SequencesOrdered
  <2> SUFFICES ASSUME Init PROVE SequencesOrdered
    OBVIOUS
  <2>1. \A S : << >> \in Seq(S) /\ Len(<< >>) = 0 /\ DOMAIN << >> = {}
    BY EmptySeq
  <2>2. Numbers
    <3>1. m_retransmit \in BOOLEAN /\ m_nackTimer \in BOOLEAN /\ finished \in BOOLEAN
      BY DEF Init
    <3> QED
      BY <3>1, GbnAssumption DEF Init, Numbers
  <2>3. DataOK
    BY <2>1, GbnAssumption DEF Init, DataOK
  <2>4. AnswersOK
    BY <2>1, GbnAssumption DEF Init, AnswersOK
  <2> QED
    BY <2>2, <2>3, <2>4, InvariantParts
<1> QED
  BY <1>1, SequencesOrderedInductive, PTL DEF Spec

-----------------------------------------------------------------------------
(* The refinement. *)

\* A segment is delivered by the step that takes the expected one, and the
\* completion is reported by the answer to all of them.
LEMMA StepImplements ==
    SequencesOrdered /\ [Next]_vars => [RD!Next]_(RD!rdVars)
<1> SUFFICES ASSUME Numbers, DataOK, AnswersOK, [Next]_vars
             PROVE  [RD!Next]_(RD!rdVars)
  BY InvariantParts
<1> USE NumbersTyped
<1> DEFINE delivered == [f \in {1} |-> 0..(ReceiverNextExpectedSeq - 1)]
           done == [f \in {1} |-> finished]
<1>1. ASSUME UNCHANGED <<ReceiverNextExpectedSeq, finished>>
      PROVE  UNCHANGED RD!rdVars
  BY <1>1 DEF RD!rdVars
<1>2. ASSUME NEW p \in Path, ReceiveUdp(p)
      PROVE  RD!Next \/ UNCHANGED RD!rdVars
  <2>1. Head(data[p]) \in 0..(Size - 1)
    BY <1>2, DataTaken DEF ReceiveUdp
  <2>2. CASE ~finished /\ Expected(Head(data[p]))
    <3>1. /\ ReceiverNextExpectedSeq \in 0..(Size - 1)
          /\ ReceiverNextExpectedSeq' = ReceiverNextExpectedSeq + 1
          /\ finished' = finished
      BY <1>2, <2>1, <2>2 DEF ReceiveUdp, Expected, sndVars
    <3>2. 0..(ReceiverNextExpectedSeq' - 1)
            = (0..(ReceiverNextExpectedSeq - 1)) \cup {ReceiverNextExpectedSeq}
      BY <3>1
    <3>3. RD!Segments(1) = 0..(Size - 1)
      BY DEF RD!Segments
    <3>4. delivered' = [delivered EXCEPT ![1] = @ \cup {ReceiverNextExpectedSeq}]
      BY <3>2
    <3>5. RD!Deliver(1)
      BY <2>2, <3>1, <3>3, <3>4 DEF RD!Deliver
    <3> QED
      BY <3>5 DEF RD!Next
  <2>3. CASE UNCHANGED ReceiverNextExpectedSeq
    BY <1>1, <1>2, <2>3 DEF ReceiveUdp, sndVars
  <2> QED
    BY <1>2, <2>2, <2>3 DEF ReceiveUdp, Early, Duplicate, rcvVars
<1>3. ASSUME NEW p \in Path, ReceiveAnswer(p)
      PROVE  RD!Next \/ UNCHANGED RD!rdVars
  <2>1. /\ Head(answers[p]).seq \in 0..Size
        /\ Head(answers[p]).seq <= ReceiverNextExpectedSeq
        /\ UNCHANGED ReceiverNextExpectedSeq
    BY <1>3, AnswerTaken DEF ReceiveAnswer, rcvVars
  <2>2. CASE ~finished /\ ReceiveLastAck(Head(answers[p]).seq)
    <3>1. ReceiverNextExpectedSeq = Size /\ finished' = TRUE /\ ~finished
      BY <2>1, <2>2 DEF ReceiveLastAck
    <3>2. RD!Segments(1) = 0..(Size - 1)
      BY DEF RD!Segments
    <3>3. RD!Complete(1)
      BY <2>1, <3>1, <3>2 DEF RD!Complete
    <3> QED
      BY <3>3 DEF RD!Next
  <2>3. CASE UNCHANGED finished
    BY <1>1, <2>1, <2>3
  <2> QED
    BY <1>3, <2>2, <2>3 DEF ReceiveAnswer, ReceiveAck, sndVars
<1>4. ASSUME NEW p \in Path, Send(p) \/ LoseData(p) \/ LoseAnswer(p)
      PROVE  UNCHANGED RD!rdVars
  BY <1>1, <1>4 DEF Send, LoseData, LoseAnswer, sndVars, rcvVars
<1>5. CASE HandleTimeout \/ NackTimerExpires \/ UNCHANGED vars
  BY <1>1, <1>5 DEF HandleTimeout, NackTimerExpires, vars, sndVars, rcvVars
<1> QED
  BY <1>2, <1>3, <1>4, <1>5 DEF Next, SimulationEnds

\* For every number of paths, size of flow and window: segments reach the
\* application in order, each once, and QpComplete is called once, after the
\* receiver took all of them.
THEOREM GbnRefinesReliableDelivery == Spec => ImplementsReliableDelivery
<1>1. Init => RD!Init
  <2>1. ASSUME Init PROVE 0..(ReceiverNextExpectedSeq - 1) = {}
    BY <2>1 DEF Init
  <2> QED
    BY <2>1 DEF Init, RD!Init
<1> QED
  BY <1>1, StepImplements, SequencesAlwaysOrdered, PTL
     DEF Spec, ImplementsReliableDelivery, RD!Spec

-----------------------------------------------------------------------------
(* The flow is never stuck, when nothing is lost while no timer runs.       *)

\* Something is in flight that brings an answer: an answer itself, or a segment
\* the receiver does not pass over in silence.
AnswerIsComing ==
    \E p \in Path :
        \/ answers[p] # << >>
        \/ \E k \in DOMAIN data[p] : data[p][k] <= ReceiverNextExpectedSeq

\* What is sent and not acknowledged is watched by the timer or on its way to
\* an answer, and a flow all of which is acknowledged is over.
Watched ==
    /\ snd_una = Size => finished
    /\ ~finished /\ ~m_retransmit /\ snd_nxt > snd_una => AnswerIsComing

\* Packets behind the first one of a channel stay in it.
LEMMA StillInFlight ==
    ASSUME DataOK, NEW p \in Path, data[p] # << >>,
           data' = [data EXCEPT ![p] = Tail(@)],
           Head(data[p]) > ReceiverNextExpectedSeq, ReceiverNextExpectedSeq \in 0..Size,
           NEW q \in Path, NEW k \in DOMAIN data[q],
           data[q][k] <= ReceiverNextExpectedSeq
    PROVE  \E l \in DOMAIN data'[q] : data'[q][l] <= ReceiverNextExpectedSeq
<1>1. data \in [Path -> Seq(0..(Size - 1))]
  BY DEF DataOK
<1>2. CASE q # p
  <2>1. data'[q] = data[q]
    BY <1>1, <1>2
  <2> QED
    BY <2>1
<1>3. CASE q = p
  <2>1. data[p] \in Seq(0..(Size - 1)) /\ data'[p] = Tail(data[p])
    BY <1>1
  <2>2. /\ Len(data[p]) \in Nat \ {0} /\ DOMAIN data[p] = 1..Len(data[p])
        /\ Head(data[p]) = data[p][1] /\ Head(data[p]) \in 0..(Size - 1)
    BY <2>1, ReceiveOne, EmptySeq, LenProperties
  <2>3. /\ Tail(data[p]) \in Seq(0..(Size - 1)) /\ Len(Tail(data[p])) = Len(data[p]) - 1
        /\ \A i \in 1..(Len(data[p]) - 1) : Tail(data[p])[i] = data[p][i + 1]
    BY <2>1, <2>2, HeadTailProperties
  <2>4. DOMAIN Tail(data[p]) = 1..(Len(data[p]) - 1)
    BY <2>3, LenProperties
  <2>5. k # 1
    <3>1. ~(Head(data[p]) <= ReceiverNextExpectedSeq)
      BY <2>2, GbnAssumption
    <3> QED
      BY <1>3, <2>2, <3>1
  <2>6. k - 1 \in 1..(Len(data[p]) - 1) /\ (k - 1) + 1 = k
    BY <1>3, <2>2, <2>5
  <2>7. Tail(data[p])[k - 1] = data[p][k]
    BY <2>3, <2>6
  <2> QED
    BY <1>3, <2>1, <2>4, <2>6, <2>7
<1> QED
  BY <1>2, <1>3

\* An answer sent is in flight.
LEMMA AnswerInFlight ==
    ASSUME AnswersOK, NEW nack \in BOOLEAN, NEW seq \in 0..Size, Answer(nack, seq)
    PROVE  AnswerIsComing'
<1> DEFINE a == [nack |-> nack, seq |-> seq]
<1>1. PICK q \in Path : answers' = [answers EXCEPT ![q] = Append(@, a)]
  BY DEF Answer
<1>2. a \in [nack : BOOLEAN, seq : 0..Size]
  OBVIOUS
<1> HIDE DEF a
<1>3. answers'[q] = Append(answers[q], a)
  BY <1>1 DEF AnswersOK
<1>4. Len(Append(answers[q], a)) = Len(answers[q]) + 1 /\ Len(answers[q]) \in Nat
  BY <1>2, SendOne, LenProperties DEF AnswersOK
<1>5. answers'[q] # << >>
  <2>1. Len(<< >>) = 0
    BY EmptySeq
  <2>2. Len(answers'[q]) # 0
    BY <1>3, <1>4
  <2> QED
    BY <2>1, <2>2
<1> QED
  BY <1>5 DEF AnswerIsComing

\* The receiver's handler never ends the wait for an answer.
LEMMA ReceiverAnswers ==
    ASSUME Numbers, DataOK, AnswersOK, AnswerIsComing, ~finished,
           NEW p \in Path, ReceiveUdp(p)
    PROVE  AnswerIsComing'
<1> USE NumbersTyped
<1> DEFINE s == Head(data[p])
<1>1. /\ data[p] # << >> /\ data' = [data EXCEPT ![p] = Tail(@)]
      /\ Expected(s) \/ Early(s) \/ Duplicate(s)
  BY DEF ReceiveUdp
<1>2. s \in 0..(Size - 1)
  BY <1>1, DataTaken
<1>3. CASE Expected(s)
  <2>1. s + 1 \in 0..Size
    BY <1>2
  <2> QED
    BY <1>3, <2>1, AnswerInFlight DEF Expected
<1>4. CASE Duplicate(s)
  BY <1>4, AnswerInFlight DEF Duplicate
<1>5. CASE Early(s)
  <2>1. s > ReceiverNextExpectedSeq /\ UNCHANGED ReceiverNextExpectedSeq
    BY <1>5 DEF Early
  <2>2. CASE Answer(TRUE, ReceiverNextExpectedSeq)
    BY <2>2, AnswerInFlight
  <2>3. CASE UNCHANGED answers
    <3>1. PICK q \in Path :
              \/ answers[q] # << >>
              \/ \E k \in DOMAIN data[q] : data[q][k] <= ReceiverNextExpectedSeq
      BY DEF AnswerIsComing
    <3>2. CASE answers[q] # << >>
      BY <2>3, <3>2 DEF AnswerIsComing
    <3>3. CASE \E k \in DOMAIN data[q] : data[q][k] <= ReceiverNextExpectedSeq
      <4>1. \E l \in DOMAIN data'[q] : data'[q][l] <= ReceiverNextExpectedSeq
        BY <1>1, <2>1, <3>3, StillInFlight
      <4> QED
        BY <2>1, <4>1 DEF AnswerIsComing
    <3> QED
      BY <3>1, <3>2, <3>3
  <2> QED
    BY <1>5, <2>2, <2>3 DEF Early
<1> QED
  BY <1>1, <1>3, <1>4, <1>5

\* A segment sent is watched: with others before it, or as the first.
LEMMA SendingIsWatched ==
    ASSUME Numbers, DataOK, AnswersOK, Watched, NEW p \in Path, Send(p)
    PROVE  Watched'
<1> USE NumbersTyped
<1>1. /\ data' = [data EXCEPT ![p] = Append(@, snd_nxt)]
      /\ UNCHANGED <<snd_una, m_retransmit, finished, ReceiverNextExpectedSeq, answers>>
      /\ snd_nxt \in 0..(Size - 1)
  BY DEF Send, MaySend, GetBytesLeft, rcvVars
<1>2. data \in [Path -> Seq(0..(Size - 1))] /\ data[p] \in Seq(0..(Size - 1))
  BY DEF DataOK
<1>3. /\ Append(data[p], snd_nxt) \in Seq(0..(Size - 1)) /\ Len(data[p]) \in Nat
      /\ Len(Append(data[p], snd_nxt)) = Len(data[p]) + 1
      /\ \A i \in 1..Len(data[p]) : Append(data[p], snd_nxt)[i] = data[p][i]
      /\ Append(data[p], snd_nxt)[Len(data[p]) + 1] = snd_nxt
  BY <1>1, <1>2, AppendProperties, LenProperties
<1>4. /\ DOMAIN data[p] = 1..Len(data[p])
      /\ DOMAIN data'[p] = 1..(Len(data[p]) + 1)
      /\ data'[p] = Append(data[p], snd_nxt)
      /\ \A q \in Path \ {p} : data'[q] = data[q]
  <2>1. data'[p] = Append(data[p], snd_nxt)
    BY <1>1, <1>2
  <2>2. DOMAIN data'[p] = 1..(Len(data[p]) + 1)
    BY <1>3, <2>1, LenProperties
  <2> QED
    BY <1>1, <1>2, <2>1, <2>2, LenProperties
<1>5. ASSUME AnswerIsComing PROVE AnswerIsComing'
  <2>1. PICK q \in Path :
            \/ answers[q] # << >>
            \/ \E k \in DOMAIN data[q] : data[q][k] <= ReceiverNextExpectedSeq
    BY <1>5 DEF AnswerIsComing
  <2>2. CASE answers[q] # << >>
    BY <1>1, <2>2 DEF AnswerIsComing
  <2>3. CASE \E k \in DOMAIN data[q] : data[q][k] <= ReceiverNextExpectedSeq
    <3>1. PICK k \in DOMAIN data[q] : data[q][k] <= ReceiverNextExpectedSeq
      BY <2>3
    <3>2. k \in DOMAIN data'[q] /\ data'[q][k] = data[q][k]
      <4>1. CASE q = p
        <5>1. k \in 1..Len(data[p])
          BY <1>4, <3>1, <4>1
        <5>2. k \in 1..(Len(data[p]) + 1)
          BY <1>3, <5>1
        <5>3. Append(data[p], snd_nxt)[k] = data[p][k]
          BY <1>3, <5>1
        <5> QED
          BY <1>4, <4>1, <5>2, <5>3
      <4>2. CASE q # p
        BY <1>4, <4>2
      <4> QED
        BY <4>1, <4>2
    <3> QED
      BY <1>1, <3>1, <3>2 DEF AnswerIsComing
  <2> QED
    BY <2>1, <2>2, <2>3
<1>6. ASSUME ~(snd_nxt > snd_una) PROVE AnswerIsComing'
  <2>1. snd_nxt <= ReceiverNextExpectedSeq
    BY <1>6 DEF Numbers
  <2>2. Len(data[p]) + 1 \in DOMAIN data'[p] /\ data'[p][Len(data[p]) + 1] = snd_nxt
    BY <1>3, <1>4
  <2> QED
    BY <1>1, <2>1, <2>2 DEF AnswerIsComing
<1>7. ~finished /\ ~m_retransmit => AnswerIsComing'
  BY <1>5, <1>6 DEF Watched
<1> QED
  BY <1>1, <1>7 DEF Watched

\* After an answer the timer runs or nothing is in flight to watch.
LEMMA AnswerIsWatched ==
    ASSUME Numbers, AnswersOK, Watched, ~finished, NEW p \in Path, ReceiveAnswer(p)
    PROVE  Watched'
<1> USE NumbersTyped
<1> DEFINE a == Head(answers[p])
<1>1. /\ a.seq \in 0..Size /\ a.nack \in BOOLEAN
      /\ ReceiveLastAck(a.seq) \/ ReceiveAck(a)
  BY AnswerTaken DEF ReceiveAnswer, rcvVars
<1>2. CASE ReceiveLastAck(a.seq)
  BY <1>2 DEF ReceiveLastAck, Watched
<1>3. CASE ReceiveAck(a)
  <2>1. snd_una < Size
    BY DEF Watched
  <2>2. /\ snd_una' = Larger(snd_una, a.seq) /\ a.seq < Size
        /\ snd_nxt' = snd_una' \/ snd_nxt' = Larger(snd_nxt, snd_una')
    BY <1>3 DEF ReceiveAck, Acknowledge
  <2>3. snd_una' \in 0..Size /\ snd_una' # Size
    BY <1>1, <2>1, <2>2 DEF Larger
  <2>4. ~m_retransmit' => ~(Larger(snd_nxt, snd_una') > snd_una')
    BY <1>3 DEF ReceiveAck, Restart
  <2>5. ~(Larger(snd_nxt, snd_una') > snd_una') => ~(snd_nxt' > snd_una')
    <3>1. CASE snd_nxt' = snd_una'
      BY <2>3, <3>1
    <3>2. CASE snd_nxt' = Larger(snd_nxt, snd_una')
      BY <3>2
    <3> QED
      BY <2>2, <3>1, <3>2
  <2> QED
    BY <2>3, <2>4, <2>5 DEF Watched
<1> QED
  BY <1>1, <1>2, <1>3

\* One step of the system leaves nothing unwatched, if losses need a timer.
LEMMA WatchedInductive ==
    ASSUME ~AnyLoss
    PROVE  SequencesOrdered /\ Watched /\ [Next]_vars => Watched'
<1> SUFFICES ASSUME Numbers, DataOK, AnswersOK, Watched, [Next]_vars
             PROVE  Watched'
  BY InvariantParts
<1> USE NumbersTyped
<1>1. ASSUME NEW p \in Path, Send(p)
      PROVE  Watched'
  BY <1>1, SendingIsWatched
<1>2. ASSUME NEW p \in Path, ReceiveUdp(p)
      PROVE  Watched'
  <2>1. UNCHANGED <<snd_una, snd_nxt, m_retransmit, finished>>
    BY <1>2 DEF ReceiveUdp, sndVars
  <2>2. CASE ~finished /\ AnswerIsComing
    <3>1. AnswerIsComing'
      BY <1>2, <2>2, ReceiverAnswers
    <3> QED
      BY <2>1, <3>1 DEF Watched
  <2>3. CASE finished \/ ~AnswerIsComing
    BY <2>1, <2>3 DEF Watched
  <2> QED
    BY <2>2, <2>3
<1>3. ASSUME NEW p \in Path, ReceiveAnswer(p)
      PROVE  Watched'
  <2>1. CASE finished
    BY <1>3, <2>1 DEF ReceiveAnswer, ReceiveAck, ReceiveLastAck, sndVars, Watched
  <2>2. CASE ~finished
    BY <1>3, <2>2, AnswerIsWatched
  <2> QED
    BY <2>1, <2>2
<1>4. ASSUME NEW p \in Path, LoseData(p) \/ LoseAnswer(p)
      PROVE  Watched'
  BY <1>4 DEF LoseData, LoseAnswer, MayLose, sndVars, Watched
<1>5. CASE HandleTimeout
  <2>1. /\ UNCHANGED <<snd_una, finished>>
        /\ ~finished => snd_nxt' = snd_una
    BY <1>5 DEF HandleTimeout
  <2>2. ~finished => ~(snd_nxt' > snd_una')
    BY <2>1
  <2> QED
    BY <2>1, <2>2 DEF Watched
<1>6. CASE NackTimerExpires \/ UNCHANGED vars
  <2>1. UNCHANGED <<sndVars, ReceiverNextExpectedSeq, data, answers>>
    BY <1>6 DEF NackTimerExpires, vars, rcvVars
  <2> QED
    BY <2>1 DEF sndVars, Watched, AnswerIsComing
<1> QED
  BY <1>1, <1>2, <1>3, <1>4, <1>5, <1>6 DEF Next, SimulationEnds

\* For every number of paths, size of flow and window, if nothing is lost while
\* no timer runs: an unfinished flow may send, its timer runs, or an answer is
\* coming, whatever negative acknowledgements are held back (ReceiverCheckSeq,
\* ReceiveAck, HandleTimeout).
THEOREM GbnNeverStuck ==
    ASSUME ~AnyLoss
    PROVE  Spec => []NeverStuck
<1>1. Init => Watched
  BY GbnAssumption DEF Init, Watched
<1>2. SequencesOrdered /\ Watched => NeverStuck
  <2> SUFFICES ASSUME Numbers, Watched, ~finished, ~MaySend, ~m_retransmit
               PROVE  AnswerIsComing
    BY InvariantParts DEF NeverStuck, AnswerIsComing
  <2> USE NumbersTyped
  <2>1. snd_una < Size
    BY DEF Watched
  <2>2. snd_nxt > snd_una
    <3>1. CASE snd_nxt = snd_una
      BY <2>1, <3>1 DEF MaySend, GetBytesLeft
    <3>2. CASE snd_nxt # snd_una
      BY <3>2 DEF Numbers
    <3> QED
      BY <3>1, <3>2
  <2> QED
    BY <2>2 DEF Watched
<1> QED
  BY <1>1, <1>2, WatchedInductive, SequencesAlwaysOrdered, PTL DEF Spec
=============================================================================
