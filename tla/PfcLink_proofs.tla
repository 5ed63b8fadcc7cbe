--------------------------- MODULE PfcLink_proofs ---------------------------
(***************************************************************************)
(* Proofs about PfcLink, for every delay, threshold and pause time: the    *)
(* timer of a paused port is never lost; the last word about the sender's  *)
(* queue, on the way or received, is the switch's flag, unless a frame was *)
(* lost or the timer overruled it; and what arrives between the PAUSE      *)
(* frame and its effect is no more than one round trip brings, which the   *)
(* headroom takes wherever its formula covers a round trip.                *)
(***************************************************************************)
EXTENDS PfcLink, SequenceTheorems, TLAPS

Frame == [pause : BOOLEAN, due : Int]

Types ==
    /\ off \in BOOLEAN /\ m_paused \in BOOLEAN /\ misled \in BOOLEAN
    /\ resumeEvt \in Int /\ resumeEvt >= -1
    /\ frames \in Seq(Frame)

\* A frame on its way is news: sending it makes good for what was lost before.
FramesAreNews == frames # <<>> => ~misled

LinkInv == Types /\ PausedHasTimer /\ SenderFollowsSwitch /\ FramesAreNews

\* The first frame of the queue leaves: the last one stays the last.
LEMMA FirstLeaves ==
    ASSUME NEW S, NEW s \in Seq(S), s # <<>>
    PROVE  /\ Head(s) \in S /\ Tail(s) \in Seq(S)
           /\ Tail(s) # <<>> => Last(Tail(s)) = Last(s)
           /\ Tail(s) = <<>> => Last(s) = Head(s)
<1>1. Len(s) \in Nat \ {0}
  BY EmptySeq
<1>2. /\ Head(s) \in S /\ Tail(s) \in Seq(S) /\ Len(Tail(s)) = Len(s) - 1
      /\ \A i \in 1 .. Len(Tail(s)) : Tail(s)[i] = s[i + 1]
  BY HeadTailProperties
<1>3. Head(s) = s[1]
  OBVIOUS
<1>4. Tail(s) # <<>> => Last(Tail(s)) = Last(s)
  <2> SUFFICES ASSUME Tail(s) # <<>> PROVE Tail(s)[Len(Tail(s))] = s[Len(s)]
    BY DEF Last
  <2>1. Len(Tail(s)) \in Nat \ {0}
    BY <1>2, EmptySeq
  <2> QED
    BY <1>1, <1>2, <2>1
<1>5. Tail(s) = <<>> => Last(s) = Head(s)
  <2> SUFFICES ASSUME Tail(s) = <<>> PROVE Len(s) = 1
    BY <1>3 DEF Last
  <2>1. Len(Tail(s)) = 0
    BY EmptySeq
  <2>2. Len(Tail(s)) = Len(s) - 1
    BY <1>2
  <2>3. Len(s) - 1 = 0
    BY <2>1, <2>2
  <2> QED
    BY <1>1, <2>3
<1> QED
  BY <1>2, <1>4, <1>5

\* A frame is added: it is the last one.
LEMMA NewLast ==
    ASSUME NEW S, NEW s \in Seq(S), NEW e \in S
    PROVE  Append(s, e) \in Seq(S) /\ Append(s, e) # <<>> /\ Last(Append(s, e)) = e
BY AppendProperties DEF Last

\* The switch sends a frame exactly when its flag turns.
LEMMA SendPfcFollows ==
    ASSUME LinkInv, LinkAssumption, off' \in BOOLEAN, SendPfc, UNCHANGED senderVars
    PROVE  LinkInv'
<1>1. CASE off' = off
  BY <1>1 DEF LinkInv, Types, PausedHasTimer, SenderFollowsSwitch, FramesAreNews, SendPfc, senderVars
<1>2. CASE off' # off
  <2>1. PICK wait \in 0 .. MaxWait :
            /\ frames' = Append(frames, [pause |-> off', due |-> Delay + wait])
            /\ misled' = FALSE
    BY <1>2 DEF SendPfc
  <2> DEFINE f == [pause |-> off', due |-> Delay + wait]
  <2>2. f \in Frame /\ f.pause = off'
    BY DEF Frame, LinkAssumption
  <2>3. frames' \in Seq(Frame) /\ frames' # <<>> /\ Last(frames') = f
    BY <2>1, <2>2, NewLast DEF LinkInv, Types
  <2>4. Types'
    BY <2>1, <2>3 DEF LinkInv, Types, senderVars
  <2>5. PausedHasTimer'
    BY DEF LinkInv, PausedHasTimer, senderVars
  <2>6. SenderFollowsSwitch' /\ FramesAreNews'
    BY <2>1, <2>2, <2>3 DEF SenderFollowsSwitch, FramesAreNews
  <2> QED
    BY <2>4, <2>5, <2>6 DEF LinkInv
<1> QED
  BY <1>1, <1>2

\* What the link carries towards the switch does not concern the sender's flag.
LEMMA ForwardPathApart ==
    ASSUME LinkInv, UNCHANGED <<off, frames, m_paused, resumeEvt, misled>>
    PROVE  LinkInv'
BY DEF LinkInv, Types, PausedHasTimer, SenderFollowsSwitch, FramesAreNews

\* A frame reaches the sender, or is lost.
LEMMA FrameArrives ==
    ASSUME LinkInv, LinkAssumption, ReceivePfc \/ LosePfc
    PROVE  LinkInv'
<1>1. /\ frames # <<>> /\ frames' = Tail(frames) /\ ~misled
      /\ UNCHANGED off
  BY DEF ReceivePfc, LosePfc, LinkInv, FramesAreNews
<1>2. /\ Head(frames) \in Frame /\ Tail(frames) \in Seq(Frame)
      /\ Tail(frames) # <<>> => Last(Tail(frames)) = Last(frames)
      /\ Tail(frames) = <<>> => Last(frames) = Head(frames)
  BY <1>1, FirstLeaves DEF LinkInv, Types
<1>3. Head(frames).pause \in BOOLEAN
  BY <1>2 DEF Frame
<1>4. off = Last(frames).pause
  BY <1>1 DEF LinkInv, SenderFollowsSwitch
<1>5. CASE ReceivePfc
  <2>1. /\ m_paused' = Head(frames).pause /\ misled' = misled
        /\ resumeEvt' = IF Head(frames).pause THEN PauseTime ELSE -1
    BY <1>5 DEF ReceivePfc
  <2>2. resumeEvt' \in Int /\ resumeEvt' >= -1 /\ (Head(frames).pause <=> resumeEvt' >= 0)
    BY <2>1, <1>3 DEF LinkAssumption
  <2>3. Types'
    BY <1>1, <1>2, <1>3, <2>1, <2>2 DEF LinkInv, Types
  <2>4. PausedHasTimer'
    BY <2>1, <2>2 DEF PausedHasTimer
  <2>5. SenderFollowsSwitch' /\ FramesAreNews'
    BY <1>1, <1>2, <1>4, <2>1 DEF SenderFollowsSwitch, FramesAreNews
  <2> QED
    BY <2>3, <2>4, <2>5 DEF LinkInv
<1>6. CASE LosePfc
  <2>1. misled' = (misled \/ frames' = <<>>) /\ UNCHANGED senderVars
    BY <1>6 DEF LosePfc
  <2>2. misled' \in BOOLEAN /\ (frames' # <<>> => ~misled') /\ (frames' = <<>> => misled')
    BY <1>1, <2>1
  <2>3. Types'
    BY <1>1, <1>2, <2>1, <2>2 DEF LinkInv, Types, senderVars
  <2>4. PausedHasTimer'
    BY <2>1 DEF LinkInv, PausedHasTimer, senderVars
  <2>5. SenderFollowsSwitch' /\ FramesAreNews'
    BY <1>1, <1>2, <1>4, <2>2 DEF SenderFollowsSwitch, FramesAreNews
  <2> QED
    BY <2>3, <2>4, <2>5 DEF LinkInv
<1> QED
  BY <1>5, <1>6

\* The pause runs out.
LEMMA PauseRunsOut ==
    ASSUME LinkInv, PauseExpires
    PROVE  LinkInv'
<1>1. /\ m_paused' = FALSE /\ resumeEvt' = -1
      /\ misled' = (off /\ frames = <<>>) /\ UNCHANGED <<off, frames>>
  BY DEF PauseExpires
<1>2. misled' \in BOOLEAN /\ (frames # <<>> => ~misled') /\ (frames = <<>> => (misled' <=> off))
  BY <1>1 DEF LinkInv, Types
<1>3. Types'
  <2>1. m_paused' \in BOOLEAN
    BY <1>1
  <2>2. resumeEvt' \in Int /\ resumeEvt' >= -1
    BY <1>1
  <2> QED
    BY <1>1, <1>2, <2>1, <2>2 DEF LinkInv, Types
<1>4. PausedHasTimer'
  <2>1. ~(resumeEvt' >= 0)
    BY <1>1
  <2> QED
    BY <1>1, <2>1 DEF PausedHasTimer
<1>5. SenderFollowsSwitch'
  <2>1. CASE frames = <<>>
    BY <1>1, <1>2, <2>1 DEF LinkInv, Types, SenderFollowsSwitch
  <2>2. CASE frames # <<>>
    BY <1>1, <2>2 DEF LinkInv, SenderFollowsSwitch, FramesAreNews
  <2> QED
    BY <2>1, <2>2
<1>6. FramesAreNews'
  BY <1>1, <1>2 DEF FramesAreNews
<1> QED
  BY <1>3, <1>4, <1>5, <1>6 DEF LinkInv

\* Time passes: the frames come nearer, in the same order.
LEMMA TimePasses ==
    ASSUME LinkInv, Tick
    PROVE  LinkInv'
<1>1. /\ frames' = [i \in DOMAIN frames |-> [frames[i] EXCEPT !.due = @ - 1]]
      /\ resumeEvt' = IF resumeEvt > 0 THEN resumeEvt - 1 ELSE resumeEvt
      /\ UNCHANGED <<off, m_paused, misled>>
  BY DEF Tick
<1>2. /\ frames \in Seq(Frame) /\ Len(frames) \in Nat /\ DOMAIN frames = 1 .. Len(frames)
      /\ \A i \in 1 .. Len(frames) : frames[i] \in Frame
  BY LenProperties, ElementOfSeq DEF LinkInv, Types
<1>3. \A i \in 1 .. Len(frames) :
          frames'[i] \in Frame /\ frames'[i].pause = frames[i].pause
  BY <1>1, <1>2 DEF Frame
<1>4. frames' \in [1 .. Len(frames) -> Frame]
  BY <1>1, <1>2, <1>3
<1>5. frames' \in Seq(Frame)
  BY <1>2, <1>4, SeqDef
<1>6. Len(frames') = Len(frames)
  BY <1>2, <1>4, <1>5, LenProperties
<1>7. (frames' = <<>>) <=> (frames = <<>>)
  BY <1>2, <1>5, <1>6, EmptySeq
<1>8. frames # <<>> => Last(frames').pause = Last(frames).pause
  <2> SUFFICES ASSUME frames # <<>>
               PROVE  frames'[Len(frames')].pause = frames[Len(frames)].pause
    BY DEF Last
  <2>1. Len(frames) \in 1 .. Len(frames)
    BY <1>2, EmptySeq
  <2> QED
    BY <1>3, <1>6, <2>1
<1>9. Types'
  BY <1>1, <1>5 DEF LinkInv, Types
<1>10. PausedHasTimer'
  BY <1>1 DEF LinkInv, Types, PausedHasTimer
<1>11. SenderFollowsSwitch' /\ FramesAreNews'
  BY <1>1, <1>7, <1>8 DEF LinkInv, SenderFollowsSwitch, FramesAreNews
<1> QED
  BY <1>9, <1>10, <1>11 DEF LinkInv

\* One step of the link keeps all of it.
LEMMA LinkInvInductive == LinkInv /\ [Next]_vars => LinkInv'
<1> SUFFICES ASSUME LinkInv, [Next]_vars PROVE LinkInv'
  OBVIOUS
<1> USE LinkAssumption
<1>1. CASE TransmitStart
  BY <1>1, ForwardPathApart DEF TransmitStart
<1>2. CASE ReceivePacket
  <2>1. CASE Q!Arrive(1) /\ SendPfc
    <3>1. off' \in BOOLEAN
      BY <2>1 DEF Q!Arrive, LinkInv, Types
    <3> QED
      BY <1>2, <2>1, <3>1, SendPfcFollows DEF ReceivePacket
  <2>2. CASE Full /\ UNCHANGED <<bytes, off, frames, misled>>
    BY <1>2, <2>2, ForwardPathApart DEF ReceivePacket, senderVars
  <2> QED
    BY <1>2, <2>1, <2>2 DEF ReceivePacket
<1>3. CASE LosePacket
  BY <1>3, ForwardPathApart DEF LosePacket, senderVars
<1>4. CASE Forward
  <2>1. off' \in BOOLEAN
    BY <1>4 DEF Forward, Q!Depart, LinkInv, Types
  <2> QED
    BY <1>4, <2>1, SendPfcFollows DEF Forward
<1>5. CASE ReceivePfc \/ LosePfc
  BY <1>5, FrameArrives
<1>6. CASE PauseExpires
  BY <1>6, PauseRunsOut
<1>7. CASE Tick
  BY <1>7, TimePasses
<1>8. CASE UNCHANGED vars
  BY <1>8, ForwardPathApart DEF vars
<1> QED
  BY <1>1, <1>2, <1>3, <1>4, <1>5, <1>6, <1>7, <1>8 DEF Next

\* LinkInv holds in every state.
LEMMA LinkInvHolds == Spec => []LinkInv
<1>1. Init => LinkInv
  <2> SUFFICES ASSUME Init PROVE LinkInv
    OBVIOUS
  <2>1. off = FALSE /\ m_paused = FALSE /\ misled = FALSE /\ frames = <<>> /\ resumeEvt = -1
    BY DEF Init, Q!Init
  <2>2. frames \in Seq(Frame)
    BY <2>1, EmptySeq
  <2>3. resumeEvt \in Int /\ resumeEvt >= -1 /\ ~(resumeEvt >= 0)
    BY <2>1
  <2>4. Types
    BY <2>1, <2>2, <2>3 DEF Types
  <2> QED
    BY <2>1, <2>3, <2>4
       DEF LinkInv, PausedHasTimer, SenderFollowsSwitch, FramesAreNews
<1> QED
  BY <1>1, LinkInvInductive, PTL DEF Spec

\* For every delay and pause time, a port that a PAUSE frame stopped has its
\* Resume event scheduled, and no other port has (qbb-net-device.cc, Receive).
THEOREM PausedAlwaysHasTimer == Spec => []PausedHasTimer
BY LinkInvHolds, PTL DEF LinkInv

\* For every delay, threshold and pause time, the sender is told, or about to
\* be told, what the switch last decided, whatever frames were lost in earlier
\* excursions (SendPfc, Receive).
THEOREM SenderAlwaysFollowsSwitch == Spec => []SenderFollowsSwitch
BY LinkInvHolds, PTL DEF LinkInv

-----------------------------------------------------------------------------
(* The round trip.  The switch turns its flag at XOFF exactly; what can still  *)
(* arrive then is what is on the wire and what the sender puts there until   *)
(* the frame reaches it.  Room counts both, with what is above XOFF already. *)

\* Packets follow one another on the wire at the rate of the link, and the
\* last of them leaves room for the next when the port is ready.
Spaced(w, left) ==
    /\ w \in Seq(0 .. (1 + Delay))
    /\ \A i, j \in 1 .. Len(w) : i < j => w[j] - w[i] >= j - i
    /\ left \in 0 .. 1
    /\ left = 0 => \A i \in 1 .. Len(w) : w[i] <= Delay

WireSpaced == Spaced(wire, txLeft)

\* Frames arrive in the order they were sent.
FramesInOrder ==
    /\ frames \in Seq([pause : BOOLEAN, due : 0 .. (MaxWait + Delay)])
    /\ \A i, j \in 1 .. Len(frames) : i < j => frames[i].due <= frames[j].due

\* The buffer keeps its bound, and a sender not told to pause is below XOFF.
QueueBounded ==
    /\ bytes \in 0 .. (Q!XOFF + headroom)
    /\ ~off => bytes < Q!XOFF

\* What the sender may still put on the wire until the last frame arrives.
ToSend == IF frames = <<>> THEN 0 ELSE Last(frames).due + 1 - txLeft

Room == off /\ ~misled => Q!AboveXoff(bytes) + Len(wire) + ToSend <= RoundTrip

RoomInv == WireSpaced /\ FramesInOrder /\ QueueBounded /\ resumeEvt <= PauseTime /\ Room

\* For which links the formula of config_switch_mmu is right: it covers the
\* round trip of a link no faster than host 0's NIC, if PFC frames wait for one
\* packet at most.
LEMMA HeadroomIsFor ==
    /\ headroom \in Nat
    /\ NicRate >= LinkRate /\ MaxWait <= 1 => RoundTrip <= headroom
<1> DEFINE x == 2 * Delay
<1>1. /\ x \in Nat /\ LinkRate \in Nat \ {0} /\ NicRate \in Nat \ {0} /\ MaxWait \in Nat
  BY LinkAssumption
<1>2. x * NicRate \in Nat
  BY <1>1
<1>3. (x * NicRate) \div LinkRate \in Nat
  BY <1>1, <1>2
<1>4. ASSUME NicRate >= LinkRate
      PROVE  x <= (x * NicRate) \div LinkRate
  <2>1. x * LinkRate <= x * NicRate
    BY <1>1, <1>4
  <2> DEFINE y == x * NicRate
             q == y \div LinkRate
  <2>2. y \in Nat /\ x * LinkRate <= y
    BY <1>2, <2>1
  <2> HIDE DEF y
  <2>3. q \in Nat /\ y < LinkRate * q + LinkRate
    BY <1>1, <2>2
  <2> HIDE DEF q, x
  <2>4. x * LinkRate < LinkRate * (q + 1)
    BY <1>1, <2>2, <2>3
  <2>5. x < q + 1
    BY <1>1, <2>3, <2>4
  <2>6. x <= q
    BY <1>1, <2>3, <2>5
  <2> QED
    BY <2>6 DEF q, y, x
<1>5. headroom = (x * NicRate) \div LinkRate + 2 /\ RoundTrip = x + MaxWait + 1
  BY DEF headroom, RoundTrip
<1> HIDE DEF x
<1> QED
  BY <1>1, <1>3, <1>4, <1>5

\* The constants of the queue.
LEMMA Levels ==
    /\ Delay \in Nat /\ PauseTime \in Nat \ {0}
    /\ MaxWait \in Nat /\ headroom \in Nat
    /\ RoundTrip = 2 * Delay + MaxWait + 1 /\ RoundTrip \in Nat
    /\ Q!XOFF \in Nat \ {0} /\ Q!XON \in Nat /\ Q!XON < Q!XOFF
<1>1. /\ reserve \in Nat /\ shared_bytes \in Nat \ {0} /\ resume_offset \in Nat \ {0}
      /\ Delay \in Nat /\ PauseTime \in Nat \ {0} /\ MaxWait \in Nat
  BY LinkAssumption
<1>2. headroom \in Nat
  BY HeadroomIsFor
<1>3. RoundTrip = 2 * Delay + MaxWait + 1 /\ RoundTrip \in Nat
  BY <1>1 DEF RoundTrip
<1>4. Q!XOFF \in Nat \ {0} /\ Q!XON \in Nat /\ Q!XON < Q!XOFF
  BY <1>1 DEF Q!XOFF, Q!XON
<1> QED
  BY <1>1, <1>2, <1>3, <1>4

\* One packet adds at most one above XOFF and takes none away.
LEMMA AboveSteps ==
    ASSUME NEW b \in Nat
    PROVE  /\ Q!AboveXoff(b) \in Nat
           /\ b < Q!XOFF + 1 => Q!AboveXoff(b) = 0
           /\ b <= Q!XOFF + Q!AboveXoff(b)
           /\ Q!AboveXoff(b + 1) <= Q!AboveXoff(b) + 1
           /\ b >= 1 => Q!AboveXoff(b - 1) <= Q!AboveXoff(b)
BY Levels DEF Q!AboveXoff

\* What Tail leaves of a sequence.
LEMMA TailIs ==
    ASSUME NEW S, NEW s \in Seq(S), s # <<>>
    PROVE  /\ Head(s) = s[1] /\ Head(s) \in S /\ Len(s) \in Nat \ {0}
           /\ Tail(s) \in Seq(S) /\ Len(Tail(s)) = Len(s) - 1
           /\ \A i \in 1 .. Len(Tail(s)) : Tail(s)[i] = s[i + 1]
<1>1. Len(s) \in Nat \ {0}
  BY EmptySeq
<1>2. /\ Head(s) \in S /\ Tail(s) \in Seq(S) /\ Len(Tail(s)) = Len(s) - 1
      /\ \A i \in 1 .. Len(Tail(s)) : Tail(s)[i] = s[i + 1]
  BY HeadTailProperties
<1> QED
  BY <1>1, <1>2

\* What Append adds to it.
LEMMA AppendIs ==
    ASSUME NEW S, NEW s \in Seq(S), NEW e \in S
    PROVE  /\ Append(s, e) \in Seq(S) /\ Len(s) \in Nat
           /\ Len(Append(s, e)) = Len(s) + 1
           /\ \A i \in 1 .. Len(s) : Append(s, e)[i] = s[i]
           /\ Append(s, e)[Len(s) + 1] = e
BY AppendProperties, LenProperties

\* So many packets fit on the wire, one less when the port is ready.
LEMMA WireHolds ==
    ASSUME NEW w, NEW left, Spaced(w, left)
    PROVE  /\ Len(w) \in Nat
           /\ (\A i \in 1 .. Len(w) : w[i] >= 1) => Len(w) + 1 - left <= Delay + 1
<1>1. /\ Len(w) \in Nat
      /\ \A i \in 1 .. Len(w) : w[i] \in 0 .. (1 + Delay)
  BY LenProperties, ElementOfSeq DEF Spaced
<1>2. left \in 0 .. 1 /\ Delay \in Nat
  BY Levels DEF Spaced
<1>3. ASSUME \A i \in 1 .. Len(w) : w[i] >= 1
      PROVE  Len(w) + 1 - left <= Delay + 1
  <2>1. CASE Len(w) = 0
    BY <1>2, <2>1
  <2>2. CASE Len(w) # 0
    <3> DEFINE n == Len(w)
    <3>1. n \in Nat \ {0} /\ 1 \in 1 .. n /\ n \in 1 .. n
      BY <1>1, <2>2
    <3>2. w[n] - w[1] >= n - 1
      <4>1. CASE n = 1
        BY <1>1, <3>1, <4>1
      <4>2. CASE n # 1
        <5>1. 1 < n
          <6>1. n \in Nat \ {0} /\ n # 1
            BY <3>1, <4>2
          <6> HIDE DEF n
          <6> QED
            BY <6>1
        <5>2. \A i, j \in 1 .. n : i < j => w[j] - w[i] >= j - i
          BY DEF Spaced
        <5> HIDE DEF n
        <5> QED
          BY <3>1, <5>1, <5>2
      <4> QED
        BY <4>1, <4>2
    <3>3. w[1] >= 1 /\ w[1] \in Nat /\ w[n] \in 0 .. (1 + Delay)
      BY <1>1, <1>2, <1>3, <3>1
    <3>4. left = 0 => w[n] <= Delay
      BY <3>1 DEF Spaced
    <3> HIDE DEF n
    <3>5. n + 1 - left <= Delay + 1
      BY <1>2, <3>1, <3>2, <3>3, <3>4
    <3> QED
      BY <3>5 DEF n
  <2> QED
    BY <2>1, <2>2
<1> QED
  BY <1>1, <1>3

\* A packet leaves the wire.
LEMMA WireTaken ==
    ASSUME WireSpaced, wire # <<>>, wire' = Tail(wire), txLeft' = txLeft
    PROVE  /\ WireSpaced' /\ Len(wire') = Len(wire) - 1 /\ Len(wire) \in Nat \ {0}
           /\ Head(wire) = 0 => \A i \in 1 .. Len(wire') : wire'[i] >= 1
<1>1. /\ Len(wire) \in Nat \ {0} /\ Head(wire) = wire[1]
      /\ wire' \in Seq(0 .. (1 + Delay)) /\ Len(wire') = Len(wire) - 1
      /\ \A i \in 1 .. Len(wire') : wire'[i] = wire[i + 1]
  BY TailIs DEF WireSpaced, Spaced
<1>2. \A i \in 1 .. Len(wire) : wire[i] \in 0 .. (1 + Delay)
  BY ElementOfSeq DEF WireSpaced, Spaced
<1>3. \A i, j \in 1 .. Len(wire') : i < j => wire'[j] - wire'[i] >= j - i
  <2> SUFFICES ASSUME NEW i \in 1 .. Len(wire'), NEW j \in 1 .. Len(wire'), i < j
               PROVE  wire'[j] - wire'[i] >= j - i
    OBVIOUS
  <2>1. i + 1 \in 1 .. Len(wire) /\ j + 1 \in 1 .. Len(wire) /\ i + 1 < j + 1
    BY <1>1
  <2>2. wire[j + 1] - wire[i + 1] >= (j + 1) - (i + 1)
    BY <2>1 DEF WireSpaced, Spaced
  <2> QED
    BY <1>1, <2>2
<1>4. txLeft' = 0 => \A i \in 1 .. Len(wire') : wire'[i] <= Delay
  BY <1>1 DEF WireSpaced, Spaced
<1>5. ASSUME Head(wire) = 0, NEW i \in 1 .. Len(wire')
      PROVE  wire'[i] >= 1
  <2>1. 1 \in 1 .. Len(wire) /\ i + 1 \in 1 .. Len(wire) /\ 1 < i + 1
    BY <1>1
  <2>2. wire[i + 1] - wire[1] >= (i + 1) - 1
    BY <2>1 DEF WireSpaced, Spaced
  <2>3. wire[i + 1] \in Int
    BY <1>2, <2>1, Levels
  <2> QED
    BY <1>1, <1>5, <2>2, <2>3
<1> QED
  BY <1>1, <1>3, <1>4, <1>5 DEF WireSpaced, Spaced

\* A packet enters the wire.
LEMMA WireGrows ==
    ASSUME WireSpaced, TransmitStart
    PROVE  WireSpaced' /\ Len(wire') = Len(wire) + 1 /\ Len(wire) \in Nat
<1> USE Levels
<1>1. /\ txLeft = 0 /\ txLeft' = 1 /\ wire' = Append(wire, 1 + Delay)
  BY DEF TransmitStart
<1>2. /\ wire' \in Seq(0 .. (1 + Delay)) /\ Len(wire) \in Nat
      /\ Len(wire') = Len(wire) + 1
      /\ \A i \in 1 .. Len(wire) : wire'[i] = wire[i]
      /\ wire'[Len(wire) + 1] = 1 + Delay
  <2>1. 1 + Delay \in 0 .. (1 + Delay)
    OBVIOUS
  <2> QED
    BY <1>1, <2>1, AppendIs DEF WireSpaced, Spaced
<1>3. \A i \in 1 .. Len(wire) : wire[i] \in 0 .. (1 + Delay) /\ wire[i] <= Delay
  BY <1>1, ElementOfSeq DEF WireSpaced, Spaced
<1>4. \A i, j \in 1 .. Len(wire') : i < j => wire'[j] - wire'[i] >= j - i
  <2> SUFFICES ASSUME NEW i \in 1 .. Len(wire'), NEW j \in 1 .. Len(wire'), i < j
               PROVE  wire'[j] - wire'[i] >= j - i
    OBVIOUS
  <2>1. i \in 1 .. Len(wire) /\ wire'[i] = wire[i]
    BY <1>2
  <2>2. CASE j \in 1 .. Len(wire)
    BY <1>2, <2>1, <2>2 DEF WireSpaced, Spaced
  <2>3. CASE j = Len(wire) + 1
    <3> DEFINE n == Len(wire)
    <3>1. n \in 1 .. Len(wire)
      BY <1>2, <2>1
    <3>2. wire[n] - wire[i] >= n - i
      <4>1. CASE i = n
        BY <1>3, <2>1, <3>1, <4>1
      <4>2. CASE i # n
        BY <1>2, <2>1, <3>1, <4>2 DEF WireSpaced, Spaced
      <4> QED
        BY <4>1, <4>2
    <3>3. wire[n] \in Int /\ wire[n] <= Delay /\ wire[i] \in Int
      BY <1>3, <2>1, <3>1
    <3>4. wire'[j] = 1 + Delay /\ j = n + 1 /\ n \in Int /\ i \in Int
      BY <1>2, <2>3
    <3> HIDE DEF n
    <3> QED
      BY <2>1, <3>2, <3>3, <3>4
  <2>4. j \in 1 .. Len(wire) \/ j = Len(wire) + 1
    <3>1. j \in 1 .. (Len(wire) + 1) /\ Len(wire) \in Nat
      BY <1>2, Zenon
    <3> QED
      BY <3>1
  <2> QED
    BY <2>2, <2>3, <2>4
<1>5. txLeft' \in 0 .. 1 /\ txLeft' # 0
  BY <1>1
<1> QED
  BY <1>2, <1>4, <1>5 DEF WireSpaced, Spaced

\* Time passes on the wire, when no packet is due.
LEMMA WireTicks ==
    ASSUME WireSpaced, Tick
    PROVE  WireSpaced' /\ Len(wire') = Len(wire) /\ Len(wire) \in Nat
           /\ txLeft' = 0 /\ txLeft \in 0 .. 1
<1> USE Levels
<1>1. /\ wire' = [i \in DOMAIN wire |-> wire[i] - 1]
      /\ txLeft' = IF txLeft > 0 THEN txLeft - 1 ELSE 0
      /\ wire # <<>> => Head(wire) # 0
  BY DEF Tick, Due
<1>2. /\ Len(wire) \in Nat /\ DOMAIN wire = 1 .. Len(wire)
      /\ \A i \in 1 .. Len(wire) : wire[i] \in 0 .. (1 + Delay)
  BY LenProperties, ElementOfSeq DEF WireSpaced, Spaced
<1>3. txLeft' = 0 /\ txLeft \in 0 .. 1
  BY <1>1 DEF WireSpaced, Spaced
<1>4. \A i \in 1 .. Len(wire) : wire[i] >= 1
  <2> SUFFICES ASSUME NEW i \in 1 .. Len(wire) PROVE wire[i] >= 1
    OBVIOUS
  <2>1. 1 \in 1 .. Len(wire)
    BY <1>2
  <2>2. wire # <<>>
    BY <2>1, EmptySeq
  <2>3. wire[1] >= 1
    BY <1>1, <1>2, <2>1, <2>2, TailIs DEF WireSpaced, Spaced
  <2>4. CASE i = 1
    BY <2>3, <2>4
  <2>5. CASE i # 1
    <3>1. wire[i] - wire[1] >= i - 1
      BY <2>1, <2>5, <1>2 DEF WireSpaced, Spaced
    <3> QED
      BY <1>2, <2>1, <2>3, <3>1
  <2> QED
    BY <2>4, <2>5
<1>5. \A i \in 1 .. Len(wire) : wire'[i] = wire[i] - 1 /\ wire'[i] \in 0 .. Delay
  BY <1>1, <1>2, <1>4
<1>6. wire' \in [1 .. Len(wire) -> 0 .. (1 + Delay)]
  BY <1>1, <1>2, <1>5
<1>7. wire' \in Seq(0 .. (1 + Delay))
  BY <1>2, <1>6, SeqDef
<1>8. Len(wire') = Len(wire)
  BY <1>2, <1>6, <1>7, LenProperties
<1>9. \A i, j \in 1 .. Len(wire') : i < j => wire'[j] - wire'[i] >= j - i
  BY <1>2, <1>5, <1>8 DEF WireSpaced, Spaced
<1> QED
  BY <1>2, <1>3, <1>5, <1>7, <1>8, <1>9 DEF WireSpaced, Spaced

Signal == [pause : BOOLEAN, due : 0 .. (MaxWait + Delay)]

\* The switch sends a frame, behind the others.
LEMMA FrameAdded ==
    ASSUME FramesInOrder, off' \in BOOLEAN, SendPfc
    PROVE  /\ FramesInOrder'
           /\ off' # off => frames' # <<>> /\ Last(frames').due \in 0 .. (MaxWait + Delay) /\ ~misled'
           /\ off' = off => frames' = frames /\ misled' = misled
<1> USE Levels
<1>1. CASE off' = off
  BY <1>1 DEF FramesInOrder, SendPfc
<1>2. CASE off' # off
  <2>1. PICK wait \in 0 .. MaxWait :
            /\ frames # <<>> => Last(frames).due <= Delay + wait
            /\ frames' = Append(frames, [pause |-> off', due |-> Delay + wait])
            /\ misled' = FALSE
    BY <1>2 DEF SendPfc
  <2> DEFINE e == [pause |-> off', due |-> Delay + wait]
  <2>2. e \in Signal /\ e.due = Delay + wait /\ e.due \in 0 .. (MaxWait + Delay)
    BY DEF Signal
  <2>3. frames' = Append(frames, e)
    BY <2>1
  <2> HIDE DEF e
  <2>4. frames \in Seq(Signal)
    BY DEF FramesInOrder, Signal
  <2>5. /\ frames' \in Seq(Signal) /\ Len(frames) \in Nat
        /\ Len(frames') = Len(frames) + 1
        /\ \A i \in 1 .. Len(frames) : frames'[i] = frames[i]
        /\ frames'[Len(frames) + 1] = e
    BY <2>2, <2>3, <2>4, AppendIs
  <2>6. frames' # <<>> /\ Last(frames') = e
    BY <2>2, <2>3, <2>4, NewLast
  <2>7. \A i \in 1 .. Len(frames) : frames[i].due \in 0 .. (MaxWait + Delay)
    <3>1. \A i \in 1 .. Len(frames) : frames[i] \in Signal
      BY <2>4, ElementOfSeq
    <3> QED
      BY <3>1 DEF Signal
  <2>8. \A i \in 1 .. Len(frames) : frames[i].due <= e.due
    <3> SUFFICES ASSUME NEW i \in 1 .. Len(frames) PROVE frames[i].due <= e.due
      OBVIOUS
    <3>1. frames # <<>> /\ Len(frames) \in 1 .. Len(frames)
      BY <2>5, EmptySeq
    <3>2. frames[Len(frames)].due <= e.due
      BY <2>1, <2>2, <3>1 DEF Last
    <3>3. frames[i].due <= frames[Len(frames)].due
      <4>1. CASE i = Len(frames)
        BY <2>7, <3>1, <4>1
      <4>2. CASE i # Len(frames)
        <5>1. i < Len(frames)
          BY <2>5, <4>2
        <5> QED
          BY <3>1, <5>1 DEF FramesInOrder
      <4> QED
        BY <4>1, <4>2
    <3>4. frames[i].due \in Int /\ frames[Len(frames)].due \in Int /\ e.due \in Int
      BY <2>2, <2>7, <3>1
    <3> QED
      BY <3>2, <3>3, <3>4
  <2>9. \A i, j \in 1 .. Len(frames') : i < j => frames'[i].due <= frames'[j].due
    <3> SUFFICES ASSUME NEW i \in 1 .. Len(frames'), NEW j \in 1 .. Len(frames'), i < j
                 PROVE  frames'[i].due <= frames'[j].due
      OBVIOUS
    <3>1. i \in 1 .. Len(frames) /\ (j \in 1 .. Len(frames) \/ j = Len(frames) + 1)
      BY <2>5
    <3>2. CASE j \in 1 .. Len(frames)
      BY <2>5, <3>1, <3>2 DEF FramesInOrder
    <3>3. CASE j = Len(frames) + 1
      BY <2>5, <2>8, <3>1, <3>3
    <3> QED
      BY <3>1, <3>2, <3>3
  <2>10. FramesInOrder'
    BY <2>5, <2>9 DEF FramesInOrder, Signal
  <2> QED
    BY <1>2, <2>1, <2>2, <2>6, <2>10
<1> QED
  BY <1>1, <1>2

\* The first frame leaves.
LEMMA FrameTaken ==
    ASSUME FramesInOrder, frames # <<>>, frames' = Tail(frames)
    PROVE  /\ FramesInOrder' /\ Last(frames).due \in 0 .. (MaxWait + Delay)
           /\ frames' # <<>> => Last(frames').due = Last(frames).due
<1>1. frames \in Seq(Signal)
  BY DEF FramesInOrder, Signal
<1>2. /\ Len(frames) \in Nat \ {0}
      /\ frames' \in Seq(Signal) /\ Len(frames') = Len(frames) - 1
      /\ \A i \in 1 .. Len(frames') : frames'[i] = frames[i + 1]
  BY <1>1, TailIs
<1>3. frames' # <<>> => Last(frames') = Last(frames)
  BY <1>1, FirstLeaves
<1>4. \A i, j \in 1 .. Len(frames') : i < j => frames'[i].due <= frames'[j].due
  <2> SUFFICES ASSUME NEW i \in 1 .. Len(frames'), NEW j \in 1 .. Len(frames'), i < j
               PROVE  frames'[i].due <= frames'[j].due
    OBVIOUS
  <2>1. i + 1 \in 1 .. Len(frames) /\ j + 1 \in 1 .. Len(frames) /\ i + 1 < j + 1
    BY <1>2
  <2> QED
    BY <1>2, <2>1 DEF FramesInOrder
<1>5. Last(frames).due \in 0 .. (MaxWait + Delay)
  <2>1. Len(frames) \in 1 .. Len(frames)
    BY <1>2
  <2>2. Last(frames) \in Signal
    BY <1>1, <2>1, ElementOfSeq DEF Last
  <2> QED
    BY <2>2 DEF Signal
<1> QED
  BY <1>2, <1>3, <1>4, <1>5 DEF FramesInOrder, Signal

\* Time passes for the frames, when none is due.
LEMMA FramesTick ==
    ASSUME FramesInOrder, Tick
    PROVE  /\ FramesInOrder'
           /\ frames' = <<>> <=> frames = <<>>
           /\ frames # <<>> => /\ Last(frames').due = Last(frames).due - 1
                               /\ Last(frames).due \in Nat
<1> USE Levels
<1>1. /\ frames' = [i \in DOMAIN frames |-> [frames[i] EXCEPT !.due = @ - 1]]
      /\ frames # <<>> => Head(frames).due # 0
  BY DEF Tick, Due
<1>2. /\ frames \in Seq(Signal) /\ Len(frames) \in Nat /\ DOMAIN frames = 1 .. Len(frames)
      /\ \A i \in 1 .. Len(frames) : frames[i] \in Signal
  BY LenProperties, ElementOfSeq DEF FramesInOrder, Signal
<1>3. \A i \in 1 .. Len(frames) : frames[i].due \in 0 .. (MaxWait + Delay)
  BY <1>2 DEF Signal
<1>4. \A i \in 1 .. Len(frames) : frames[i].due >= 1
  <2> SUFFICES ASSUME NEW i \in 1 .. Len(frames) PROVE frames[i].due >= 1
    OBVIOUS
  <2>1. 1 \in 1 .. Len(frames)
    BY <1>2
  <2>2. frames # <<>>
    BY <2>1, EmptySeq
  <2>3. frames[1].due >= 1
    <3>1. Head(frames) = frames[1]
      BY <1>2, <2>2, TailIs
    <3>2. frames[1].due # 0 /\ frames[1].due \in 0 .. (MaxWait + Delay)
      BY <1>1, <1>3, <2>1, <2>2, <3>1
    <3> QED
      BY <3>2
  <2>4. CASE i = 1
    BY <2>3, <2>4
  <2>5. CASE i # 1
    <3>1. frames[1].due <= frames[i].due
      BY <2>1, <2>5, <1>2 DEF FramesInOrder
    <3> QED
      BY <1>3, <2>1, <2>3, <3>1
  <2> QED
    BY <2>4, <2>5
<1>5. \A i \in 1 .. Len(frames) :
          frames'[i] \in Signal /\ frames'[i].due = frames[i].due - 1
  <2> SUFFICES ASSUME NEW i \in 1 .. Len(frames)
               PROVE  frames'[i] \in Signal /\ frames'[i].due = frames[i].due - 1
    OBVIOUS
  <2>1. frames'[i] = [frames[i] EXCEPT !.due = @ - 1] /\ frames[i] \in Signal
    BY <1>1, <1>2
  <2>2. frames[i].due - 1 \in 0 .. (MaxWait + Delay)
    BY <1>3, <1>4
  <2> QED
    BY <2>1, <2>2 DEF Signal
<1>6. frames' \in [1 .. Len(frames) -> Signal]
  BY <1>1, <1>2, <1>5
<1>7. frames' \in Seq(Signal)
  BY <1>2, <1>6, SeqDef
<1>8. Len(frames') = Len(frames)
  BY <1>2, <1>6, <1>7, LenProperties
<1>9. frames' = <<>> <=> frames = <<>>
  BY <1>2, <1>7, <1>8, EmptySeq
<1>10. \A i, j \in 1 .. Len(frames') : i < j => frames'[i].due <= frames'[j].due
  <2> SUFFICES ASSUME NEW i \in 1 .. Len(frames'), NEW j \in 1 .. Len(frames'), i < j
               PROVE  frames'[i].due <= frames'[j].due
    OBVIOUS
  <2>1. frames[i].due <= frames[j].due
    BY <1>8 DEF FramesInOrder
  <2> QED
    BY <1>3, <1>5, <1>8, <2>1
<1>11. ASSUME frames # <<>>
       PROVE  Last(frames').due = Last(frames).due - 1 /\ Last(frames).due \in Nat
  <2>1. Len(frames) \in 1 .. Len(frames)
    BY <1>2, <1>11, EmptySeq
  <2> QED
    BY <1>3, <1>5, <1>8, <2>1 DEF Last
<1> QED
  BY <1>7, <1>9, <1>10, <1>11 DEF FramesInOrder, Signal

\* What may still be sent is never negative.
LEMMA ToSendTyped ==
    ASSUME FramesInOrder, txLeft \in 0 .. 1
    PROVE  ToSend \in Nat
<1>1. CASE frames = <<>>
  BY <1>1 DEF ToSend
<1>2. CASE frames # <<>>
  <2>1. frames \in Seq(Signal) /\ Len(frames) \in Nat \ {0}
    BY <1>2, EmptySeq DEF FramesInOrder, Signal
  <2>2. Last(frames) \in Signal
    BY <2>1, ElementOfSeq DEF Last
  <2>3. Last(frames).due \in 0 .. (MaxWait + Delay)
    BY <2>2 DEF Signal
  <2> QED
    BY <1>2, <2>3, Levels DEF ToSend
<1> QED
  BY <1>1, <1>2

-----------------------------------------------------------------------------
(* Room and the rest of RoomInv, one lemma for each kind of step. *)

\* A packet arrives and is taken: what it adds above XOFF it leaves on the wire.
\* The packet that turns the flag finds nothing above XOFF.
LEMMA ArrivalKeepsRoom ==
    ASSUME RoomInv, LinkInv, PacketArrives, wire' = Tail(wire),
           Q!Arrive(1), SendPfc, UNCHANGED senderVars
    PROVE  RoomInv'
<1> USE Levels
<1>1. /\ bytes \in Nat /\ bytes' = bytes + 1 /\ off \in BOOLEAN /\ off' \in BOOLEAN
      /\ off' <=> off \/ bytes' >= Q!XOFF
      /\ 1 + Q!AboveXoff(bytes) <= headroom
      /\ txLeft \in 0 .. 1 /\ txLeft' = txLeft /\ resumeEvt' = resumeEvt
  <2>1. /\ bytes' = bytes + 1 /\ off' = (off \/ bytes' >= Q!XOFF)
        /\ 1 + Q!AboveXoff(bytes) <= headroom
        /\ txLeft' = txLeft /\ resumeEvt' = resumeEvt
    BY DEF Q!Arrive, senderVars
  <2>2. bytes \in Nat
    BY DEF RoomInv, QueueBounded
  <2>3. txLeft \in 0 .. 1
    BY DEF RoomInv, WireSpaced, Spaced
  <2>4. off \in BOOLEAN
    BY DEF LinkInv, Types
  <2>5. off' \in BOOLEAN /\ (off' <=> off \/ bytes' >= Q!XOFF)
    BY <2>1, <2>4, Zenon
  <2> QED
    BY <2>1, <2>2, <2>3, <2>4, <2>5
<1>2. /\ WireSpaced' /\ Len(wire') = Len(wire) - 1 /\ Len(wire) \in Nat \ {0}
      /\ \A i \in 1 .. Len(wire') : wire'[i] >= 1
  BY <1>1, WireTaken DEF RoomInv, PacketArrives
<1>3. /\ FramesInOrder'
      /\ off' # off => frames' # <<>> /\ Last(frames').due \in 0 .. (MaxWait + Delay) /\ ~misled'
      /\ off' = off => frames' = frames /\ misled' = misled
  BY <1>1, FrameAdded DEF RoomInv
<1>4. /\ Q!AboveXoff(bytes) \in Nat /\ Q!AboveXoff(bytes') \in Nat
      /\ Q!AboveXoff(bytes') <= Q!AboveXoff(bytes) + 1
      /\ bytes <= Q!XOFF + Q!AboveXoff(bytes)
      /\ bytes' < Q!XOFF + 1 => Q!AboveXoff(bytes') = 0
  <2>1. bytes' \in Nat
    BY <1>1
  <2> QED
    BY <1>1, <2>1, AboveSteps
<1>5. QueueBounded'
  <2>1. bytes' \in 0 .. (Q!XOFF + headroom)
    BY <1>1, <1>4
  <2>2. ~off' => bytes' < Q!XOFF
    <3>1. bytes' \in Int /\ Q!XOFF \in Int /\ (~(bytes' >= Q!XOFF) => bytes' < Q!XOFF)
      BY <1>1
    <3> QED
      BY <1>1, <3>1
  <2> QED
    BY <2>1, <2>2 DEF QueueBounded
<1>6. Room'
  <2> SUFFICES ASSUME off', ~misled'
               PROVE  Q!AboveXoff(bytes') + Len(wire') + ToSend' <= RoundTrip
    BY DEF Room
  <2>1. CASE off' # off
    <3>1. ~off /\ bytes < Q!XOFF
      BY <2>1, <1>1 DEF RoomInv, QueueBounded
    <3>2. Q!AboveXoff(bytes') = 0
      BY <1>1, <1>4, <3>1
    <3>3. Len(wire') + 1 - txLeft' <= Delay + 1
      <4>1. Spaced(wire', txLeft')
        BY <1>2 DEF WireSpaced
      <4> QED
        BY <1>2, <4>1, WireHolds
    <3>4. ToSend' = Last(frames').due + 1 - txLeft' /\ Last(frames').due \in 0 .. (MaxWait + Delay)
      BY <1>3, <2>1 DEF ToSend
    <3> QED
      BY <1>1, <1>2, <3>2, <3>3, <3>4
  <2>2. CASE off' = off
    <3>1. Q!AboveXoff(bytes) + Len(wire) + ToSend <= RoundTrip
      <4>1. off /\ ~misled
        <5>1. misled' = misled
          BY <1>3, <2>2
        <5> QED
          BY <2>2, <5>1, Zenon
      <4> QED
        BY <4>1 DEF RoomInv, Room
    <3>2. ToSend' = ToSend
      BY <1>1, <1>3, <2>2 DEF ToSend
    <3>3. ToSend \in Int
      BY <1>1, ToSendTyped DEF RoomInv
    <3> QED
      BY <1>2, <1>4, <3>1, <3>2, <3>3
  <2> QED
    BY <2>1, <2>2
<1> QED
  BY <1>1, <1>2, <1>3, <1>5, <1>6 DEF RoomInv

\* A packet is refused or lost: it only leaves the wire.
LEMMA LossKeepsRoom ==
    ASSUME RoomInv, PacketArrives, wire' = Tail(wire),
           UNCHANGED <<bytes, off, frames, senderVars, misled>>
    PROVE  RoomInv'
<1> USE Levels
<1>1. /\ WireSpaced' /\ Len(wire') = Len(wire) - 1 /\ Len(wire) \in Nat \ {0}
  BY WireTaken DEF RoomInv, PacketArrives, senderVars
<1>2. FramesInOrder' /\ QueueBounded' /\ resumeEvt' <= PauseTime /\ ToSend' = ToSend
  BY DEF RoomInv, FramesInOrder, QueueBounded, ToSend, senderVars
<1>3. Room'
  <2> SUFFICES ASSUME off, ~misled
               PROVE  Q!AboveXoff(bytes) + Len(wire') + ToSend <= RoundTrip
    BY <1>2 DEF Room
  <2>1. Q!AboveXoff(bytes) + Len(wire) + ToSend <= RoundTrip
    BY DEF RoomInv, Room
  <2>2. ToSend \in Nat /\ Q!AboveXoff(bytes) \in Nat
    <3>1. bytes \in Nat /\ txLeft \in 0 .. 1 /\ FramesInOrder
      BY DEF RoomInv, QueueBounded, WireSpaced, Spaced
    <3> QED
      BY <3>1, ToSendTyped, AboveSteps
  <2> QED
    BY <1>1, <2>1, <2>2
<1> QED
  BY <1>1, <1>2, <1>3 DEF RoomInv

\* A packet leaves the switch, and perhaps a RESUME frame with it.
LEMMA DepartureKeepsRoom ==
    ASSUME RoomInv, LinkInv, Forward
    PROVE  RoomInv'
<1> USE Levels
<1>1. /\ bytes \in Nat \ {0} /\ bytes' = bytes - 1 /\ bytes' \in 0 .. (Q!XOFF + headroom)
  BY DEF Forward, Q!Depart, RoomInv, QueueBounded
<1>2. off \in BOOLEAN /\ off' \in BOOLEAN /\ (off' <=> off /\ bytes' > Q!XON)
  <2>1. off' = (off /\ bytes' > Q!XON) /\ off \in BOOLEAN
    BY DEF Forward, Q!Depart, LinkInv, Types
  <2> QED
    BY <2>1, Zenon
<1>3. /\ FramesInOrder'
      /\ off' = off => frames' = frames /\ misled' = misled
  BY <1>2, FrameAdded DEF Forward, RoomInv
<1>4. wire' = wire /\ txLeft' = txLeft /\ resumeEvt' = resumeEvt
  BY DEF Forward, senderVars
<1>5. WireSpaced' /\ resumeEvt' <= PauseTime
  BY <1>4 DEF RoomInv, WireSpaced
<1>6. QueueBounded'
  <2>1. ~off => bytes < Q!XOFF
    BY DEF RoomInv, QueueBounded
  <2>2. bytes < Q!XOFF => bytes' < Q!XOFF
    BY <1>1
  <2>3. ~(bytes' > Q!XON) => bytes' < Q!XOFF
    BY <1>1
  <2>4. ~off' => bytes' < Q!XOFF
    BY <1>2, <2>1, <2>2, <2>3, Zenon
  <2> QED
    BY <1>1, <2>4 DEF QueueBounded
<1>7. Room'
  <2> SUFFICES ASSUME off', ~misled'
               PROVE  Q!AboveXoff(bytes') + Len(wire') + ToSend' <= RoundTrip
    BY DEF Room
  <2>1. off /\ off' = off
    BY <1>2, Zenon
  <2>2. frames' = frames /\ ~misled
    BY <1>3, <2>1
  <2>3. Q!AboveXoff(bytes) + Len(wire) + ToSend <= RoundTrip
    BY <2>1, <2>2 DEF RoomInv, Room
  <2>4. ToSend' = ToSend
    BY <1>4, <2>2 DEF ToSend
  <2>5. /\ Q!AboveXoff(bytes) \in Nat /\ Q!AboveXoff(bytes') \in Nat
        /\ Q!AboveXoff(bytes') <= Q!AboveXoff(bytes)
    <3>1. bytes' \in Nat /\ bytes \in Nat /\ bytes >= 1
      BY <1>1
    <3> QED
      BY <1>1, <3>1, AboveSteps
  <2>6. ToSend \in Nat /\ Len(wire) \in Nat
    <3>1. txLeft \in 0 .. 1 /\ FramesInOrder /\ Spaced(wire, txLeft)
      BY DEF RoomInv, WireSpaced, Spaced
    <3> QED
      BY <3>1, ToSendTyped, WireHolds
  <2> QED
    BY <1>4, <2>3, <2>4, <2>5, <2>6
<1> QED
  BY <1>3, <1>5, <1>6, <1>7 DEF RoomInv

\* The sender starts a packet: it is no longer to be sent but on the wire.  A
\* sender that knows of the pause starts none.
LEMMA SendingKeepsRoom ==
    ASSUME RoomInv, LinkInv, TransmitStart
    PROVE  RoomInv'
<1> USE Levels
<1>1. /\ ~m_paused /\ txLeft = 0 /\ txLeft' = 1
      /\ UNCHANGED <<bytes, off, frames, m_paused, resumeEvt, misled>>
  BY DEF TransmitStart
<1>2. WireSpaced' /\ Len(wire') = Len(wire) + 1 /\ Len(wire) \in Nat
  BY WireGrows DEF RoomInv
<1>3. FramesInOrder' /\ QueueBounded' /\ resumeEvt' <= PauseTime
  BY <1>1 DEF RoomInv, FramesInOrder, QueueBounded
<1>4. Room'
  <2> SUFFICES ASSUME off, ~misled
               PROVE  Q!AboveXoff(bytes) + Len(wire') + ToSend' <= RoundTrip
    BY <1>1 DEF Room
  <2>1. Q!AboveXoff(bytes) + Len(wire) + ToSend <= RoundTrip
    BY DEF RoomInv, Room
  <2>2. frames # <<>>
    BY <1>1 DEF LinkInv, SenderFollowsSwitch
  <2>3. ToSend = Last(frames).due + 1 - 0 /\ ToSend' = Last(frames).due + 1 - 1
    BY <1>1, <2>2 DEF ToSend
  <2>4. Last(frames).due \in Nat
    <3>1. frames \in Seq(Signal) /\ Len(frames) \in Nat \ {0}
      BY <2>2, EmptySeq DEF RoomInv, FramesInOrder, Signal
    <3>2. Last(frames) \in Signal
      BY <3>1, ElementOfSeq DEF Last
    <3> QED
      BY <3>2 DEF Signal
  <2>5. Q!AboveXoff(bytes) \in Nat
    BY AboveSteps DEF RoomInv, QueueBounded
  <2> QED
    BY <1>2, <2>1, <2>3, <2>4, <2>5
<1> QED
  BY <1>2, <1>3, <1>4 DEF RoomInv

\* A frame arrives or is lost: the last one stays the last, or nothing more is
\* sent, or the switch is on its own.
LEMMA FrameKeepsRoom ==
    ASSUME RoomInv, ReceivePfc \/ LosePfc
    PROVE  RoomInv'
<1> USE Levels
<1>1. /\ frames # <<>> /\ frames' = Tail(frames)
      /\ UNCHANGED <<bytes, off, wire, txLeft>>
  BY DEF ReceivePfc, LosePfc, senderVars
<1>2. /\ FramesInOrder' /\ Last(frames).due \in 0 .. (MaxWait + Delay)
      /\ frames' # <<>> => Last(frames').due = Last(frames).due
  BY <1>1, FrameTaken DEF RoomInv
<1>3. WireSpaced' /\ QueueBounded'
  BY <1>1 DEF RoomInv, WireSpaced, QueueBounded
<1>4. resumeEvt' <= PauseTime
  BY DEF ReceivePfc, LosePfc, RoomInv, senderVars
<1>5. Room'
  <2> SUFFICES ASSUME off, ~misled'
               PROVE  Q!AboveXoff(bytes) + Len(wire) + ToSend' <= RoundTrip
    BY <1>1 DEF Room
  <2>1. ~misled
    <3>1. CASE ReceivePfc
      BY <3>1 DEF ReceivePfc
    <3>2. CASE LosePfc
      BY <3>2 DEF LosePfc
    <3> QED
      BY <3>1, <3>2
  <2>2. Q!AboveXoff(bytes) + Len(wire) + ToSend <= RoundTrip
    BY <2>1 DEF RoomInv, Room
  <2>3. ToSend = Last(frames).due + 1 - txLeft
    BY <1>1 DEF ToSend
  <2>4. ToSend' = ToSend \/ ToSend' = 0
    <3>1. CASE frames' = <<>>
      BY <3>1 DEF ToSend
    <3>2. CASE frames' # <<>>
      BY <1>1, <1>2, <2>3, <3>2 DEF ToSend
    <3> QED
      BY <3>1, <3>2
  <2>5. ToSend \in Nat /\ Len(wire) \in Nat
    <3>1. txLeft \in 0 .. 1 /\ FramesInOrder /\ Spaced(wire, txLeft)
      BY DEF RoomInv, WireSpaced, Spaced
    <3> QED
      BY <3>1, ToSendTyped, WireHolds
  <2>6. Q!AboveXoff(bytes) \in Nat
    BY AboveSteps DEF RoomInv, QueueBounded
  <2> QED
    BY <2>2, <2>4, <2>5, <2>6
<1> QED
  BY <1>2, <1>3, <1>4, <1>5 DEF RoomInv

\* The pause runs out: the sender may send again, but then the switch knows of
\* no pause, or is misled, or another frame is on its way.
LEMMA ExpiryKeepsRoom ==
    ASSUME RoomInv, LinkInv, PauseExpires
    PROVE  RoomInv'
<1> USE Levels
<1>1. /\ resumeEvt' = -1 /\ UNCHANGED <<bytes, off, wire, frames, txLeft>>
      /\ misled' = (off /\ frames = <<>>)
  BY DEF PauseExpires
<1>2. WireSpaced' /\ FramesInOrder' /\ QueueBounded' /\ resumeEvt' <= PauseTime
  BY <1>1 DEF RoomInv, WireSpaced, FramesInOrder, QueueBounded
<1>3. Room'
  <2> SUFFICES ASSUME off, ~misled'
               PROVE  Q!AboveXoff(bytes) + Len(wire) + ToSend <= RoundTrip
    BY <1>1 DEF Room, ToSend
  <2>1. frames # <<>>
    BY <1>1
  <2>2. ~misled
    BY <2>1 DEF LinkInv, FramesAreNews
  <2> QED
    BY <2>2 DEF RoomInv, Room
<1> QED
  BY <1>2, <1>3 DEF RoomInv

\* Time passes: a unit less to send in.
LEMMA TickKeepsRoom ==
    ASSUME RoomInv, LinkInv, Tick
    PROVE  RoomInv'
<1> USE Levels
<1>1. /\ WireSpaced' /\ Len(wire') = Len(wire) /\ Len(wire) \in Nat
      /\ txLeft' = 0 /\ txLeft \in 0 .. 1
  BY WireTicks DEF RoomInv
<1>2. /\ FramesInOrder'
      /\ frames' = <<>> <=> frames = <<>>
      /\ frames # <<>> => /\ Last(frames').due = Last(frames).due - 1
                          /\ Last(frames).due \in Nat
  BY FramesTick DEF RoomInv
<1>3. UNCHANGED <<bytes, off, m_paused, misled>>
  BY DEF Tick
<1>4. QueueBounded'
  BY <1>3 DEF RoomInv, QueueBounded
<1>5. resumeEvt' <= PauseTime
  BY DEF Tick, RoomInv, LinkInv, Types
<1>6. Room'
  <2> SUFFICES ASSUME off, ~misled
               PROVE  Q!AboveXoff(bytes) + Len(wire') + ToSend' <= RoundTrip
    BY <1>3 DEF Room
  <2>1. Q!AboveXoff(bytes) + Len(wire) + ToSend <= RoundTrip
    BY DEF RoomInv, Room
  <2>2. Q!AboveXoff(bytes) \in Nat
    BY AboveSteps DEF RoomInv, QueueBounded
  <2>3. ToSend' <= ToSend /\ ToSend' \in Int /\ ToSend \in Int
    <3>1. CASE frames = <<>>
      BY <1>2, <3>1 DEF ToSend
    <3>2. CASE frames # <<>>
      <4>1. ToSend = Last(frames).due + 1 - txLeft /\ ToSend' = Last(frames').due + 1 - txLeft'
        BY <1>2, <3>2 DEF ToSend
      <4> QED
        BY <1>1, <1>2, <3>2, <4>1
    <3> QED
      BY <3>1, <3>2
  <2> QED
    BY <1>1, <2>1, <2>2, <2>3
<1> QED
  BY <1>1, <1>2, <1>4, <1>5, <1>6 DEF RoomInv

\* One step of the link keeps the room.
LEMMA RoomInvInductive == RoomInv /\ LinkInv /\ [Next]_vars => RoomInv'
<1> SUFFICES ASSUME RoomInv, LinkInv, [Next]_vars PROVE RoomInv'
  OBVIOUS
<1>1. CASE TransmitStart
  BY <1>1, SendingKeepsRoom
<1>2. CASE ReceivePacket
  <2>1. PacketArrives /\ wire' = Tail(wire) /\ UNCHANGED senderVars
    BY <1>2 DEF ReceivePacket
  <2>2. CASE Q!Arrive(1) /\ SendPfc
    BY <2>1, <2>2, ArrivalKeepsRoom
  <2>3. CASE UNCHANGED <<bytes, off, frames, misled>>
    BY <2>1, <2>3, LossKeepsRoom
  <2> QED
    BY <1>2, <2>2, <2>3 DEF ReceivePacket
<1>3. CASE LosePacket
  BY <1>3, LossKeepsRoom DEF LosePacket
<1>4. CASE Forward
  BY <1>4, DepartureKeepsRoom
<1>5. CASE ReceivePfc \/ LosePfc
  BY <1>5, FrameKeepsRoom
<1>6. CASE PauseExpires
  BY <1>6, ExpiryKeepsRoom
<1>7. CASE Tick
  BY <1>7, TickKeepsRoom
<1>8. CASE UNCHANGED vars
  BY <1>8 DEF vars, RoomInv, WireSpaced, FramesInOrder, QueueBounded, Room, ToSend
<1> QED
  BY <1>1, <1>2, <1>3, <1>4, <1>5, <1>6, <1>7, <1>8 DEF Next

\* RoomInv holds in every state.
LEMMA RoomInvHolds == Spec => [](RoomInv /\ LinkInv)
<1>1. Init => RoomInv
  <2> SUFFICES ASSUME Init PROVE RoomInv
    OBVIOUS
  <2> USE Levels
  <2>1. /\ off = FALSE /\ bytes = 0 /\ wire = <<>> /\ frames = <<>>
        /\ resumeEvt = -1 /\ txLeft = 0
    BY DEF Init, Q!Init
  <2>2. \A S : <<>> \in Seq(S) /\ Len(<<>>) = 0
    BY EmptySeq
  <2>3. WireSpaced
    BY <2>1, <2>2 DEF WireSpaced, Spaced
  <2>4. FramesInOrder
    BY <2>1, <2>2 DEF FramesInOrder
  <2>5. QueueBounded
    BY <2>1 DEF QueueBounded
  <2>6. Room
    BY <2>1 DEF Room
  <2> QED
    BY <2>1, <2>3, <2>4, <2>5, <2>6 DEF RoomInv
<1> QED
  BY <1>1, RoomInvInductive, LinkInvHolds, PTL DEF Spec

\* For every delay, threshold and pause time, the link's state keeps its type:
\* the queue stays within its headroom, packets on the wire keep their distance
\* and no frame is late (qbb-net-device.cc, switch-mmu.cc).
THEOREM LinkTypeCorrect == Spec => []TypeOK
<1>1. RoomInv /\ LinkInv => TypeOK
  <2> SUFFICES ASSUME RoomInv, LinkInv PROVE TypeOK
    OBVIOUS
  <2>1. /\ bytes \in 0 .. (Q!XOFF + headroom)
        /\ frames \in Seq([pause : BOOLEAN, due : 0 .. (MaxWait + Delay)])
        /\ wire \in Seq(0 .. (1 + Delay)) /\ txLeft \in 0 .. 1
    BY DEF RoomInv, QueueBounded, FramesInOrder, WireSpaced, Spaced
  <2>2. off \in BOOLEAN /\ m_paused \in BOOLEAN /\ misled \in BOOLEAN
    BY DEF LinkInv, Types
  <2>3. resumeEvt \in -1 .. PauseTime
    BY Levels DEF RoomInv, LinkInv, Types
  <2>4. \A i \in 2 .. Len(wire) : wire[i - 1] < wire[i]
    <3> SUFFICES ASSUME NEW i \in 2 .. Len(wire) PROVE wire[i - 1] < wire[i]
      OBVIOUS
    <3>1. Len(wire) \in Nat /\ \A k \in 1 .. Len(wire) : wire[k] \in 0 .. (1 + Delay)
      BY <2>1, LenProperties, ElementOfSeq
    <3>2. i - 1 \in 1 .. Len(wire) /\ i \in 1 .. Len(wire) /\ i - 1 < i
      BY <3>1
    <3>3. wire[i] - wire[i - 1] >= i - (i - 1)
      BY <3>2 DEF RoomInv, WireSpaced, Spaced
    <3>4. wire[i] \in Int /\ wire[i - 1] \in Int
      BY <3>1, <3>2, Levels
    <3> QED
      BY <3>3, <3>4
  <2> QED
    BY <2>1, <2>2, <2>3, <2>4 DEF TypeOK
<1> QED
  BY <1>1, RoomInvHolds, PTL

\* For every delay, rate, threshold and pause time, and however long PFC frames
\* wait in queue 0, a PAUSE frame takes effect in time: what the queue takes
\* above XOFF is at most what one round trip brings, except in an excursion
\* whose PAUSE frame was lost or whose pause ran out, whatever happened in the
\* excursions before (CheckAndSendPfc, SendPfc, Receive).
THEOREM PauseTakesEffectInTime == Spec => []PausedInTime
<1>1. RoomInv /\ LinkInv => PausedInTime
  <2> SUFFICES ASSUME RoomInv, PacketArrives, ~misled
               PROVE  1 + Q!AboveXoff(bytes) <= RoundTrip
    BY DEF PausedInTime
  <2> USE Levels
  <2>1. bytes \in Nat /\ Q!AboveXoff(bytes) \in Nat
    BY AboveSteps DEF RoomInv, QueueBounded
  <2>2. Len(wire) \in Nat \ {0}
    BY TailIs DEF RoomInv, WireSpaced, Spaced, PacketArrives
  <2>3. CASE ~off
    <3>1. bytes < Q!XOFF
      BY <2>3 DEF RoomInv, QueueBounded
    <3>2. Q!AboveXoff(bytes) = 0
      BY <2>1, <3>1, AboveSteps
    <3> QED
      BY <3>2
  <2>4. CASE off
    <3>1. Q!AboveXoff(bytes) + Len(wire) + ToSend <= RoundTrip
      BY <2>4 DEF RoomInv, Room
    <3>2. ToSend \in Nat
      BY ToSendTyped DEF RoomInv, WireSpaced, Spaced
    <3> QED
      BY <2>1, <2>2, <3>1, <3>2
  <2> QED
    BY <2>3, <2>4
<1> QED
  BY <1>1, RoomInvHolds, PTL

\* For every delay, rate, threshold and pause time: a packet is refused only in
\* an excursion whose PAUSE frame was lost or whose pause ran out, or if the
\* headroom of config_switch_mmu is less than a round trip, as it may be where
\* the link is faster than host 0's NIC or where frames wait longer in queue 0.
THEOREM HeadroomIsEnough ==
    /\ Spec => []NoRefusalUnlessMisled
    /\ NicRate >= LinkRate /\ MaxWait <= 1 => RoundTrip <= headroom
<1>1. Full /\ headroom >= RoundTrip => ~(1 + Q!AboveXoff(bytes) <= RoundTrip) \/ bytes \notin Nat
  BY Levels, AboveSteps DEF Full
<1>2. bytes \in Nat /\ PausedInTime => NoRefusalUnlessMisled
  BY <1>1, Levels DEF PausedInTime, NoRefusalUnlessMisled
<1>3. TypeOK => bytes \in Nat
  BY Levels DEF TypeOK
<1>4. Spec => []NoRefusalUnlessMisled
  BY <1>2, <1>3, LinkTypeCorrect, PauseTakesEffectInTime, PTL
<1> QED
  BY <1>4, HeadroomIsFor
=============================================================================
