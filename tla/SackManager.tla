----------------------------- MODULE SackManager ----------------------------
(***************************************************************************)
(* IrnSackManager (point-to-point/model/rdma-queue-pair.cc): the bytes     *)
(* acknowledged out of order, as a list of blocks, and what the sender of  *)
(* mode LAPS/NACK does with it when an answer arrives.                     *)
(*                                                                         *)
(* A block <<b, e>> is the half-open interval the code keeps as the pair   *)
(* (b, e - b).  The code walks the list with an iterator and changes it in *)
(* place; here a recursive function over the blocks builds the new list.   *)
(***************************************************************************)
EXTENDS Integers, Sequences

CONSTANT m_size     \* bytes of the flow

ASSUME SackAssumption == m_size \in Nat \ {0}

VARIABLES
    snd_una,    \* everything below is acknowledged
    m_data,     \* the blocks above it
    answer      \* the block <<nackSeq, nackEnd>> that was answered last

vars == <<snd_una, m_data, answer>>
-----------------------------------------------------------------------------
(***************************************************************************)
(* sack() walks the list with a record w: the blocks passed so far, and    *)
(* what is left to insert, w.seq .. w.end - 1 (nothing: sz = 0 or return). *)
(***************************************************************************)
Left(w) == w.seq < w.end

\* Pass the blocks bs; what is left to insert now begins at s.
Pass(w, bs, s) == [list |-> w.list \o bs, seq |-> s, end |-> w.end]

\* Mutant: a block inside what is inserted hides what comes before it.
WalkNoFront(w, b) ==
    IF Left(w) /\ b[2] >= w.seq /\ w.end > b[1]
    THEN Pass(w, <<b>>, b[2])
    ELSE IF Left(w) /\ w.end <= b[1] THEN Pass(w, <<<<w.seq, w.end>>, b>>, w.end)
    ELSE Pass(w, <<b>>, w.seq)

Walk(w, b) ==
    CASE ~Left(w) -> Pass(w, <<b>>, w.seq)
      \* contained in b
      [] Left(w) /\ b[1] <= w.seq /\ w.end <= b[2] -> Pass(w, <<b>>, w.end)
      \* contains b
      [] Left(w) /\ w.seq < b[1] /\ b[2] < w.end ->
            Pass(w, <<<<w.seq, b[1]>>, b>>, b[2])
      \* before b
      [] Left(w) /\ w.end <= b[1] -> Pass(w, <<<<w.seq, w.end>>, b>>, w.end)
      \* overlaps the end of b
      [] Left(w) /\ b[1] <= w.seq /\ w.seq <= b[2] /\ b[2] < w.end ->
            Pass(w, <<b>>, b[2])
      \* overlaps the beginning of b
      [] Left(w) /\ w.seq < b[1] /\ b[1] < w.end /\ w.end <= b[2] ->
            Pass(w, <<<<w.seq, b[1]>>, b>>, w.end)
      \* after b
      [] Left(w) /\ b[2] < w.seq -> Pass(w, <<b>>, w.seq)

\* Mutant: neighbours stay apart.
MergeNever(bs, b) == Append(bs, b)

\* The sanity check at the end of sack(): neighbours become one block.
Merge(bs, b) ==
    IF bs # <<>> /\ bs[Len(bs)][2] = b[1]
    THEN [bs EXCEPT ![Len(bs)] = <<@[1], b[2]>>]
    ELSE Append(bs, b)

\* The walk after each number of blocks, and the list the check has gone over.
Walked(seq, end, blocks) ==
    LET walk[i \in 0 .. Len(blocks)] ==
            IF i = 0 THEN [list |-> <<>>, seq |-> seq, end |-> end]
            ELSE Walk(walk[i - 1], blocks[i])
    IN  walk

Merged(blocks) ==
    LET merged[i \in 0 .. Len(blocks)] ==
            IF i = 0 THEN <<>> ELSE Merge(merged[i - 1], blocks[i])
    IN  merged

\* What is left after the last block is appended.
Inserted(seq, end, blocks) ==
    LET w == Walked(seq, end, blocks)[Len(blocks)]
    IN  IF Left(w) THEN Append(w.list, <<w.seq, w.end>>) ELSE w.list

sack(seq, end, blocks) ==
    LET inserted == Inserted(seq, end, blocks)
    IN  Merged(inserted)[Len(inserted)]

\* The first block that ends above cumAck.
FirstKept(cumAck, blocks) ==
    CHOOSE i \in 1 .. (Len(blocks) + 1) :
        /\ \A j \in 1 .. (i - 1) : blocks[j][2] <= cumAck
        /\ i <= Len(blocks) => blocks[i][2] > cumAck

\* Whole blocks go, then a part of the first one that stays.
discardUpTo(cumAck, blocks) ==
    LET first == FirstKept(cumAck, blocks)
    IN  [k \in 1 .. (Len(blocks) + 1 - first) |->
            LET b == blocks[first + k - 1]
            IN  IF k = 1 /\ b[1] < cumAck THEN <<cumAck, b[2]>> ELSE b]

checkFirstNackedBlock(una, blocks) ==
    IF blocks # <<>> /\ Head(blocks)[1] = una THEN Head(blocks)[2] ELSE una
-----------------------------------------------------------------------------
Init == snd_una = 0 /\ m_data = <<>> /\ answer = <<0, 0>>

\* AcknowledgeForLaps: NS_ASSERT nackSeq >= snd_una.
AcknowledgeForLaps(nackSeq, nackEnd) ==
    LET sacked == sack(nackSeq, nackEnd, m_data) IN
    /\ nackSeq >= snd_una
    /\ snd_una' = checkFirstNackedBlock(snd_una, sacked)
    /\ m_data' = discardUpTo(snd_una', sacked)
    /\ answer' = <<nackSeq, nackEnd>>

\* The flow is complete: QpComplete.
Finished == snd_una >= m_size /\ UNCHANGED vars

Next ==
    \/ \E seq \in 0 .. (m_size - 1) :
          \E end \in (seq + 1) .. m_size : AcknowledgeForLaps(seq, end)
    \/ Finished

Spec == Init /\ [][Next]_vars
-----------------------------------------------------------------------------
Bytes(b) == b[1] .. (b[2] - 1)
Cover(blocks) == UNION {Bytes(blocks[i]) : i \in DOMAIN blocks}
Covered == Cover(m_data)

(***************************************************************************)
(* The list is in its normal form after every call: blocks are not empty,  *)
(* in order, above snd_una, and a gap separates each from the next, so the *)
(* front block is all that snd_una can advance over, and the sum of the    *)
(* lengths, which the window formula subtracts, counts no byte twice.      *)
(* (The NS_ASSERTs of the loop that merges in sack() follow.)              *)
(***************************************************************************)
Normal ==
    /\ \A i \in DOMAIN m_data : m_data[i][1] < m_data[i][2]
    /\ \A i, j \in DOMAIN m_data : i < j => m_data[i][2] < m_data[j][1]
    /\ m_data # <<>> => snd_una < Head(m_data)[1]

(***************************************************************************)
(* For every order in which blocks are acknowledged, and however they      *)
(* overlap, the list is the set it stands for: snd_una is the first byte   *)
(* not acknowledged.  LapsTransport and its sets rest on this.             *)
(***************************************************************************)
Set == INSTANCE AckSet WITH una <- snd_una, sacked <- Covered
ImplementsAckSet == Set!Spec
=============================================================================
