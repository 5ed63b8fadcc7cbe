-------------------------- MODULE ConWeave_proofs ---------------------------
(* Safety of ConWeave for any number of paths and packets, with losses of   *)
(* packets and replies and with deadlines that fall at any time. What holds *)
(* of a disturbed flow is in Basic; IInv is what holds of one that is not,  *)
(* and comes back from Basic when the flow begins anew.                     *)
EXTENDS ConWeave, TLAPS

-----------------------------------------------------------------------------
(* The inductive invariant *)

Increasing(s) == \A i, j \in 1..Len(s) : i < j => s[i] < s[j]
InSendingOrder(s) == \A i, j \in 1..Len(s) : i < j => s[i].id < s[j].id

\* The fields of the two entries keep their ranges.
Ranges ==
    /\ tx \in [known : BOOLEAN, epoch : 0..MaxPackets, phase : {0, 1},
               path : Path \cup {NoPath}, timer : {"none", "running", "out"},
               stabilized : BOOLEAN, tail : 0..MaxPackets]
    /\ rx \in [known : BOOLEAN, epoch : 1..MaxPackets, phase : {0, 1}, cache : BOOLEAN,
               phase0Tx : 0..MaxPackets, reordering : BOOLEAN, flushing : BOOLEAN]
    /\ voq \in Seq(1..MaxPackets) /\ out \in Seq(1..MaxPackets)
    /\ net \in [Path -> Seq(Packet)]
    /\ replies \in Seq(Reply)
    /\ sent \in 0..MaxPackets /\ lost \subseteq 1..sent

\* A known sender's entry has a path and an epoch; the receiver's says reordering
\* exactly while it holds packets back.
EntriesOK ==
    /\ ~tx.known => tx = conweaveTxState
    /\ tx.known => tx.path \in Path /\ tx.epoch >= 1 /\ tx.epoch <= sent
    /\ tx.phase = 0 => tx.tail = 0
    /\ tx.phase = 1 => tx.tail \in 1..sent /\ tx.timer = "none"
    /\ ~rx.known => rx = conweaveRxState
    /\ rx.phase0Tx <= sent
    /\ rx.reordering <=> voq # << >>
    /\ rx.flushing => rx.reordering

\* Only a TAIL and what follows it carry the time of a TAIL.
Shape(pk) ==
    /\ pk.id <= sent
    /\ pk.tail = 0 <=> pk.phase = 0 /\ pk.flag # "TAIL"
    /\ pk.tail <= pk.id

\* What was sent is in flight, held back, with the host or lost, in one place and
\* there once, but for the host, of which this says that it takes nothing twice.
PlacesOK ==
    /\ \A p \in Path : InSendingOrder(net[p])
    /\ \A p, q \in Path : \A pk \in OnPath(p), qk \in OnPath(q) : pk.id = qk.id => p = q
    /\ \A pk \in InFlight :
          pk.id \notin lost /\ pk.id \notin ToSet(out) /\ pk.id \notin ToSet(voq)
    /\ \A i \in ToSet(voq) : i <= sent /\ i \notin lost /\ i \notin ToSet(out)
    /\ \A i, j \in 1..Len(voq) : voq[i] = voq[j] => i = j
    /\ \A i \in ToSet(out) : i <= sent
    /\ \A i \in 1..sent : i \in Ids(InFlight) \cup ToSet(voq) \cup ToSet(out) \cup lost

\* What holds whenever the deadlines fall.
Basic ==
    /\ Ranges
    /\ disturbed \in BOOLEAN
    /\ EntriesOK
    /\ \A pk \in InFlight : Shape(pk)
    /\ PlacesOK

\* Everything sent up to the last TAIL has arrived or is lost.
NoOldInFlight == \A pk \in InFlight : tx.tail < pk.id

TxOK ==
    /\ ~tx.known => /\ tx = conweaveTxState
                    /\ InFlight = {} /\ replies = << >> /\ voq = << >>
                    /\ ~rx.known
    /\ tx.known => tx.path \in Path /\ tx.epoch >= 1 /\ tx.epoch <= sent
    /\ tx.phase = 0 => tx.tail = 0
    /\ tx.phase = 1 => tx.tail \in 1..sent /\ tx.timer = "none"

\* The receiver follows the sender: it is in phase 1 of the sender's epoch only
\* if the old path is empty, and a flow that is believed stable is one both
\* ends agree about.
RxOK ==
    /\ ~rx.known => rx = conweaveRxState
    /\ tx.known => rx.epoch <= tx.epoch
    /\ tx.known /\ rx.epoch = tx.epoch /\ rx.phase = 1 => tx.phase = 1 /\ NoOldInFlight
    /\ tx.known /\ tx.stabilized =>
          InFlight = {} \/ (rx.epoch = tx.epoch /\ rx.phase = tx.phase)
    /\ rx.phase0Tx <= sent

\* The receiver has left phase 0 of the epoch of pk.
Settled(pk) == rx.epoch > pk.epoch \/ (rx.epoch = pk.epoch /\ rx.phase = 1)

\* What a packet says of its time agrees with the sender's entry, if it is of
\* the sender's epoch; if it is of an earlier one and was rerouted, it cannot
\* be held back any more.
PacketOK(pk) ==
    /\ pk.id <= sent /\ pk.epoch <= tx.epoch /\ pk.id \notin lost
    /\ pk.flag = "TAIL" => pk.tail = pk.id /\ pk.phase = 0
    /\ pk.flag # "TAIL" => pk.tail < pk.id
    /\ pk.tail = 0 <=> pk.phase = 0 /\ pk.flag # "TAIL"
    /\ pk.phase = 1 => pk.flag = "DATA"
    /\ pk.epoch = tx.epoch /\ pk.tail # 0 => tx.phase = 1 /\ pk.tail = tx.tail
    /\ tx.phase = 1 => (tx.tail < pk.id <=> pk.epoch = tx.epoch /\ pk.phase = 1)
    /\ pk.phase = 1 /\ pk.epoch < tx.epoch => Settled(pk)

PacketsOK == \A pk \in InFlight : PacketOK(pk)

\* The time of the last packet of phase 0 is never after that of the TAIL.
CacheOK ==
    /\ \A pk \in InFlight :
          pk.phase = 1 /\ pk.epoch = rx.epoch /\ rx.cache => rx.phase0Tx <= pk.tail
    /\ \A pk, qk \in InFlight :
          pk.epoch = qk.epoch /\ pk.phase = 1 /\ qk.phase = 0 => qk.id <= pk.tail
    /\ tx.known /\ rx.epoch = tx.epoch /\ tx.phase = 1 /\ rx.cache => rx.phase0Tx <= tx.tail

\* What follows the TAIL is on the path in use, the rest on one path.
PathsOK ==
    /\ \A p \in Path : InSendingOrder(net[p])
    /\ \A p \in Path : \A pk \in OnPath(p) : tx.tail < pk.id => p = tx.path
    /\ \A p, q \in Path : \A pk \in OnPath(p), qk \in OnPath(q) :
          pk.id <= tx.tail /\ qk.id <= tx.tail => p = q

\* What is held back followed the TAIL and precedes what else did.
VoqOK ==
    /\ rx.reordering <=> voq # << >>
    /\ rx.flushing => rx.reordering /\ NoOldInFlight
    /\ voq # << >> => /\ tx.known /\ rx.known /\ rx.epoch = tx.epoch
                      /\ tx.phase = 1 /\ ~tx.stabilized /\ rx.phase = 0
    /\ Increasing(voq)
    /\ \A i \in ToSet(voq) :
          /\ tx.tail < i /\ i <= sent /\ i \notin lost
          /\ \A pk \in InFlight : tx.tail < pk.id => i < pk.id

\* What the host has got was sent before all that is still to come.
OutOK ==
    \A i \in ToSet(out) :
        /\ i <= sent
        /\ \A pk \in InFlight : i < pk.id
        /\ \A j \in ToSet(voq) : i < j

\* A reply of the sender's epoch comes from a receiver in that epoch; one to the
\* TAIL from a receiver that has seen the old path empty.
ReplyOK(r) ==
    /\ r.epoch <= tx.epoch
    /\ r.epoch = tx.epoch =>
        /\ rx.epoch = tx.epoch
        /\ r.flag = "TAIL" => /\ tx.phase = 1 /\ NoOldInFlight
                              /\ rx.flushing \/ rx.phase = 1
RepliesOK == \A r \in ToSet(replies) : ReplyOK(r)

\* What holds besides while the flow is not disturbed.
IInv ==
    Ranges /\ TxOK /\ RxOK /\ PacketsOK /\ CacheOK /\ PathsOK /\ VoqOK /\ OutOK /\ RepliesOK

\* The invariant of every reachable state.
Inv == Basic /\ (disturbed \/ IInv)

-----------------------------------------------------------------------------
(* Sequences *)

\* A member of a sequence is of its type, and has an index.
LEMMA ToSetMember ==
    ASSUME NEW S, NEW s \in Seq(S), NEW x \in ToSet(s)
    PROVE  x \in S
BY DEF ToSet

LEMMA ToSetIndices ==
    ASSUME NEW S, NEW s \in Seq(S)
    PROVE  ToSet(s) = {s[i] : i \in 1..Len(s)} /\ Len(s) \in Nat
BY DEF ToSet

\* The elements of a sequence after Append, Tail and concatenation.
LEMMA ToSetAppend ==
    ASSUME NEW S, NEW s \in Seq(S), NEW x
    PROVE  ToSet(Append(s, x)) = ToSet(s) \cup {x}
BY DEF ToSet

LEMMA ToSetTail ==
    ASSUME NEW S, NEW s \in Seq(S), s # << >>
    PROVE  /\ Tail(s) \in Seq(S) /\ Head(s) \in S /\ Head(s) \in ToSet(s)
           /\ ToSet(Tail(s)) \subseteq ToSet(s)
           /\ Len(s) \in Nat \ {0} /\ Head(s) = s[1]
           /\ ToSet(Tail(s)) = {s[i] : i \in 2..Len(s)}
<1>1. /\ Len(s) \in Nat \ {0} /\ Head(s) = s[1] /\ Tail(s) \in Seq(S)
      /\ Head(s) \in S /\ Len(Tail(s)) = Len(s) - 1
      /\ \A i \in 1..Len(Tail(s)) : Tail(s)[i] = s[i + 1]
    OBVIOUS
<1>2. ToSet(Tail(s)) = {s[i] : i \in 2..Len(s)}
    <2>1. \A i \in 2..Len(s) : i - 1 \in 1..Len(Tail(s)) /\ Tail(s)[i - 1] = s[i]
        BY <1>1
    <2>2. \A i \in 1..Len(Tail(s)) : i + 1 \in 2..Len(s)
        BY <1>1
    <2>3. ToSet(Tail(s)) = {Tail(s)[i] : i \in 1..Len(Tail(s))}
        BY <1>1, ToSetIndices
    <2>4. \A i \in 1..Len(Tail(s)) : Tail(s)[i] \in {s[j] : j \in 2..Len(s)}
        BY <1>1, <2>2
    <2>5. \A i \in 2..Len(s) : s[i] \in ToSet(Tail(s))
        BY <2>1, <2>3
    <2> QED
        BY <2>3, <2>4, <2>5
<1> QED
    BY <1>1, <1>2 DEF ToSet

LEMMA ToSetConcat ==
    ASSUME NEW S, NEW s \in Seq(S), NEW t \in Seq(S)
    PROVE  s \o t \in Seq(S) /\ ToSet(s \o t) = ToSet(s) \cup ToSet(t)
<1>1. /\ s \o t \in Seq(S) /\ Len(s \o t) = Len(s) + Len(t) /\ Len(s) \in Nat /\ Len(t) \in Nat
      /\ \A i \in 1..Len(s) : (s \o t)[i] = s[i]
      /\ \A i \in 1..Len(t) : (s \o t)[i + Len(s)] = t[i]
    OBVIOUS
<1>2. \A i \in 1..Len(s \o t) : i \in 1..Len(s) \/ (i - Len(s) \in 1..Len(t)
                                  /\ (s \o t)[i] = t[i - Len(s)])
    BY <1>1
<1>3. \A i \in 1..Len(t) : i + Len(s) \in 1..Len(s \o t)
    BY <1>1
<1>4. \A i \in 1..Len(s) : i \in 1..Len(s \o t)
    BY <1>1
<1>5. /\ ToSet(s) = {s[i] : i \in 1..Len(s)} /\ ToSet(t) = {t[i] : i \in 1..Len(t)}
      /\ ToSet(s \o t) = {(s \o t)[i] : i \in 1..Len(s \o t)}
    BY <1>1, ToSetIndices
<1>6. ToSet(s \o t) \subseteq ToSet(s) \cup ToSet(t)
    BY <1>1, <1>2, <1>5
<1>7. ToSet(s) \subseteq ToSet(s \o t)
    BY <1>1, <1>4, <1>5
<1>8. ToSet(t) \subseteq ToSet(s \o t)
    BY <1>1, <1>3, <1>5
<1> QED
    BY <1>1, <1>6, <1>7, <1>8

-----------------------------------------------------------------------------
(* The paths *)

\* A packet enters a path: it is in flight with what was before, and last.
LEMMA NetAppend ==
    ASSUME net \in [Path -> Seq(Packet)], NEW p \in Path, NEW pk \in Packet,
           net' = [net EXCEPT ![p] = Append(@, pk)],
           \A q \in Path : InSendingOrder(net[q]),
           \A qk \in OnPath(p) : qk.id < pk.id
    PROVE  /\ net' \in [Path -> Seq(Packet)]
           /\ OnPath(p)' = OnPath(p) \cup {pk}
           /\ \A q \in Path \ {p} : OnPath(q)' = OnPath(q)
           /\ InFlight' = InFlight \cup {pk}
           /\ \A q \in Path : InSendingOrder(net'[q])
<1>1. net' \in [Path -> Seq(Packet)] /\ net'[p] = Append(net[p], pk)
      /\ \A q \in Path \ {p} : net'[q] = net[q]
    OBVIOUS
<1>2. OnPath(p)' = OnPath(p) \cup {pk}
    BY <1>1, ToSetAppend DEF OnPath
<1>3. \A q \in Path \ {p} : OnPath(q)' = OnPath(q)
    BY <1>1 DEF OnPath
<1>4. InFlight' = InFlight \cup {pk}
    BY <1>2, <1>3 DEF InFlight
<1>5. InSendingOrder(net'[p])
    <2> DEFINE s == net[p]
    <2>1. /\ s \in Seq(Packet) /\ Len(s) \in Nat /\ Len(Append(s, pk)) = Len(s) + 1
          /\ \A i \in 1..Len(s) : Append(s, pk)[i] = s[i]
          /\ Append(s, pk)[Len(s) + 1] = pk
        OBVIOUS
    <2>2. \A i \in 1..Len(s) : s[i].id < pk.id
        BY <2>1 DEF OnPath, ToSet
    <2>3. \A i, j \in 1..Len(s) : i < j => s[i].id < s[j].id
        BY DEF InSendingOrder
    <2> HIDE DEF s
    <2>4. ASSUME NEW i \in 1..Len(s) + 1, NEW j \in 1..Len(s) + 1, i < j
          PROVE  i \in 1..Len(s) /\ (j \in 1..Len(s) \/ j = Len(s) + 1)
        <3>1. Len(s) \in Nat
            BY <2>1
        <3> QED
            BY <3>1, <2>4
    <2>5. InSendingOrder(Append(s, pk))
        BY <2>1, <2>2, <2>3, <2>4 DEF InSendingOrder
    <2> QED
        BY <2>5, <1>1 DEF s
<1> QED
    BY <1>1, <1>2, <1>3, <1>4, <1>5

\* The first packet of a path leaves it: what remains there was sent later.
LEMMA NetTail ==
    ASSUME net \in [Path -> Seq(Packet)], NEW p \in Path, net[p] # << >>,
           net' = [net EXCEPT ![p] = Tail(@)],
           \A q \in Path : InSendingOrder(net[q])
    PROVE  /\ net' \in [Path -> Seq(Packet)]
           /\ Head(net[p]) \in Packet /\ Head(net[p]) \in OnPath(p)
           /\ Head(net[p]) \in InFlight
           /\ \A q \in Path : OnPath(q)' \subseteq OnPath(q)
           /\ InFlight = InFlight' \cup {Head(net[p])}
           /\ \A qk \in InFlight' : \E q \in Path : qk \in OnPath(q)
                 /\ (q = p => Head(net[p]).id < qk.id)
           /\ \A q \in Path : InSendingOrder(net'[q])
<1> DEFINE s == net[p]
<1>1. /\ s \in Seq(Packet) /\ s # << >> /\ net' \in [Path -> Seq(Packet)] /\ net'[p] = Tail(s)
      /\ \A q \in Path \ {p} : net'[q] = net[q]
    OBVIOUS
<1>2. \A i, j \in 1..Len(s) : i < j => s[i].id < s[j].id
    BY DEF InSendingOrder
<1> HIDE DEF s
<1>3. /\ Tail(s) \in Seq(Packet) /\ Head(s) \in Packet /\ Head(s) \in ToSet(s)
      /\ ToSet(Tail(s)) \subseteq ToSet(s)
      /\ Len(s) \in Nat \ {0} /\ Head(s) = s[1]
      /\ ToSet(Tail(s)) = {s[i] : i \in 2..Len(s)}
    BY <1>1, ToSetTail
<1>4. \A qk \in ToSet(Tail(s)) : Head(s).id < qk.id
    <2>1. \A i \in 2..Len(s) : s[1].id < s[i].id
        BY <1>2, <1>3
    <2> QED
        BY <1>3, <2>1
<1>5. InSendingOrder(Tail(s))
    <2>1. /\ Len(Tail(s)) = Len(s) - 1
          /\ \A i \in 1..Len(Tail(s)) : Tail(s)[i] = s[i + 1] /\ i + 1 \in 1..Len(s)
        BY <1>1, <1>3
    <2>2. \A i, j \in 1..Len(Tail(s)) : i < j => i + 1 < j + 1
        BY <1>3, <2>1
    <2> QED
        BY <1>2, <2>1, <2>2 DEF InSendingOrder
<1>6. OnPath(p) = ToSet(s) /\ OnPath(p)' = ToSet(Tail(s))
    BY <1>1 DEF OnPath, s
<1>7. \A q \in Path \ {p} : OnPath(q)' = OnPath(q)
    BY <1>1 DEF OnPath
<1>8. \A qk \in InFlight' : \E q \in Path : qk \in OnPath(q)'
    BY DEF InFlight
<1>9. \A q \in Path : OnPath(q)' \subseteq OnPath(q)
    BY <1>3, <1>6, <1>7
<1>10. \A qk \in InFlight' : \E q \in Path : qk \in OnPath(q) /\ (q = p => Head(s).id < qk.id)
    BY <1>4, <1>6, <1>8, <1>9
<1>11. InFlight' \subseteq InFlight /\ Head(s) \in InFlight
    BY <1>3, <1>6, <1>9 DEF InFlight
<1>12. InFlight \subseteq InFlight' \cup {Head(s)}
    <2>1. \A i \in 1..Len(s) : i = 1 \/ i \in 2..Len(s)
        BY <1>3
    <2>2. ToSet(s) = {s[i] : i \in 1..Len(s)}
        BY <1>1, ToSetIndices
    <2>3. ToSet(s) \subseteq ToSet(Tail(s)) \cup {Head(s)}
        BY <1>3, <2>1, <2>2
    <2> QED
        BY <1>6, <1>7, <2>3 DEF InFlight
<1> QED
    BY <1>1, <1>3, <1>5, <1>6, <1>9, <1>10, <1>11, <1>12 DEF s

\* Any packet in flight is on a path.
LEMMA FlightOnPath ==
    ASSUME net \in [Path -> Seq(Packet)]
    PROVE  /\ \A pk \in InFlight : pk \in Packet /\ \E p \in Path : pk \in OnPath(p)
           /\ \A p \in Path : OnPath(p) \subseteq InFlight
BY DEF InFlight, OnPath, ToSet

-----------------------------------------------------------------------------
(* The Tx ToR *)

\* The packet that SendOn sends.
Sending(epoch, phase, flag, tail) ==
    [id |-> sent + 1, epoch |-> epoch, phase |-> phase, flag |-> flag, tail |-> tail]

\* A packet that is sent is in flight, and later than all others.
LEMMA SendOnFlight ==
    ASSUME Ranges, \A q \in Path : InSendingOrder(net[q]), \A pk \in InFlight : pk.id <= sent,
           NEW p \in Path, NEW e \in 1..MaxPackets, NEW ph \in {0, 1},
           NEW f \in {"INIT", "TAIL", "DATA"}, NEW t \in 0..MaxPackets,
           SendOn(p, e, ph, f, t)
    PROVE  /\ Sending(e, ph, f, t) \in Packet
           /\ net' \in [Path -> Seq(Packet)]
           /\ OnPath(p)' = OnPath(p) \cup {Sending(e, ph, f, t)}
           /\ \A q \in Path \ {p} : OnPath(q)' = OnPath(q)
           /\ InFlight' = InFlight \cup {Sending(e, ph, f, t)}
           /\ \A q \in Path : InSendingOrder(net'[q])
           /\ sent + 1 \in 1..MaxPackets /\ sent' = sent + 1 /\ sent \in Nat
           /\ \A pk \in InFlight : pk.id <= sent /\ pk \in Packet
           /\ rx' = rx /\ voq' = voq /\ replies' = replies /\ out' = out /\ lost' = lost
<1> DEFINE pk == Sending(e, ph, f, t)
<1>1. /\ sent + 1 \in 1..MaxPackets /\ sent' = sent + 1 /\ sent \in Nat
      /\ rx' = rx /\ voq' = voq /\ replies' = replies /\ out' = out /\ lost' = lost
      /\ net' = [net EXCEPT ![p] = Append(@, pk)]
    BY ConWeaveAssumption DEF SendOn, Ranges, Sending
<1>2. pk \in Packet /\ pk.id = sent + 1
    BY <1>1 DEF Packet, Sending
<1>3. net \in [Path -> Seq(Packet)] /\ \A q \in Path : InSendingOrder(net[q])
    BY DEF Ranges
<1>4. /\ \A qk \in InFlight : qk.id <= sent /\ qk \in Packet
      /\ OnPath(p) \subseteq InFlight
    BY <1>3, FlightOnPath
<1>5. \A qk \in OnPath(p) : qk.id < pk.id
    BY <1>1, <1>2, <1>4 DEF Packet
<1> HIDE DEF pk
<1>6. /\ net' \in [Path -> Seq(Packet)]
      /\ OnPath(p)' = OnPath(p) \cup {pk}
      /\ \A q \in Path \ {p} : OnPath(q)' = OnPath(q)
      /\ InFlight' = InFlight \cup {pk}
      /\ \A q \in Path : InSendingOrder(net'[q])
    BY <1>1, <1>2, <1>3, <1>5, NetAppend
<1> QED
    BY <1>1, <1>2, <1>4, <1>6 DEF pk

\* A new epoch starts only when what was rerouted has settled, on the path of
\* all that is in flight.
LEMMA NewEpochInv ==
    ASSUME IInv, NEW p \in Path, NewEpoch(p),
           \/ ~tx.known
           \/ InFlight = {} /\ voq = << >>
           \/ tx.stabilized /\ p = tx.path
    PROVE  IInv'
<1> DEFINE e == tx.epoch + 1
           nk == Sending(e, 0, "INIT", 0)
<1> USE ConWeaveAssumption
<1>1. /\ tx.epoch \in 0..MaxPackets /\ tx.phase \in {0, 1} /\ tx.tail \in 0..MaxPackets
      /\ rx.epoch \in 1..MaxPackets /\ rx.phase \in {0, 1}
      /\ tx.known \in BOOLEAN /\ tx.stabilized \in BOOLEAN
    BY DEF IInv, Ranges
<1>2. SendOn(p, e, 0, "INIT", 0) /\ e <= sent + 1
    BY <1>1 DEF NewEpoch, IInv, Ranges, TxOK, conweaveTxState
<1>3. e \in 1..MaxPackets
    <2>1. sent < MaxPackets /\ sent \in 0..MaxPackets
        BY <1>2 DEF SendOn, IInv, Ranges
    <2> QED
        BY <1>1, <1>2, <2>1
<1>4. /\ nk \in Packet
      /\ net' \in [Path -> Seq(Packet)]
      /\ OnPath(p)' = OnPath(p) \cup {nk}
      /\ \A q \in Path \ {p} : OnPath(q)' = OnPath(q)
      /\ InFlight' = InFlight \cup {nk}
      /\ \A q \in Path : InSendingOrder(net'[q])
      /\ sent + 1 \in 1..MaxPackets /\ sent' = sent + 1 /\ sent \in Nat
      /\ \A pk \in InFlight : pk.id <= sent /\ pk \in Packet
      /\ rx' = rx /\ voq' = voq /\ replies' = replies /\ out' = out /\ lost' = lost
    <2>0. Ranges /\ (\A q \in Path : InSendingOrder(net[q])) /\ \A pk \in InFlight : pk.id <= sent
        BY DEF IInv, PathsOK, PacketsOK, PacketOK
    <2>1. 0 \in 0..MaxPackets /\ 0 \in {0, 1} /\ "INIT" \in {"INIT", "TAIL", "DATA"}
        OBVIOUS
    <2> HIDE DEF e
    <2> QED
        BY <1>2, <1>3, <2>0, <2>1, SendOnFlight
<1>5. /\ nk.id = sent + 1 /\ nk.epoch = e /\ nk.phase = 0 /\ nk.flag = "INIT" /\ nk.tail = 0
    BY DEF Sending
<1>6. tx' = [known |-> TRUE, epoch |-> e, phase |-> 0, path |-> p,
              timer |-> "running", stabilized |-> FALSE, tail |-> 0]
    BY DEF NewEpoch
<1>7. /\ tx'.known /\ tx'.epoch = e /\ tx'.phase = 0 /\ tx'.path = p
      /\ tx'.timer = "running" /\ tx'.stabilized = FALSE /\ tx'.tail = 0
    BY <1>6
<1> HIDE DEF nk, e
<1>8. e = tx.epoch + 1
    BY DEF e
<1>9. voq = << >>
    BY DEF IInv, TxOK, VoqOK
<1>10. \A q \in Path : \A pk \in OnPath(q) : q = p
    <2>1. SUFFICES ASSUME NEW q \in Path, NEW pk \in OnPath(q)
                   PROVE  q = p
        OBVIOUS
    <2>2. pk \in InFlight /\ pk \in Packet
        BY FlightOnPath DEF IInv, Ranges
    <2>3. tx.known /\ tx.stabilized /\ p = tx.path
        BY <2>2 DEF IInv, TxOK
    <2>4. CASE tx.phase = 0
        BY <2>2, <2>3, <2>4 DEF IInv, TxOK, PathsOK, Packet
    <2>5. CASE tx.phase = 1
        BY <2>2, <2>3, <2>5 DEF IInv, RxOK, PathsOK, NoOldInFlight
    <2> QED
        BY <1>1, <2>4, <2>5
<1>11. \A pk \in InFlight : /\ pk.epoch <= tx.epoch /\ pk.phase \in {0, 1}
                            /\ pk.phase = 1 => Settled(pk)
    <2>1. SUFFICES ASSUME NEW pk \in InFlight
                   PROVE  pk.epoch <= tx.epoch /\ pk.phase \in {0, 1}
                          /\ (pk.phase = 1 => Settled(pk))
        OBVIOUS
    <2>2. pk \in Packet /\ PacketOK(pk)
        BY <1>4 DEF IInv, PacketsOK
    <2>3. CASE pk.phase = 1 /\ pk.epoch = tx.epoch
        <3>1. tx.known /\ tx.stabilized /\ p = tx.path
            BY DEF IInv, TxOK
        <3>2. pk.tail # 0
            BY <2>2, <2>3 DEF PacketOK
        <3>3. tx.phase = 1
            BY <2>2, <2>3, <3>2 DEF PacketOK
        <3>4. rx.epoch = tx.epoch /\ rx.phase = tx.phase
            BY <3>1 DEF IInv, RxOK
        <3> QED
            BY <2>2, <2>3, <3>3, <3>4 DEF Settled, PacketOK, Packet
    <2> QED
        BY <1>1, <2>2, <2>3 DEF PacketOK, Packet
<1>12. rx.epoch < e \/ (rx.epoch = e /\ ~rx.known /\ rx.phase = 0 /\ rx.cache = FALSE
                       /\ InFlight = {} /\ replies = << >>)
    BY <1>1, <1>8 DEF IInv, TxOK, RxOK, conweaveTxState, conweaveRxState
<1>13. \A r \in ToSet(replies) : r.epoch < e
    <2>1. \A r \in ToSet(replies) : r.epoch <= tx.epoch /\ r \in Reply
        BY DEF IInv, RepliesOK, ReplyOK, Ranges, ToSet
    <2> QED
        BY <1>1, <1>8, <2>1 DEF Reply
<1>14. Ranges'
    <2>1. tx' \in [known : BOOLEAN, epoch : 0..MaxPackets, phase : {0, 1},
               path : Path \cup {NoPath}, timer : {"none", "running", "out"},
               stabilized : BOOLEAN, tail : 0..MaxPackets]
        BY <1>3, <1>6
    <2>2. lost' \subseteq 1..sent' /\ sent' \in 0..MaxPackets
        <3>1. lost \subseteq 1..sent
            BY DEF IInv, Ranges
        <3> QED
            BY <1>4, <3>1
    <2> QED
        BY <1>4, <2>1, <2>2 DEF IInv, Ranges
<1>15. TxOK'
    BY <1>2, <1>3, <1>4, <1>7 DEF TxOK
<1>16. RxOK'
    <2>1. rx.phase0Tx <= sent'
        BY <1>4 DEF IInv, RxOK, Ranges
    <2>2. rx.epoch <= e /\ (rx.epoch = e /\ rx.phase = 1 => FALSE)
        BY <1>1, <1>3, <1>12
    <2>3. ~rx.known => rx = conweaveRxState
        BY DEF IInv, RxOK
    <2> QED
        BY <1>4, <1>7, <2>1, <2>2, <2>3 DEF RxOK
<1>17. PacketsOK'
    <2>1. SUFFICES ASSUME NEW pk \in InFlight'
                   PROVE  PacketOK(pk)'
        BY DEF PacketsOK
    <2>2. CASE pk = nk
        <3>1. nk.id <= sent' /\ nk.id \notin lost
            <4>1. lost \subseteq 1..sent
                BY DEF IInv, Ranges
            <4> QED
                BY <1>4, <1>5, <4>1
        <3>2. nk.epoch <= e /\ nk.tail < nk.id /\ ~(nk.epoch < e)
            BY <1>3, <1>4, <1>5
        <3> QED
            BY <1>4, <1>5, <1>7, <2>2, <3>1, <3>2 DEF PacketOK
    <2>3. CASE pk \in InFlight
        <3>1. pk \in Packet /\ PacketOK(pk) /\ pk.epoch <= e /\ pk.epoch # e
            <4>1. pk \in Packet /\ PacketOK(pk) /\ pk.epoch <= tx.epoch
                BY <1>4, <1>11, <2>3 DEF IInv, PacketsOK
            <4>2. pk.epoch \in 1..MaxPackets
                BY <4>1 DEF Packet
            <4> QED
                BY <1>1, <1>8, <4>1, <4>2
        <3>2. pk.phase = 1 => Settled(pk)'
            BY <1>4, <1>11, <2>3 DEF Settled
        <3>3. pk.id <= sent'
            BY <1>4, <3>1 DEF PacketOK, Packet
        <3> QED
            BY <1>4, <1>7, <1>8, <3>1, <3>2, <3>3 DEF PacketOK
    <2> QED
        BY <1>4, <2>2, <2>3
<1>18. CacheOK'
    <2>1. ASSUME NEW pk \in InFlight', pk.phase = 1, pk.epoch = rx'.epoch, rx'.cache
          PROVE  rx'.phase0Tx <= pk.tail
        BY <1>4, <1>5, <2>1 DEF IInv, CacheOK
    <2>2. ASSUME NEW pk \in InFlight', NEW qk \in InFlight',
                 pk.epoch = qk.epoch, pk.phase = 1, qk.phase = 0
          PROVE  qk.id <= pk.tail
        <3>1. pk \in InFlight /\ pk.epoch # e
            BY <1>1, <1>4, <1>5, <1>8, <1>11, <2>2 DEF Packet
        <3>2. qk \in InFlight
            BY <1>4, <1>5, <2>2, <3>1
        <3> QED
            BY <2>2, <3>1, <3>2 DEF IInv, CacheOK
    <2> QED
        BY <1>7, <2>1, <2>2 DEF CacheOK
<1>19. PathsOK'
    <2>1. \A q \in Path : \A pk \in OnPath(q)' : q = p
        BY <1>4, <1>10
    <2>2. \A q \in Path : \A pk \in OnPath(q) : pk \in Packet
        BY FlightOnPath DEF IInv, Ranges
    <2>3. \A q \in Path : \A pk \in OnPath(q)' : pk \in Packet
        BY <1>4, <2>2
    <2> QED
        BY <1>4, <1>7, <2>1, <2>3 DEF PathsOK, Packet
<1>20. VoqOK'
    BY <1>4, <1>9 DEF IInv, VoqOK, ToSet, Increasing
<1>21. OutOK'
    <2>1. SUFFICES ASSUME NEW i \in ToSet(out)
                   PROVE  /\ i <= sent'
                          /\ \A pk \in InFlight' : i < pk.id
                          /\ \A j \in ToSet(voq) : i < j
        BY <1>4 DEF OutOK
    <2>2. i \in 1..MaxPackets
        <3>1. out \in Seq(1..MaxPackets)
            BY DEF IInv, Ranges
        <3> QED
            BY <3>1, ToSetMember
    <2>3. i <= sent /\ (\A pk \in InFlight : i < pk.id) /\ \A j \in ToSet(voq) : i < j
        BY DEF IInv, OutOK
    <2>4. i <= sent + 1 /\ i < nk.id
        BY <1>4, <1>5, <2>2, <2>3
    <2> QED
        BY <1>4, <2>3, <2>4
<1>22. RepliesOK'
    <2>1. \A r \in ToSet(replies) : r \in Reply
        BY DEF IInv, Ranges, ToSet
    <2>2. \A r \in ToSet(replies) : r.epoch <= e /\ r.epoch # e
        BY <1>3, <1>13, <2>1 DEF Reply
    <2> QED
        BY <1>4, <1>7, <2>2 DEF RepliesOK, ReplyOK
<1> QED
    BY <1>14, <1>15, <1>16, <1>17, <1>18, <1>19, <1>20, <1>21, <1>22 DEF IInv

\* The TAIL is the last packet of phase 0, on the path of all the others.
LEMMA SendTailInv ==
    ASSUME IInv, SendTail
    PROVE  IInv'
<1> DEFINE nk == Sending(tx.epoch, 0, "TAIL", sent + 1)
<1> USE ConWeaveAssumption
<1>1. /\ tx.epoch \in 0..MaxPackets /\ tx.phase \in {0, 1} /\ tx.tail \in 0..MaxPackets
      /\ rx.epoch \in 1..MaxPackets /\ rx.phase \in {0, 1}
      /\ tx.known /\ ~tx.stabilized /\ tx.timer = "out"
    BY DEF IInv, Ranges, SendTail
<1>2. /\ tx.phase = 0 /\ tx.tail = 0 /\ tx.path \in Path
      /\ tx.epoch \in 1..MaxPackets /\ tx.epoch <= sent
    BY <1>1 DEF IInv, TxOK
<1>3. PICK np \in Path : tx' = [tx EXCEPT !.timer = "none", !.phase = 1, !.path = np,
                                          !.tail = sent + 1]
    BY DEF SendTail
<1>4. /\ nk \in Packet
      /\ net' \in [Path -> Seq(Packet)]
      /\ \A q \in Path : OnPath(q)' = IF q = tx.path THEN OnPath(q) \cup {nk} ELSE OnPath(q)
      /\ InFlight' = InFlight \cup {nk}
      /\ \A q \in Path : InSendingOrder(net'[q])
      /\ sent + 1 \in 1..MaxPackets /\ sent' = sent + 1 /\ sent \in Nat
      /\ \A pk \in InFlight : pk.id <= sent /\ pk \in Packet
      /\ rx' = rx /\ voq' = voq /\ replies' = replies /\ out' = out /\ lost' = lost
    <2>0. Ranges /\ (\A q \in Path : InSendingOrder(net[q])) /\ \A pk \in InFlight : pk.id <= sent
        BY DEF IInv, PathsOK, PacketsOK, PacketOK
    <2>1. 0 \in {0, 1} /\ "TAIL" \in {"INIT", "TAIL", "DATA"}
        OBVIOUS
    <2>2. SendOn(tx.path, tx.epoch, 0, "TAIL", sent + 1)
        BY DEF SendTail
    <2> DEFINE t == sent + 1
    <2>3. t \in 0..MaxPackets /\ SendOn(tx.path, tx.epoch, 0, "TAIL", t)
        BY <2>2 DEF SendOn, IInv, Ranges
    <2>4. nk = Sending(tx.epoch, 0, "TAIL", t)
        OBVIOUS
    <2> HIDE DEF t, nk
    <2>5. PICK p \in Path : p = tx.path
        BY <1>2
    <2> QED
        BY <1>2, <2>0, <2>1, <2>3, <2>4, <2>5, SendOnFlight
<1>5. /\ nk.id = sent + 1 /\ nk.epoch = tx.epoch /\ nk.phase = 0 /\ nk.flag = "TAIL"
      /\ nk.tail = sent + 1
    BY DEF Sending
<1>6. /\ tx'.known = tx.known /\ tx'.epoch = tx.epoch /\ tx'.phase = 1 /\ tx'.path = np
      /\ tx'.timer = "none" /\ tx'.stabilized = tx.stabilized /\ tx'.tail = sent + 1
    BY <1>3 DEF IInv, Ranges
<1> HIDE DEF nk
<1>7. voq = << >> /\ ~rx.flushing /\ (rx.epoch = tx.epoch => rx.phase = 0) /\ rx.epoch <= tx.epoch
    BY <1>1, <1>2 DEF IInv, VoqOK, RxOK
<1>8. \A q \in Path : \A pk \in OnPath(q) : q = tx.path
    <2>1. \A q \in Path : \A pk \in OnPath(q) : pk \in Packet
        BY FlightOnPath DEF IInv, Ranges
    <2>2. \A pk \in Packet : 0 < pk.id
        BY DEF Packet
    <2> QED
        BY <1>2, <2>1, <2>2 DEF IInv, PathsOK
<1>9. \A pk \in InFlight : /\ PacketOK(pk) /\ pk \in Packet
                           /\ pk.epoch = tx.epoch => pk.phase = 0 /\ pk.tail = 0
    BY <1>2, <1>4 DEF IInv, PacketsOK, PacketOK, Packet
<1>10. Ranges'
    <2>1. tx' \in [known : BOOLEAN, epoch : 0..MaxPackets, phase : {0, 1},
               path : Path \cup {NoPath}, timer : {"none", "running", "out"},
               stabilized : BOOLEAN, tail : 0..MaxPackets]
        <3>1. sent + 1 \in 0..MaxPackets /\ np \in Path \cup {NoPath}
            BY <1>4
        <3> QED
            BY <1>3, <3>1 DEF IInv, Ranges
    <2>2. lost' \subseteq 1..sent' /\ sent' \in 0..MaxPackets
        <3>1. lost \subseteq 1..sent
            BY DEF IInv, Ranges
        <3> QED
            BY <1>4, <3>1
    <2> QED
        BY <1>4, <2>1, <2>2 DEF IInv, Ranges
<1>11. TxOK'
    <2>1. tx.epoch <= sent' /\ sent + 1 \in 1..sent'
        BY <1>2, <1>4
    <2> QED
        BY <1>1, <1>2, <1>4, <1>6, <2>1 DEF TxOK
<1>12. RxOK'
    <2>1. rx.phase0Tx <= sent'
        BY <1>4 DEF IInv, RxOK, Ranges
    <2>2. ~rx.known => rx = conweaveRxState
        BY DEF IInv, RxOK
    <2> QED
        BY <1>1, <1>4, <1>6, <1>7, <2>1, <2>2 DEF RxOK
<1>13. PacketsOK'
    <2>1. SUFFICES ASSUME NEW pk \in InFlight'
                   PROVE  PacketOK(pk)'
        BY DEF PacketsOK
    <2>2. CASE pk = nk
        <3>1. nk.id <= sent' /\ nk.id \notin lost
            <4>1. lost \subseteq 1..sent
                BY DEF IInv, Ranges
            <4> QED
                BY <1>4, <1>5, <4>1
        <3>2. ~(sent + 1 < nk.id) /\ sent + 1 # 0
            BY <1>4, <1>5
        <3>3. tx.epoch <= tx.epoch
            BY <1>1
        <3> QED
            BY <1>4, <1>5, <1>6, <2>2, <3>1, <3>2, <3>3 DEF PacketOK
    <2>3. CASE pk \in InFlight
        <3>1. pk.id <= sent' /\ ~(sent + 1 < pk.id)
            BY <1>4, <1>9, <2>3 DEF Packet
        <3>2. Settled(pk)' <=> Settled(pk)
            BY <1>4 DEF Settled
        <3>3. PacketOK(pk) /\ (pk.epoch = tx.epoch => pk.phase = 0 /\ pk.tail = 0)
            BY <1>9, <2>3
        <3> QED
            BY <1>4, <1>6, <3>1, <3>2, <3>3 DEF PacketOK
    <2> QED
        BY <1>4, <2>2, <2>3
<1>14. CacheOK'
    <2>1. ASSUME NEW pk \in InFlight', pk.phase = 1, pk.epoch = rx'.epoch, rx'.cache
          PROVE  rx'.phase0Tx <= pk.tail
        BY <1>4, <1>5, <2>1 DEF IInv, CacheOK
    <2>2. ASSUME NEW pk \in InFlight', NEW qk \in InFlight',
                 pk.epoch = qk.epoch, pk.phase = 1, qk.phase = 0
          PROVE  qk.id <= pk.tail
        <3>1. pk \in InFlight /\ pk.epoch # tx.epoch
            BY <1>4, <1>5, <1>9, <2>2
        <3>2. qk \in InFlight
            BY <1>4, <1>5, <2>2, <3>1
        <3> QED
            BY <2>2, <3>1, <3>2 DEF IInv, CacheOK
    <2>3. rx'.phase0Tx <= tx'.tail
        BY <1>4, <1>6 DEF IInv, RxOK, Ranges
    <2> QED
        BY <2>1, <2>2, <2>3 DEF CacheOK
<1>15. PathsOK'
    <2>1. \A q \in Path : \A pk \in OnPath(q)' : q = tx.path
        BY <1>2, <1>4, <1>8
    <2>2. \A q \in Path : \A pk \in OnPath(q)' : ~(sent + 1 < pk.id)
        <3>1. \A q \in Path : OnPath(q) \subseteq InFlight
            BY FlightOnPath DEF IInv, Ranges
        <3>2. \A pk \in InFlight \cup {nk} : ~(sent + 1 < pk.id)
            BY <1>4, <1>5 DEF Packet
        <3>3. \A q \in Path : OnPath(q)' \subseteq InFlight \cup {nk}
            BY <1>2, <1>4, <3>1
        <3> QED
            BY <3>2, <3>3
    <2> QED
        BY <1>4, <1>6, <2>1, <2>2 DEF PathsOK
<1>16. VoqOK'
    BY <1>4, <1>7 DEF IInv, VoqOK, ToSet, Increasing
<1>17. OutOK'
    <2>1. SUFFICES ASSUME NEW i \in ToSet(out)
                   PROVE  /\ i <= sent'
                          /\ \A pk \in InFlight' : i < pk.id
                          /\ \A j \in ToSet(voq) : i < j
        BY <1>4 DEF OutOK
    <2>2. i \in 1..MaxPackets
        <3>1. out \in Seq(1..MaxPackets)
            BY DEF IInv, Ranges
        <3> QED
            BY <3>1, ToSetMember
    <2>3. i <= sent /\ (\A pk \in InFlight : i < pk.id) /\ \A j \in ToSet(voq) : i < j
        BY DEF IInv, OutOK
    <2>4. i <= sent + 1 /\ i < nk.id
        BY <1>4, <1>5, <2>2, <2>3
    <2> QED
        BY <1>4, <2>3, <2>4
<1>18. RepliesOK'
    BY <1>2, <1>4, <1>6 DEF IInv, RepliesOK, ReplyOK
<1> QED
    BY <1>10, <1>11, <1>12, <1>13, <1>14, <1>15, <1>16, <1>17, <1>18 DEF IInv

\* Any other packet is later than what is held back and than the TAIL.
LEMMA SendDataInv ==
    ASSUME IInv, SendData
    PROVE  IInv'
<1> DEFINE nk == Sending(tx.epoch, tx.phase, "DATA", tx.tail)
<1> USE ConWeaveAssumption
<1>1. /\ tx.epoch \in 0..MaxPackets /\ tx.phase \in {0, 1} /\ tx.tail \in 0..MaxPackets
      /\ rx.epoch \in 1..MaxPackets /\ rx.phase \in {0, 1}
      /\ tx.known /\ ~tx.stabilized /\ tx' = tx
    BY DEF IInv, Ranges, SendData
<1>2. /\ tx.path \in Path /\ tx.epoch \in 1..MaxPackets /\ tx.epoch <= sent
      /\ tx.tail <= sent /\ (tx.phase = 0 => tx.tail = 0) /\ (tx.phase = 1 => tx.tail # 0)
    <2>1. tx.path \in Path /\ tx.epoch >= 1 /\ tx.epoch <= sent
        BY <1>1 DEF IInv, TxOK
    <2>2. tx.phase = 0 => tx.tail = 0 /\ tx.tail <= sent
        BY <1>1 DEF IInv, TxOK, Ranges
    <2>3. tx.phase = 1 => tx.tail # 0 /\ tx.tail <= sent
        BY <1>1 DEF IInv, TxOK
    <2>4. tx.epoch \in 1..MaxPackets
        BY <1>1, <2>1
    <2> QED
        BY <1>1, <2>1, <2>2, <2>3, <2>4
<1>3. /\ nk \in Packet
      /\ net' \in [Path -> Seq(Packet)]
      /\ \A q \in Path : OnPath(q)' = IF q = tx.path THEN OnPath(q) \cup {nk} ELSE OnPath(q)
      /\ InFlight' = InFlight \cup {nk}
      /\ \A q \in Path : InSendingOrder(net'[q])
      /\ sent + 1 \in 1..MaxPackets /\ sent' = sent + 1 /\ sent \in Nat
      /\ \A pk \in InFlight : pk.id <= sent /\ pk \in Packet
      /\ rx' = rx /\ voq' = voq /\ replies' = replies /\ out' = out /\ lost' = lost
    <2>0. Ranges /\ (\A q \in Path : InSendingOrder(net[q])) /\ \A pk \in InFlight : pk.id <= sent
        BY DEF IInv, PathsOK, PacketsOK, PacketOK
    <2>1. "DATA" \in {"INIT", "TAIL", "DATA"}
        OBVIOUS
    <2>2. SendOn(tx.path, tx.epoch, tx.phase, "DATA", tx.tail)
        BY DEF SendData
    <2>3. PICK p \in Path : p = tx.path
        BY <1>2
    <2> HIDE DEF nk
    <2>4. nk = Sending(tx.epoch, tx.phase, "DATA", tx.tail)
        BY DEF nk
    <2>5. SendOn(p, tx.epoch, tx.phase, "DATA", tx.tail)
        BY <2>2, <2>3
    <2>6. /\ nk \in Packet /\ net' \in [Path -> Seq(Packet)]
          /\ OnPath(p)' = OnPath(p) \cup {nk}
          /\ \A q \in Path \ {p} : OnPath(q)' = OnPath(q)
          /\ InFlight' = InFlight \cup {nk}
          /\ \A q \in Path : InSendingOrder(net'[q])
          /\ sent + 1 \in 1..MaxPackets /\ sent' = sent + 1 /\ sent \in Nat
          /\ \A pk \in InFlight : pk.id <= sent /\ pk \in Packet
          /\ rx' = rx /\ voq' = voq /\ replies' = replies /\ out' = out /\ lost' = lost
        BY <1>1, <1>2, <2>0, <2>1, <2>4, <2>5, SendOnFlight
    <2>7. \A q \in Path : OnPath(q)' = IF q = tx.path THEN OnPath(q) \cup {nk} ELSE OnPath(q)
        BY <2>3, <2>6
    <2> QED
        BY <2>6, <2>7
<1>4. /\ nk.id = sent + 1 /\ nk.epoch = tx.epoch /\ nk.phase = tx.phase /\ nk.flag = "DATA"
      /\ nk.tail = tx.tail
    BY DEF Sending
<1> HIDE DEF nk
<1>5. tx.tail < nk.id /\ ~(nk.id <= tx.tail)
    BY <1>1, <1>2, <1>3, <1>4
<1>6. \A pk \in InFlight : PacketOK(pk)
    BY DEF IInv, PacketsOK
<1>7. NoOldInFlight => NoOldInFlight'
    BY <1>1, <1>3, <1>5 DEF NoOldInFlight
<1>8. Ranges'
    <2>1. lost' \subseteq 1..sent' /\ sent' \in 0..MaxPackets
        <3>1. lost \subseteq 1..sent
            BY DEF IInv, Ranges
        <3> QED
            BY <1>3, <3>1
    <2> QED
        BY <1>1, <1>3, <2>1 DEF IInv, Ranges
<1>9. TxOK'
    <2>1. tx.epoch <= sent' /\ (tx.phase = 1 => tx.tail \in 1..sent')
        BY <1>1, <1>2, <1>3
    <2> QED
        BY <1>1, <1>3, <2>1 DEF IInv, TxOK
<1>10. RxOK'
    <2>1. rx.phase0Tx <= sent'
        BY <1>3 DEF IInv, RxOK, Ranges
    <2> QED
        BY <1>1, <1>3, <1>7, <2>1 DEF IInv, RxOK
<1>11. PacketsOK'
    <2>1. SUFFICES ASSUME NEW pk \in InFlight'
                   PROVE  PacketOK(pk)'
        BY DEF PacketsOK
    <2>2. CASE pk = nk
        <3>1. nk.id <= sent' /\ nk.id \notin lost
            <4>1. lost \subseteq 1..sent
                BY DEF IInv, Ranges
            <4> QED
                BY <1>3, <1>4, <4>1
        <3>2. tx.epoch <= tx.epoch /\ ~(tx.epoch < tx.epoch)
            BY <1>1
        <3>3. nk.tail = 0 <=> nk.phase = 0
            BY <1>1, <1>2, <1>4
        <3>4. nk.tail # 0 => tx.phase = 1
            BY <1>1, <1>2, <1>4
        <3> QED
            BY <1>1, <1>3, <1>4, <1>5, <2>2, <3>1, <3>2, <3>3, <3>4 DEF PacketOK
    <2>3. CASE pk \in InFlight
        <3>1. pk.id <= sent'
            BY <1>3, <2>3 DEF Packet
        <3>2. Settled(pk)' <=> Settled(pk)
            BY <1>3 DEF Settled
        <3> QED
            BY <1>1, <1>3, <1>6, <2>3, <3>1, <3>2 DEF PacketOK
    <2> QED
        BY <1>3, <2>2, <2>3
<1>12. CacheOK'
    <2>1. ASSUME NEW pk \in InFlight', pk.phase = 1, pk.epoch = rx'.epoch, rx'.cache
          PROVE  rx'.phase0Tx <= pk.tail
        BY <1>1, <1>3, <1>4, <2>1 DEF IInv, CacheOK
    <2>2. ASSUME NEW pk \in InFlight', NEW qk \in InFlight',
                 pk.epoch = qk.epoch, pk.phase = 1, qk.phase = 0
          PROVE  qk.id <= pk.tail
        <3>1. CASE pk \in InFlight /\ qk \in InFlight
            BY <2>2, <3>1 DEF IInv, CacheOK
        <3>2. CASE pk = nk /\ qk \in InFlight
            <4>1. qk.id \in Nat
                BY <1>3, <3>2 DEF Packet
            <4>2. ~(tx.tail < qk.id)
                BY <1>4, <1>6, <2>2, <3>2 DEF PacketOK
            <4> QED
                BY <1>1, <1>4, <3>2, <4>1, <4>2
        <3>3. CASE pk \in InFlight /\ qk = nk
            BY <1>4, <1>6, <2>2, <3>3 DEF PacketOK
        <3> QED
            BY <1>3, <2>2, <3>1, <3>2, <3>3
    <2> QED
        BY <1>1, <1>3, <2>1, <2>2 DEF IInv, CacheOK
<1>13. PathsOK'
    <2>1. ASSUME NEW q \in Path, NEW pk \in OnPath(q)', tx.tail < pk.id
          PROVE  q = tx.path
        BY <1>2, <1>3, <2>1 DEF IInv, PathsOK
    <2>2. ASSUME NEW q \in Path, NEW pk \in OnPath(q)', pk.id <= tx.tail
          PROVE  pk \in OnPath(q)
        <3>1. pk # nk
            BY <1>5, <2>2
        <3>2. CASE q = tx.path
            BY <1>3, <2>2, <3>1, <3>2
        <3>3. CASE q # tx.path
            BY <1>3, <2>2, <3>3
        <3> QED
            BY <3>2, <3>3
    <2>3. ASSUME NEW p \in Path, NEW q \in Path, NEW pk \in OnPath(p)', NEW qk \in OnPath(q)',
                 pk.id <= tx.tail, qk.id <= tx.tail
          PROVE  p = q
        BY <2>2, <2>3 DEF IInv, PathsOK
    <2> QED
        BY <1>1, <1>3, <2>1, <2>3 DEF PathsOK
<1>14. VoqOK'
    <2>1. ASSUME NEW i \in ToSet(voq)
          PROVE  /\ tx.tail < i /\ i <= sent' /\ i \notin lost
                 /\ \A pk \in InFlight' : tx.tail < pk.id => i < pk.id
        <3>1. i \in 1..MaxPackets
            <4>1. voq \in Seq(1..MaxPackets)
                BY DEF IInv, Ranges
            <4> QED
                BY <4>1, ToSetMember
        <3>2. /\ tx.tail < i /\ i <= sent /\ i \notin lost
              /\ \A pk \in InFlight : tx.tail < pk.id => i < pk.id
            BY DEF IInv, VoqOK
        <3>3. i <= sent' /\ i < nk.id
            BY <1>3, <1>4, <3>1, <3>2
        <3> QED
            BY <1>3, <3>2, <3>3
    <2> QED
        BY <1>1, <1>3, <1>7, <2>1 DEF IInv, VoqOK
<1>15. OutOK'
    <2>1. SUFFICES ASSUME NEW i \in ToSet(out)
                   PROVE  /\ i <= sent'
                          /\ \A pk \in InFlight' : i < pk.id
                          /\ \A j \in ToSet(voq) : i < j
        BY <1>3 DEF OutOK
    <2>2. i \in 1..MaxPackets
        <3>1. out \in Seq(1..MaxPackets)
            BY DEF IInv, Ranges
        <3> QED
            BY <3>1, ToSetMember
    <2>3. i <= sent /\ (\A pk \in InFlight : i < pk.id) /\ \A j \in ToSet(voq) : i < j
        BY DEF IInv, OutOK
    <2>4. i <= sent + 1 /\ i < nk.id
        BY <1>3, <1>4, <2>2, <2>3
    <2> QED
        BY <1>3, <2>3, <2>4
<1>16. RepliesOK'
    BY <1>1, <1>3, <1>7 DEF IInv, RepliesOK, ReplyOK
<1> QED
    BY <1>8, <1>9, <1>10, <1>11, <1>12, <1>13, <1>14, <1>15, <1>16 DEF IInv

\* Passing of the reply deadline changes nothing the receiver relies on.
LEMMA ReplyDeadlineInv ==
    ASSUME IInv, ReplyDeadline
    PROVE  IInv'
<1>1. /\ tx' = [tx EXCEPT !.timer = "out"] /\ tx.timer = "running"
      /\ rx' = rx /\ voq' = voq /\ net' = net /\ replies' = replies /\ sent' = sent
      /\ out' = out /\ lost' = lost
    BY DEF ReplyDeadline
<1>2. /\ tx'.known = tx.known /\ tx'.epoch = tx.epoch /\ tx'.phase = tx.phase
      /\ tx'.path = tx.path /\ tx'.stabilized = tx.stabilized /\ tx'.tail = tx.tail
      /\ tx'.timer = "out"
    BY <1>1 DEF IInv, Ranges
<1>3. InFlight' = InFlight /\ \A p \in Path : OnPath(p)' = OnPath(p)
    BY <1>1 DEF InFlight, OnPath
<1>4. NoOldInFlight' <=> NoOldInFlight
    BY <1>2, <1>3 DEF NoOldInFlight
<1>5. \A pk \in InFlight : PacketOK(pk) => PacketOK(pk)'
    BY <1>1, <1>2 DEF PacketOK, Settled
<1>6. tx.known
    BY <1>1 DEF IInv, TxOK, conweaveTxState
<1>7. Ranges'
    BY <1>1 DEF IInv, Ranges
<1>8. TxOK'
    BY <1>1, <1>2, <1>6 DEF IInv, TxOK
<1>9. RxOK'
    BY <1>1, <1>2, <1>3, <1>4 DEF IInv, RxOK
<1>10. PacketsOK'
    BY <1>3, <1>5 DEF IInv, PacketsOK
<1>11. CacheOK'
    BY <1>1, <1>2, <1>3 DEF IInv, CacheOK
<1>12. PathsOK'
    BY <1>1, <1>2, <1>3 DEF IInv, PathsOK
<1>13. VoqOK'
    BY <1>1, <1>2, <1>3, <1>4 DEF IInv, VoqOK
<1>14. OutOK'
    BY <1>1, <1>3 DEF IInv, OutOK
<1>15. RepliesOK'
    BY <1>1, <1>2, <1>4 DEF IInv, RepliesOK, ReplyOK
<1> QED
    BY <1>7, <1>8, <1>9, <1>10, <1>11, <1>12, <1>13, <1>14, <1>15 DEF IInv

\* A reply that counts is one of a receiver that agrees with the sender.
LEMMA DisposeReplyInv ==
    ASSUME IInv, disposeReplyPacket
    PROVE  IInv'
<1> DEFINE r == Head(replies)
<1>1. /\ rx' = rx /\ voq' = voq /\ net' = net /\ replies' = Tail(replies) /\ sent' = sent
      /\ out' = out /\ lost' = lost /\ replies # << >>
      /\ r.flag = "TAIL" => ~rx.flushing
      /\ tx' = IF Timely(r) THEN [tx EXCEPT !.stabilized = TRUE, !.timer = "none"] ELSE tx
    BY DEF disposeReplyPacket
<1>2. /\ Tail(replies) \in Seq(Reply) /\ r \in Reply /\ r \in ToSet(replies)
      /\ ToSet(Tail(replies)) \subseteq ToSet(replies)
    <2>1. replies \in Seq(Reply) /\ replies # << >>
        BY <1>1 DEF IInv, Ranges
    <2> QED
        BY <2>1, ToSetTail
<1>3. ReplyOK(r)
    BY <1>2 DEF IInv, RepliesOK
<1> HIDE DEF r
<1>4. /\ tx'.known = tx.known /\ tx'.epoch = tx.epoch /\ tx'.phase = tx.phase
      /\ tx'.path = tx.path /\ tx'.tail = tx.tail
      /\ tx'.timer \in {"none", tx.timer}
      /\ tx'.stabilized # tx.stabilized => Timely(r) /\ tx'.stabilized
    BY <1>1 DEF IInv, Ranges
<1>5. InFlight' = InFlight /\ \A p \in Path : OnPath(p)' = OnPath(p)
    BY <1>1 DEF InFlight, OnPath
<1>6. NoOldInFlight' <=> NoOldInFlight
    BY <1>4, <1>5 DEF NoOldInFlight
<1>7. \A pk \in InFlight : PacketOK(pk) => PacketOK(pk)'
    BY <1>1, <1>4 DEF PacketOK, Settled
<1>8. tx.known
    BY <1>1 DEF IInv, TxOK
<1>9. Timely(r) => rx.epoch = tx.epoch /\ rx.phase = tx.phase /\ voq = << >>
    <2>1. SUFFICES ASSUME Timely(r)
                   PROVE  rx.epoch = tx.epoch /\ rx.phase = tx.phase /\ voq = << >>
        OBVIOUS
    <2>2. r.epoch = tx.epoch /\ PhaseOf(r) = tx.phase /\ rx.epoch = tx.epoch
        BY <1>3, <2>1 DEF Timely, ReplyOK
    <2>3. tx.phase \in {0, 1} /\ rx.phase \in {0, 1}
        BY DEF IInv, Ranges
    <2>4. CASE tx.phase = 0
        BY <1>8, <2>2, <2>3, <2>4 DEF IInv, RxOK, VoqOK
    <2>5. CASE tx.phase = 1
        <3>1. r.flag = "TAIL"
            BY <2>2, <2>5 DEF PhaseOf
        <3>2. rx.phase = 1
            BY <1>1, <1>3, <2>2, <3>1 DEF ReplyOK
        <3> QED
            BY <2>2, <2>5, <3>2 DEF IInv, VoqOK
    <2> QED
        BY <2>3, <2>4, <2>5
<1>10. Ranges'
    <2>1. tx' \in [known : BOOLEAN, epoch : 0..MaxPackets, phase : {0, 1},
               path : Path \cup {NoPath}, timer : {"none", "running", "out"},
               stabilized : BOOLEAN, tail : 0..MaxPackets]
        BY <1>1 DEF IInv, Ranges
    <2> QED
        BY <1>1, <1>2, <2>1 DEF IInv, Ranges
<1>11. TxOK'
    BY <1>1, <1>4, <1>8 DEF IInv, TxOK
<1>12. RxOK'
    BY <1>1, <1>4, <1>5, <1>6, <1>9 DEF IInv, RxOK
<1>13. PacketsOK'
    BY <1>5, <1>7 DEF IInv, PacketsOK
<1>14. CacheOK'
    BY <1>1, <1>4, <1>5 DEF IInv, CacheOK
<1>15. PathsOK'
    BY <1>1, <1>4, <1>5 DEF IInv, PathsOK
<1>16. VoqOK'
    BY <1>1, <1>4, <1>5, <1>6, <1>9 DEF IInv, VoqOK
<1>17. OutOK'
    BY <1>1, <1>5 DEF IInv, OutOK
<1>18. RepliesOK'
    BY <1>1, <1>2, <1>4, <1>6 DEF IInv, RepliesOK, ReplyOK
<1> QED
    BY <1>10, <1>11, <1>12, <1>13, <1>14, <1>15, <1>16, <1>17, <1>18 DEF IInv

-----------------------------------------------------------------------------
(* The Rx ToR *)

\* What leaves a path precedes all that stays on the same side of the TAIL.
LEMMA FirstLeaves ==
    ASSUME IInv, NEW p \in Path, net[p] # << >>, net' = [net EXCEPT ![p] = Tail(@)],
           tx' = tx
    PROVE  /\ net' \in [Path -> Seq(Packet)]
           /\ Head(net[p]) \in Packet /\ Head(net[p]) \in OnPath(p)
           /\ Head(net[p]) \in InFlight /\ PacketOK(Head(net[p])) /\ tx.known
           /\ InFlight' \subseteq InFlight
           /\ NoOldInFlight => NoOldInFlight'
           /\ \A qk \in InFlight' : /\ qk \in Packet /\ PacketOK(qk)
                                   /\ qk.id # Head(net[p]).id
           /\ \A qk \in InFlight' :
                 \/ Head(net[p]).id <= tx.tail
                 \/ NoOldInFlight
                 => Head(net[p]).id < qk.id
           /\ PathsOK'
<1> DEFINE pk == Head(net[p])
<1> HIDE DEF pk
<1>1. net \in [Path -> Seq(Packet)] /\ tx.tail \in Nat /\ tx.tail' = tx.tail
      /\ \A q \in Path : InSendingOrder(net[q])
    BY ConWeaveAssumption DEF IInv, Ranges, PathsOK
<1>2. /\ net' \in [Path -> Seq(Packet)]
      /\ pk \in Packet /\ pk \in OnPath(p) /\ pk \in InFlight
      /\ \A q \in Path : OnPath(q)' \subseteq OnPath(q)
      /\ InFlight' \subseteq InFlight
      /\ \A qk \in InFlight' : \E q \in Path : qk \in OnPath(q) /\ (q = p => pk.id < qk.id)
      /\ \A q \in Path : InSendingOrder(net'[q])
    BY <1>1, NetTail DEF pk
<1>3. \A qk \in InFlight : qk \in Packet /\ PacketOK(qk)
    BY <1>1, FlightOnPath DEF IInv, PacketsOK
<1>4. tx.known
    BY <1>2 DEF IInv, TxOK
<1>5. PathsOK'
    BY <1>1, <1>2 DEF IInv, PathsOK
<1>6. NoOldInFlight => NoOldInFlight'
    BY <1>1, <1>2 DEF NoOldInFlight
<1>7. \A qk \in InFlight' : (pk.id <= tx.tail <=> qk.id <= tx.tail) => pk.id < qk.id
    <2>1. SUFFICES ASSUME NEW qk \in InFlight', pk.id <= tx.tail <=> qk.id <= tx.tail
                   PROVE  pk.id < qk.id
        OBVIOUS
    <2>2. PICK q \in Path : qk \in OnPath(q) /\ (q = p => pk.id < qk.id)
        BY <1>2
    <2>3. pk.id \in Nat /\ qk.id \in Nat
        BY <1>2, <1>3 DEF Packet
    <2>4. CASE pk.id <= tx.tail /\ qk.id <= tx.tail
        BY <1>2, <2>2, <2>4 DEF IInv, PathsOK
    <2>5. CASE tx.tail < pk.id /\ tx.tail < qk.id
        BY <1>2, <2>2, <2>5 DEF IInv, PathsOK
    <2> QED
        BY <1>1, <2>1, <2>3, <2>4, <2>5
<1>8. \A qk \in InFlight' : pk.id \in Nat /\ qk.id \in Nat
    BY <1>2, <1>3 DEF Packet
<1>9. \A qk \in InFlight' : qk.id # pk.id
    BY <1>7, <1>8
<1>10. ASSUME NEW qk \in InFlight', pk.id <= tx.tail \/ NoOldInFlight
       PROVE  pk.id < qk.id
    <2>1. CASE pk.id <= tx.tail /\ tx.tail < qk.id
        BY <1>1, <1>8, <2>1
    <2>2. CASE NoOldInFlight
        <3>1. tx.tail < pk.id /\ tx.tail < qk.id
            BY <1>2, <2>2 DEF NoOldInFlight
        <3> QED
            BY <1>1, <1>7, <1>8, <3>1
    <2> QED
        BY <1>1, <1>7, <1>8, <1>10, <2>1, <2>2
<1> QED
    BY <1>2, <1>3, <1>4, <1>5, <1>6, <1>9, <1>10 DEF pk

\* The entry after the updates for pk, field by field.
Updated(entry, pk) ==
    /\ entry \in [known : BOOLEAN, epoch : 1..MaxPackets, phase : {0, 1}, cache : BOOLEAN,
                   phase0Tx : 0..MaxPackets, reordering : BOOLEAN, flushing : BOOLEAN]
    /\ entry.known
    /\ entry.epoch = pk.epoch
    /\ entry.phase = 1 <=> \/ pk.flag = "TAIL" /\ (rx.epoch < pk.epoch \/ ~rx.reordering)
                           \/ ~(rx.epoch < pk.epoch) /\ rx.phase = 1
    /\ entry.cache <=> pk.phase = 0 \/ (rx.cache /\ ~(rx.epoch < pk.epoch))
    /\ pk.phase = 0 => entry.phase0Tx = pk.id
    /\ pk.phase # 0 => entry.phase0Tx = rx.phase0Tx
    /\ entry.reordering = rx.reordering
    /\ entry.flushing <=> IF pk.phase = 0 /\ rx.reordering THEN pk.flag = "TAIL" ELSE rx.flushing

LEMMA EpochToCheckFields ==
    ASSUME Ranges, NEW pk \in Packet
    PROVE  Updated(epochToCheck(pk), pk)
<1>1. /\ rx \in [known : BOOLEAN, epoch : 1..MaxPackets, phase : {0, 1}, cache : BOOLEAN,
               phase0Tx : 0..MaxPackets, reordering : BOOLEAN, flushing : BOOLEAN]
      /\ pk.epoch \in 1..MaxPackets /\ pk.phase \in {0, 1} /\ pk.id \in 0..MaxPackets
    BY DEF Ranges, Packet
<1> DEFINE new == rx.epoch < pk.epoch
           phase == IF new THEN IF pk.flag = "TAIL" THEN 1 ELSE 0
                    ELSE IF pk.flag = "TAIL" /\ ~rx.reordering THEN 1 ELSE rx.phase
           cache == pk.phase = 0 \/ (rx.cache /\ ~new)
           phase0Tx == IF pk.phase = 0 THEN pk.id ELSE rx.phase0Tx
           flushing == IF pk.phase = 0 /\ rx.reordering THEN pk.flag = "TAIL" ELSE rx.flushing
<1>2. epochToCheck(pk) =
        [rx EXCEPT !.known = TRUE, !.epoch = pk.epoch, !.phase = phase, !.cache = cache,
                   !.phase0Tx = phase0Tx, !.flushing = flushing]
    BY DEF epochToCheck
<1>3. /\ phase \in {0, 1} /\ cache \in BOOLEAN /\ flushing \in BOOLEAN
      /\ phase0Tx \in 0..MaxPackets
    BY <1>1
<1>4. phase = 1 <=> \/ pk.flag = "TAIL" /\ (rx.epoch < pk.epoch \/ ~rx.reordering)
                    \/ ~(rx.epoch < pk.epoch) /\ rx.phase = 1
    OBVIOUS
<1>5. /\ cache <=> pk.phase = 0 \/ (rx.cache /\ ~(rx.epoch < pk.epoch))
      /\ pk.phase = 0 => phase0Tx = pk.id
      /\ pk.phase # 0 => phase0Tx = rx.phase0Tx
      /\ flushing <=> IF pk.phase = 0 /\ rx.reordering THEN pk.flag = "TAIL" ELSE rx.flushing
    OBVIOUS
<1> HIDE DEF phase, cache, phase0Tx, flushing
<1>6. /\ epochToCheck(pk) \in
                 [known : BOOLEAN, epoch : 1..MaxPackets, phase : {0, 1}, cache : BOOLEAN,
                  phase0Tx : 0..MaxPackets, reordering : BOOLEAN, flushing : BOOLEAN]
      /\ epochToCheck(pk).known = TRUE /\ epochToCheck(pk).epoch = pk.epoch
      /\ epochToCheck(pk).phase = phase /\ epochToCheck(pk).cache = cache
      /\ epochToCheck(pk).phase0Tx = phase0Tx /\ epochToCheck(pk).flushing = flushing
      /\ epochToCheck(pk).reordering = rx.reordering
    BY <1>1, <1>2, <1>3
<1> QED
    BY <1>4, <1>5, <1>6 DEF Updated

\* The host takes a packet that precedes all that is still to come.
LEMMA OutAppend ==
    ASSUME IInv, NEW pk \in Packet, PacketOK(pk), out' = Append(out, pk.id), voq' = voq,
           sent' = sent, InFlight' \subseteq InFlight,
           \A qk \in InFlight' : pk.id < qk.id,
           \A i \in ToSet(voq) : pk.id < i
    PROVE  OutOK' /\ out' \in Seq(1..MaxPackets)
<1>1. out \in Seq(1..MaxPackets) /\ pk.id \in 1..MaxPackets
    BY DEF IInv, Ranges, Packet
<1>2. ToSet(out') = ToSet(out) \cup {pk.id} /\ out' \in Seq(1..MaxPackets)
    BY <1>1, ToSetAppend
<1>3. pk.id <= sent
    BY DEF PacketOK
<1>4. ASSUME NEW i \in ToSet(out')
      PROVE  i <= sent /\ (\A qk \in InFlight' : i < qk.id) /\ \A j \in ToSet(voq) : i < j
    BY <1>2, <1>3, <1>4 DEF IInv, OutOK
<1> QED
    BY <1>2, <1>4 DEF OutOK

\* What is held back followed the TAIL.
LEMMA VoqElements ==
    ASSUME IInv, NEW i \in ToSet(voq)
    PROVE  tx.tail < i /\ i \in Nat /\ i \in 1..MaxPackets /\ voq # << >>
<1>1. voq \in Seq(1..MaxPackets) /\ tx.tail < i
    BY DEF IInv, VoqOK, Ranges
<1>2. i \in 1..MaxPackets
    BY <1>1, ToSetMember
<1>3. PICK n \in 1..Len(voq) : i = voq[n]
    BY <1>1, ToSetIndices
<1>4. Len(voq) # 0
    BY <1>1, <1>3
<1> QED
    BY <1>1, <1>2, <1>4, ConWeaveAssumption

\* A packet of an earlier epoch overtakes nothing.
LEMMA PassPreviousInv ==
    ASSUME IInv, NEW p \in Path, net[p] # << >>, net' = [net EXCEPT ![p] = Tail(@)],
           tx' = tx, sent' = sent, lost' = lost, PassPrevious(Head(net[p]))
    PROVE  IInv'
<1> DEFINE pk == Head(net[p])
<1>1. /\ rx.epoch > pk.epoch /\ rx' = [rx EXCEPT !.known = TRUE]
      /\ out' = Append(out, pk.id) /\ voq' = voq /\ replies' = replies
    BY DEF PassPrevious
<1>2. /\ net' \in [Path -> Seq(Packet)]
      /\ pk \in Packet /\ PacketOK(pk) /\ tx.known
      /\ InFlight' \subseteq InFlight
      /\ NoOldInFlight => NoOldInFlight'
      /\ \A qk \in InFlight' : qk \in Packet /\ PacketOK(qk)
      /\ \A qk \in InFlight' : pk.id <= tx.tail \/ NoOldInFlight => pk.id < qk.id
      /\ PathsOK'
    BY FirstLeaves
<1> HIDE DEF pk
<1>3. pk.epoch \in Nat /\ rx.epoch \in Nat /\ tx.epoch \in Nat /\ tx.phase \in {0, 1}
      /\ pk.id \in Nat /\ tx.tail \in Nat /\ pk.id > 0
    <2>1. /\ tx.epoch \in 0..MaxPackets /\ tx.phase \in {0, 1} /\ tx.tail \in 0..MaxPackets
          /\ rx.epoch \in 1..MaxPackets /\ rx.phase \in {0, 1}
        BY DEF IInv, Ranges
    <2>2. pk.epoch \in 1..MaxPackets /\ pk.id \in 1..MaxPackets /\ pk.phase \in {0, 1}
        BY <1>2 DEF Packet
    <2> QED
        BY <2>1, <2>2, ConWeaveAssumption
<1>4. rx' = rx
    <2>1. rx.known
        BY <1>1, <1>2, <1>3 DEF IInv, RxOK, conweaveRxState, Packet
    <2> QED
        BY <1>1, <2>1 DEF IInv, Ranges
<1>5. pk.epoch < tx.epoch
    BY <1>1, <1>2, <1>3 DEF IInv, RxOK
<1>6. pk.id <= tx.tail \/ NoOldInFlight
    <2>1. CASE tx.phase = 0
        <3>1. tx.tail = 0 /\ \A qk \in InFlight : qk \in Packet
            BY <2>1, FlightOnPath DEF IInv, TxOK, Ranges
        <3> QED
            BY <3>1 DEF NoOldInFlight, Packet
    <2>2. CASE tx.phase = 1
        BY <1>2, <1>3, <1>5, <2>2 DEF PacketOK
    <2> QED
        BY <1>3, <2>1, <2>2
<1>7. \A i \in ToSet(voq) : pk.id < i
    <2>1. SUFFICES ASSUME NEW i \in ToSet(voq)
                   PROVE  pk.id < i
        OBVIOUS
    <2>2. tx.tail < i /\ i \in Nat /\ voq # << >>
        BY VoqElements
    <2>3. pk.id <= tx.tail
        BY <1>2, <1>3, <1>5, <2>2 DEF IInv, VoqOK, PacketOK
    <2> QED
        BY <1>3, <2>2, <2>3
<1>8. OutOK' /\ out' \in Seq(1..MaxPackets)
    BY <1>1, <1>2, <1>6, <1>7, OutAppend
<1>9. Ranges'
    BY <1>1, <1>2, <1>4, <1>8 DEF IInv, Ranges
<1>10. TxOK'
    BY <1>1, <1>2, <1>4 DEF IInv, TxOK
<1>11. RxOK'
    BY <1>2, <1>4 DEF IInv, RxOK
<1>12. PacketsOK'
    BY <1>2, <1>4 DEF PacketsOK, PacketOK, Settled
<1>13. CacheOK'
    BY <1>2, <1>4 DEF IInv, CacheOK
<1>14. VoqOK'
    BY <1>1, <1>2, <1>4 DEF IInv, VoqOK
<1>15. RepliesOK'
    BY <1>1, <1>2, <1>4 DEF IInv, RepliesOK, ReplyOK
<1> QED
    BY <1>2, <1>8, <1>9, <1>10, <1>11, <1>12, <1>13, <1>14, <1>15 DEF IInv

\* A packet that passes precedes all that is held back or in flight; with the
\* TAIL the old path is empty.
LEMMA PassInOrderInv ==
    ASSUME IInv, NEW p \in Path, net[p] # << >>, net' = [net EXCEPT ![p] = Tail(@)],
           tx' = tx, sent' = sent, lost' = lost, PassInOrder(Head(net[p]))
    PROVE  IInv'
<1> DEFINE pk == Head(net[p])
           new == rx.epoch < pk.epoch
<1>1. /\ rx.epoch <= pk.epoch /\ ~(pk.phase > epochToCheck(pk).phase) /\ rx' = epochToCheck(pk)
      /\ out' = Append(out, pk.id) /\ voq' = voq /\ Answer(pk)
    BY DEF PassInOrder, OutOfOrder
<1>2. /\ net' \in [Path -> Seq(Packet)]
      /\ pk \in Packet /\ pk \in InFlight /\ PacketOK(pk) /\ tx.known
      /\ InFlight' \subseteq InFlight
      /\ NoOldInFlight => NoOldInFlight'
      /\ \A qk \in InFlight' : qk \in Packet /\ PacketOK(qk)
      /\ \A qk \in InFlight' : pk.id <= tx.tail \/ NoOldInFlight => pk.id < qk.id
      /\ PathsOK'
    BY FirstLeaves
<1> HIDE DEF pk
<1>3. /\ pk.epoch \in Nat /\ rx.epoch \in Nat /\ tx.epoch \in Nat /\ tx.phase \in {0, 1}
      /\ pk.id \in Nat /\ tx.tail \in Nat /\ pk.id > 0 /\ pk.phase \in {0, 1}
      /\ rx.phase \in {0, 1}
    <2>1. /\ tx.epoch \in 0..MaxPackets /\ tx.phase \in {0, 1} /\ tx.tail \in 0..MaxPackets
          /\ rx.epoch \in 1..MaxPackets /\ rx.phase \in {0, 1}
        BY DEF IInv, Ranges
    <2>2. pk.epoch \in 1..MaxPackets /\ pk.id \in 1..MaxPackets /\ pk.phase \in {0, 1}
        BY <1>2 DEF Packet
    <2> QED
        BY <2>1, <2>2, ConWeaveAssumption
<1>4. /\ rx' \in [known : BOOLEAN, epoch : 1..MaxPackets, phase : {0, 1}, cache : BOOLEAN,
                  phase0Tx : 0..MaxPackets, reordering : BOOLEAN, flushing : BOOLEAN]
      /\ rx'.known
      /\ rx'.epoch = pk.epoch
      /\ rx'.phase = 1 <=> \/ pk.flag = "TAIL" /\ (new \/ ~rx.reordering)
                           \/ ~new /\ rx.phase = 1
      /\ rx'.cache <=> pk.phase = 0 \/ (rx.cache /\ ~new)
      /\ pk.phase = 0 => rx'.phase0Tx = pk.id
      /\ pk.phase # 0 => rx'.phase0Tx = rx.phase0Tx
      /\ rx'.reordering = rx.reordering
      /\ rx'.flushing <=> IF pk.phase = 0 /\ rx.reordering THEN pk.flag = "TAIL"
                                                         ELSE rx.flushing
    <2>1. Updated(rx', pk)
        BY <1>1, <1>2, EpochToCheckFields DEF IInv
    <2> QED
        BY <2>1 DEF Updated
<1>5. rx.epoch <= tx.epoch /\ pk.epoch <= tx.epoch
    BY <1>2 DEF IInv, RxOK, PacketOK
<1>6. ~new <=> rx.epoch = pk.epoch
    BY <1>1, <1>3
<1> HIDE DEF new
<1>7. pk.phase = 1 => ~new /\ rx.phase = 1
    <2>1. SUFFICES ASSUME pk.phase = 1
                   PROVE  ~new /\ rx.phase = 1
        OBVIOUS
    <2>2. rx'.phase = 1
        BY <1>1, <1>4, <2>1
    <2> QED
        BY <1>2, <1>4, <2>1, <2>2 DEF PacketOK
<1>8. pk.flag = "TAIL" => pk.phase = 0 /\ pk.tail = pk.id /\ pk.tail # 0
    BY <1>2, <1>3 DEF PacketOK
\* Before a packet of the sender's epoch only its TAIL can end phase 0.
<1>9. pk.id <= tx.tail \/ (NoOldInFlight /\ voq = << >>)
    <2>1. CASE tx.phase = 0
        <3>1. tx.tail = 0 /\ (\A qk \in InFlight : qk \in Packet) /\ voq = << >>
            BY <2>1, FlightOnPath DEF IInv, TxOK, VoqOK, Ranges
        <3> QED
            BY <3>1 DEF NoOldInFlight, Packet
    <2>2. CASE tx.phase = 1 /\ tx.tail < pk.id
        <3>1. pk.epoch = tx.epoch /\ pk.phase = 1
            BY <1>2, <2>2 DEF PacketOK
        <3>2. rx.epoch = tx.epoch /\ rx.phase = 1
            BY <1>6, <1>7, <3>1
        <3> QED
            BY <1>2, <3>2 DEF IInv, RxOK, VoqOK
    <2> QED
        BY <1>3, <2>1, <2>2
<1>10. \A i \in ToSet(voq) : pk.id < i
    <2>1. SUFFICES ASSUME NEW i \in ToSet(voq)
                   PROVE  pk.id < i
        OBVIOUS
    <2>2. tx.tail < i /\ i \in Nat /\ voq # << >>
        BY VoqElements
    <2> QED
        BY <1>3, <1>9, <2>2
<1>11. \A qk \in InFlight' : pk.id < qk.id
    BY <1>2, <1>9
<1>12. pk.flag = "TAIL" /\ pk.epoch = tx.epoch => tx.phase = 1 /\ NoOldInFlight'
    <2>1. SUFFICES ASSUME pk.flag = "TAIL", pk.epoch = tx.epoch
                   PROVE  tx.phase = 1 /\ NoOldInFlight'
        OBVIOUS
    <2>2. tx.phase = 1 /\ pk.id = tx.tail
        BY <1>2, <1>8, <2>1 DEF PacketOK
    <2> QED
        BY <1>11, <2>2 DEF NoOldInFlight
<1>13. \A qk \in InFlight' : Settled(qk) => Settled(qk)'
    <2>1. SUFFICES ASSUME NEW qk \in InFlight', Settled(qk)
                   PROVE  Settled(qk)'
        OBVIOUS
    <2>2. qk.epoch \in Nat
        BY <1>2 DEF Packet
    <2>3. CASE rx.epoch > qk.epoch
        BY <1>1, <1>3, <1>4, <2>2, <2>3 DEF Settled
    <2>4. CASE rx.epoch = qk.epoch /\ rx.phase = 1 /\ new
        BY <1>1, <1>3, <1>4, <2>2, <2>4 DEF Settled, new
    <2>5. CASE rx.epoch = qk.epoch /\ rx.phase = 1 /\ ~new
        BY <1>4, <1>6, <2>5 DEF Settled
    <2> QED
        BY <2>1, <2>3, <2>4, <2>5 DEF Settled
<1>14. /\ \A r \in ToSet(replies') : r \in ToSet(replies) \/ (pk.flag # "DATA" /\
                r = [flag |-> pk.flag, epoch |-> pk.epoch])
       /\ replies' \in Seq(Reply)
    <2>1. replies \in Seq(Reply)
        BY DEF IInv, Ranges
    <2>2. CASE pk.flag = "DATA"
        BY <1>1, <2>1, <2>2 DEF Answer
    <2>3. CASE pk.flag # "DATA"
        <3> DEFINE r == [flag |-> pk.flag, epoch |-> pk.epoch]
        <3>1. replies' = Append(replies, r)
            BY <1>1, <2>3 DEF Answer
        <3>2. r \in Reply
            BY <1>2, <2>3 DEF Packet, Reply
        <3> HIDE DEF r
        <3>3. ToSet(replies') = ToSet(replies) \cup {r} /\ replies' \in Seq(Reply)
            BY <2>1, <3>1, <3>2, ToSetAppend
        <3> QED
            BY <2>3, <3>3 DEF r
    <2> QED
        BY <2>2, <2>3
<1>15. OutOK' /\ out' \in Seq(1..MaxPackets)
    BY <1>1, <1>2, <1>10, <1>11, OutAppend
<1>16. Ranges'
    BY <1>1, <1>2, <1>4, <1>14, <1>15 DEF IInv, Ranges
<1>17. TxOK'
    BY <1>2 DEF IInv, TxOK
<1>18. RxOK'
    <2>1. rx'.epoch <= tx.epoch
        BY <1>4, <1>5
    <2>2. rx'.epoch = tx.epoch /\ rx'.phase = 1 => tx.phase = 1 /\ NoOldInFlight'
        <3>1. CASE pk.flag = "TAIL"
            BY <1>4, <1>12, <3>1
        <3>2. CASE pk.flag # "TAIL"
            BY <1>2, <1>4, <1>6, <3>2 DEF IInv, RxOK
        <3> QED
            BY <3>1, <3>2
    <2>3. tx.stabilized => rx'.epoch = tx.epoch /\ rx'.phase = tx.phase
        <3>1. SUFFICES ASSUME tx.stabilized
                       PROVE  rx'.epoch = tx.epoch /\ rx'.phase = tx.phase
            OBVIOUS
        <3>2. rx.epoch = tx.epoch /\ rx.phase = tx.phase
            BY <1>2, <3>1 DEF IInv, RxOK
        <3>3. pk.epoch = tx.epoch /\ ~new
            BY <1>1, <1>3, <1>5, <1>6, <3>2
        <3>4. rx'.phase = 1 <=> rx.phase = 1
            <4>1. pk.flag = "TAIL" => rx.phase = 1
                BY <1>12, <3>2, <3>3
            <4> QED
                BY <1>4, <3>3, <4>1
        <3> QED
            BY <1>3, <1>4, <3>2, <3>3, <3>4
    <2>4. rx'.phase0Tx <= sent
        BY <1>2, <1>4 DEF IInv, RxOK, PacketOK
    <2> QED
        BY <1>2, <1>4, <2>1, <2>2, <2>3, <2>4 DEF RxOK
<1>19. PacketsOK'
    BY <1>2, <1>13 DEF PacketsOK, PacketOK
<1>20. CacheOK'
    <2>1. ASSUME NEW qk \in InFlight', qk.phase = 1, qk.epoch = rx'.epoch, rx'.cache
          PROVE  rx'.phase0Tx <= qk.tail
        <3>1. CASE pk.phase = 0
            BY <1>2, <1>4, <2>1, <3>1 DEF IInv, CacheOK
        <3>2. CASE pk.phase # 0
            BY <1>2, <1>4, <1>6, <2>1, <3>2 DEF IInv, CacheOK
        <3> QED
            BY <3>1, <3>2
    <2>2. \A qk, sk \in InFlight' :
             qk.epoch = sk.epoch /\ qk.phase = 1 /\ sk.phase = 0 => sk.id <= qk.tail
        BY <1>2 DEF IInv, CacheOK
    <2>3. ASSUME rx'.epoch = tx.epoch, tx.phase = 1, rx'.cache
          PROVE  rx'.phase0Tx <= tx.tail
        <3>1. CASE pk.phase = 0
            <4>1. ~(tx.tail < pk.id)
                BY <1>2, <2>3, <3>1 DEF PacketOK
            <4> QED
                BY <1>3, <1>4, <3>1, <4>1
        <3>2. CASE pk.phase # 0
            BY <1>2, <1>4, <1>6, <2>3, <3>2 DEF IInv, CacheOK
        <3> QED
            BY <3>1, <3>2
    <2> QED
        BY <2>1, <2>2, <2>3 DEF CacheOK
<1>21. VoqOK'
    <2>1. rx'.reordering <=> voq' # << >>
        BY <1>1, <1>4 DEF IInv, VoqOK
    <2>2. voq # << >> => /\ rx.epoch = tx.epoch /\ tx.phase = 1 /\ ~tx.stabilized /\ rx.phase = 0
                         /\ pk.epoch = tx.epoch /\ ~new
        <3>1. voq # << >> => rx.epoch = tx.epoch /\ tx.phase = 1 /\ ~tx.stabilized /\ rx.phase = 0
            BY DEF IInv, VoqOK
        <3> QED
            BY <1>1, <1>3, <1>5, <1>6, <3>1
    <2>3. voq # << >> => rx'.phase = 0
        BY <1>4, <2>1, <2>2, <1>1
    <2>4. rx'.flushing => rx'.reordering /\ NoOldInFlight'
        <3>1. CASE rx.flushing
            BY <1>2, <1>4, <3>1 DEF IInv, VoqOK
        <3>2. CASE pk.flag = "TAIL" /\ rx.reordering
            BY <1>1, <1>4, <1>12, <2>1, <2>2, <3>2
        <3> QED
            BY <1>4, <3>1, <3>2
    <2>5. \A i \in ToSet(voq) :
          /\ tx.tail < i /\ i <= sent /\ i \notin lost
          /\ \A qk \in InFlight' : tx.tail < qk.id => i < qk.id
        BY <1>2 DEF IInv, VoqOK
    <2>6. Increasing(voq)
        BY DEF IInv, VoqOK
    <2> QED
        BY <1>1, <1>2, <1>4, <2>1, <2>2, <2>3, <2>4, <2>5, <2>6 DEF VoqOK
<1>22. RepliesOK'
    <2>1. SUFFICES ASSUME NEW r \in ToSet(replies')
                   PROVE  ReplyOK(r)'
        BY DEF RepliesOK
    <2>2. CASE r \in ToSet(replies)
        <3>1. ReplyOK(r)
            BY <2>2 DEF IInv, RepliesOK
        <3>2. r.epoch = tx.epoch => ~new /\ pk.epoch = tx.epoch
            BY <1>1, <1>3, <1>5, <1>6, <3>1 DEF ReplyOK
        <3>3. r.epoch = tx.epoch /\ r.flag = "TAIL" => tx.tail < pk.id /\ tx.phase = 1
            BY <1>2, <3>1 DEF ReplyOK, NoOldInFlight
        <3>4. r.epoch = tx.epoch /\ r.flag = "TAIL" => pk.phase = 1
            BY <1>2, <3>3 DEF PacketOK
        <3>5. r.epoch = tx.epoch /\ r.flag = "TAIL" => rx'.flushing \/ rx'.phase = 1
            BY <1>4, <3>1, <3>2, <3>4 DEF ReplyOK
        <3> QED
            BY <1>2, <1>4, <3>1, <3>2, <3>5 DEF ReplyOK
    <2>3. CASE pk.flag # "DATA" /\ r = [flag |-> pk.flag, epoch |-> pk.epoch]
        <3>1. r.epoch = pk.epoch /\ r.flag = pk.flag
            BY <2>3
        <3>2. pk.flag = "TAIL" => rx'.flushing \/ rx'.phase = 1
            <4>1. CASE rx.reordering
                BY <1>4, <1>8, <4>1
            <4>2. CASE ~rx.reordering
                BY <1>4, <4>2
            <4> QED
                BY <4>1, <4>2
        <3> QED
            BY <1>4, <1>5, <1>12, <3>1, <3>2 DEF ReplyOK
    <2> QED
        BY <1>14, <2>2, <2>3
<1> QED
    BY <1>2, <1>15, <1>16, <1>17, <1>18, <1>19, <1>20, <1>21, <1>22 DEF IInv

\* What is held back is of the sender's epoch and the first on the path in use.
LEMMA HoldBackInv ==
    ASSUME IInv, NEW p \in Path, net[p] # << >>, net' = [net EXCEPT ![p] = Tail(@)],
           tx' = tx, sent' = sent, lost' = lost, HoldBack(Head(net[p]))
    PROVE  IInv'
<1> DEFINE pk == Head(net[p])
           entry == epochToCheck(pk)
<1>1. /\ rx.epoch <= pk.epoch /\ pk.phase > entry.phase
      /\ rx' = [entry EXCEPT !.reordering = TRUE]
      /\ out' = out /\ voq' = Append(voq, pk.id) /\ Answer(pk)
    BY DEF HoldBack, OutOfOrder
<1>2. /\ net' \in [Path -> Seq(Packet)]
      /\ pk \in Packet /\ pk \in InFlight /\ PacketOK(pk) /\ tx.known /\ pk \in OnPath(p)
      /\ InFlight' \subseteq InFlight
      /\ NoOldInFlight => NoOldInFlight'
      /\ \A qk \in InFlight' : qk \in Packet /\ PacketOK(qk)
      /\ PathsOK'
    BY FirstLeaves
<1>3. \A qk \in InFlight' : tx.tail < pk.id /\ tx.tail < qk.id => pk.id < qk.id
    <2>1. net \in [Path -> Seq(Packet)] /\ \A q \in Path : InSendingOrder(net[q])
        BY DEF IInv, Ranges, PathsOK
    <2>2. \A qk \in InFlight' : \E q \in Path : qk \in OnPath(q) /\ (q = p => pk.id < qk.id)
        BY <2>1, NetTail
    <2> HIDE DEF pk
    <2> QED
        BY <1>2, <2>2 DEF IInv, PathsOK
<1>4. Updated(entry, pk)
    BY <1>2, EpochToCheckFields DEF IInv
<1> HIDE DEF pk, entry
<1>5. /\ pk.epoch \in Nat /\ rx.epoch \in Nat /\ tx.epoch \in Nat /\ tx.phase \in {0, 1}
      /\ pk.id \in Nat /\ tx.tail \in Nat /\ pk.id \in 1..MaxPackets /\ pk.phase \in {0, 1}
      /\ rx.phase \in {0, 1} /\ entry.phase \in {0, 1}
    <2>1. /\ tx.epoch \in 0..MaxPackets /\ tx.phase \in {0, 1} /\ tx.tail \in 0..MaxPackets
          /\ rx.epoch \in 1..MaxPackets /\ rx.phase \in {0, 1}
        BY DEF IInv, Ranges
    <2>2. pk.epoch \in 1..MaxPackets /\ pk.id \in 1..MaxPackets /\ pk.phase \in {0, 1}
        BY <1>2 DEF Packet
    <2>3. entry.phase \in {0, 1}
        BY <1>4 DEF Updated
    <2> QED
        BY <2>1, <2>2, <2>3, ConWeaveAssumption
<1>6. pk.phase = 1 /\ entry.phase = 0 /\ pk.flag = "DATA"
    BY <1>1, <1>2, <1>5 DEF PacketOK
<1>7. rx.epoch < pk.epoch \/ rx.phase = 0
    BY <1>4, <1>5, <1>6 DEF Updated
<1>8. /\ pk.epoch = tx.epoch /\ tx.phase = 1 /\ tx.tail < pk.id /\ pk.tail = tx.tail
      /\ rx.epoch <= tx.epoch
    <2>1. ~Settled(pk)
        BY <1>1, <1>5, <1>7 DEF Settled
    <2>2. pk.epoch = tx.epoch
        BY <1>2, <1>5, <1>6, <2>1 DEF PacketOK
    <2>3. pk.tail # 0
        BY <1>2, <1>6 DEF PacketOK
    <2> QED
        BY <1>1, <1>2, <1>6, <2>2, <2>3 DEF PacketOK
<1>9. ~tx.stabilized
    BY <1>2, <1>5, <1>7, <1>8 DEF IInv, RxOK
<1>10. /\ rx' \in [known : BOOLEAN, epoch : 1..MaxPackets, phase : {0, 1}, cache : BOOLEAN,
                  phase0Tx : 0..MaxPackets, reordering : BOOLEAN, flushing : BOOLEAN]
       /\ rx'.known /\ rx'.epoch = tx.epoch /\ rx'.phase = 0 /\ rx'.reordering
       /\ rx'.phase0Tx = rx.phase0Tx
       /\ rx'.cache <=> rx.cache /\ rx.epoch = tx.epoch
       /\ rx'.flushing <=> rx.flushing
    <2>1. /\ entry \in [known : BOOLEAN, epoch : 1..MaxPackets, phase : {0, 1}, cache : BOOLEAN,
                   phase0Tx : 0..MaxPackets, reordering : BOOLEAN, flushing : BOOLEAN]
          /\ entry.known /\ entry.epoch = tx.epoch /\ entry.phase = 0
          /\ entry.phase0Tx = rx.phase0Tx
        BY <1>4, <1>6, <1>8 DEF Updated
    <2>2. entry.cache <=> rx.cache /\ ~(rx.epoch < pk.epoch)
        BY <1>4, <1>6 DEF Updated
    <2>3. entry.flushing <=> rx.flushing
        BY <1>4, <1>6 DEF Updated
    <2>4. ~(rx.epoch < pk.epoch) <=> rx.epoch = tx.epoch
        BY <1>1, <1>5, <1>8
    <2> QED
        BY <1>1, <2>1, <2>2, <2>3, <2>4
<1>11. replies' = replies
    BY <1>1, <1>6 DEF Answer
<1>12. \A qk \in InFlight' : tx.tail < qk.id => pk.id < qk.id
    BY <1>3, <1>8
<1>13. \A i \in ToSet(voq) : i < pk.id
    BY <1>2, <1>8 DEF IInv, VoqOK
<1>14. voq \in Seq(1..MaxPackets) /\ ToSet(voq') = ToSet(voq) \cup {pk.id}
       /\ voq' \in Seq(1..MaxPackets) /\ voq' # << >>
    <2>1. voq \in Seq(1..MaxPackets)
        BY DEF IInv, Ranges
    <2> QED
        BY <1>1, <1>5, <2>1, ToSetAppend
<1>15. Increasing(voq')
    <2>1. /\ Len(voq) \in Nat /\ Len(voq') = Len(voq) + 1
          /\ \A i \in 1..Len(voq) : voq'[i] = voq[i]
          /\ voq'[Len(voq) + 1] = pk.id
        BY <1>1, <1>5, <1>14
    <2>2. \A i \in 1..Len(voq) : voq[i] < pk.id
        BY <1>13, <1>14 DEF ToSet
    <2>3. \A i, j \in 1..Len(voq) : i < j => voq[i] < voq[j]
        BY DEF IInv, VoqOK, Increasing
    <2>4. ASSUME NEW i \in 1..Len(voq) + 1, NEW j \in 1..Len(voq) + 1, i < j
          PROVE  i \in 1..Len(voq) /\ (j \in 1..Len(voq) \/ j = Len(voq) + 1)
        <3>1. Len(voq) \in Nat
            BY <2>1
        <3> QED
            BY <3>1, <2>4
    <2> QED
        BY <2>1, <2>2, <2>3, <2>4 DEF Increasing
<1>16. \A qk \in InFlight' : Settled(qk) => Settled(qk)'
    <2>1. SUFFICES ASSUME NEW qk \in InFlight', Settled(qk)
                   PROVE  Settled(qk)'
        OBVIOUS
    <2>2. qk.epoch \in Nat
        BY <1>2 DEF Packet
    <2>3. rx.epoch > qk.epoch \/ rx.epoch < tx.epoch
        BY <1>1, <1>5, <1>7, <1>8, <2>1 DEF Settled
    <2>4. rx.epoch >= qk.epoch
        BY <1>5, <2>1, <2>2 DEF Settled
    <2> QED
        BY <1>5, <1>8, <1>10, <2>2, <2>3, <2>4 DEF Settled
<1>17. Ranges'
    BY <1>1, <1>2, <1>10, <1>11, <1>14 DEF IInv, Ranges
<1>18. TxOK'
    BY <1>2 DEF IInv, TxOK
<1>19. RxOK'
    <2>1. rx'.epoch <= tx.epoch
        BY <1>5, <1>10
    <2> QED
        BY <1>2, <1>9, <1>10, <2>1 DEF IInv, RxOK
<1>20. PacketsOK'
    BY <1>2, <1>16 DEF PacketsOK, PacketOK
<1>21. CacheOK'
    BY <1>2, <1>10 DEF IInv, CacheOK
<1>22. VoqOK'
    <2>1. rx'.flushing => NoOldInFlight'
        BY <1>2, <1>10 DEF IInv, VoqOK
    <2>2. ASSUME NEW i \in ToSet(voq')
          PROVE  /\ tx.tail < i /\ i <= sent /\ i \notin lost
                 /\ \A qk \in InFlight' : tx.tail < qk.id => i < qk.id
        <3>1. CASE i = pk.id
            BY <1>2, <1>8, <1>12, <3>1 DEF PacketOK
        <3>2. CASE i \in ToSet(voq)
            BY <1>2, <3>2 DEF IInv, VoqOK
        <3> QED
            BY <1>14, <2>2, <3>1, <3>2
    <2> QED
        BY <1>2, <1>8, <1>9, <1>10, <1>14, <1>15, <2>1, <2>2 DEF VoqOK
<1>23. OutOK'
    <2>1. \A i \in ToSet(out) : i < pk.id
        BY <1>2 DEF IInv, OutOK
    <2> QED
        BY <1>1, <1>2, <1>14, <2>1 DEF IInv, OutOK
<1>24. RepliesOK'
    <2>1. SUFFICES ASSUME NEW r \in ToSet(replies)
                   PROVE  ReplyOK(r)'
        BY <1>11 DEF RepliesOK
    <2>2. ReplyOK(r)
        BY DEF IInv, RepliesOK
    <2>3. r.epoch = tx.epoch /\ r.flag = "TAIL" => rx.flushing
        BY <1>1, <1>5, <1>7, <1>8, <2>2 DEF ReplyOK
    <2> QED
        BY <1>2, <1>10, <2>2, <2>3 DEF ReplyOK
<1> QED
    BY <1>2, <1>17, <1>18, <1>19, <1>20, <1>21, <1>22, <1>23, <1>24 DEF IInv

\* Whatever way a packet takes through the Rx ToR, the invariant stays.
LEMMA ReceiveInv ==
    ASSUME IInv, NEW p \in Path, Receive(p)
    PROVE  IInv'
<1>1. /\ net[p] # << >> /\ net' = [net EXCEPT ![p] = Tail(@)]
      /\ tx' = tx /\ sent' = sent /\ lost' = lost
    BY DEF Receive
<1>2. CASE PassPrevious(Head(net[p]))
    BY <1>1, <1>2, PassPreviousInv
<1>3. CASE PassInOrder(Head(net[p]))
    BY <1>1, <1>3, PassInOrderInv
<1>4. CASE HoldBack(Head(net[p]))
    BY <1>1, <1>4, HoldBackInv
<1> QED
    BY <1>2, <1>3, <1>4 DEF Receive

\* The queue is flushed after the TAIL or when nothing sent before its first
\* packet is in flight: the old path is empty.
LEMMA FlushInv ==
    ASSUME IInv, FlushAllImmediately, FlushInTime
    PROVE  IInv' /\ NoOldInFlight
<1>1. /\ voq # << >>
      /\ rx' = [rx EXCEPT !.reordering = FALSE, !.flushing = FALSE, !.phase = 1]
      /\ out' = out \o voq /\ voq' = << >>
      /\ tx' = tx /\ net' = net /\ replies' = replies /\ sent' = sent /\ lost' = lost
    BY DEF FlushAllImmediately
<1>2. /\ rx'.known = rx.known /\ rx'.epoch = rx.epoch /\ rx'.phase = 1 /\ rx'.cache = rx.cache
      /\ rx'.phase0Tx = rx.phase0Tx /\ ~rx'.reordering /\ ~rx'.flushing
    BY <1>1 DEF IInv, Ranges
<1>3. tx.known /\ rx.known /\ rx.epoch = tx.epoch /\ tx.phase = 1 /\ ~tx.stabilized /\ rx.phase = 0
    BY <1>1 DEF IInv, VoqOK
<1>4. InFlight' = InFlight /\ \A p \in Path : OnPath(p)' = OnPath(p)
    BY <1>1 DEF InFlight, OnPath
<1>5. voq \in Seq(1..MaxPackets) /\ out \in Seq(1..MaxPackets)
    BY DEF IInv, Ranges
<1>6. NoOldInFlight
    <2>1. CASE rx.flushing
        BY <2>1 DEF IInv, VoqOK
    <2>2. CASE ~rx.flushing
        <3>1. \A pk \in InFlight : pk.id > Head(voq)
            BY <2>2 DEF FlushInTime, Ids
        <3>2. Head(voq) \in ToSet(voq)
            BY <1>1, <1>5, ToSetTail
        <3>3. tx.tail < Head(voq) /\ Head(voq) \in Nat
            BY <3>2, VoqElements
        <3>4. tx.tail \in 0..MaxPackets /\ \A pk \in InFlight : pk.id \in 1..MaxPackets
            BY FlightOnPath DEF IInv, Ranges, Packet
        <3>5. tx.tail \in Nat /\ \A pk \in InFlight : pk.id \in Nat
            BY <3>4, ConWeaveAssumption
        <3> QED
            BY <3>1, <3>3, <3>5 DEF NoOldInFlight
    <2> QED
        BY <2>1, <2>2
<1>7. NoOldInFlight'
    BY <1>1, <1>4, <1>6 DEF NoOldInFlight
<1>8. out' \in Seq(1..MaxPackets) /\ ToSet(out') = ToSet(out) \cup ToSet(voq)
    BY <1>1, <1>5, ToSetConcat
<1>9. ToSet(voq') = {}
    BY <1>1 DEF ToSet
<1>10. \A pk \in InFlight : PacketOK(pk) => PacketOK(pk)'
    BY <1>1, <1>2, <1>3 DEF PacketOK, Settled
<1>11. Ranges'
    <2>1. rx' \in [known : BOOLEAN, epoch : 1..MaxPackets, phase : {0, 1}, cache : BOOLEAN,
                  phase0Tx : 0..MaxPackets, reordering : BOOLEAN, flushing : BOOLEAN]
        BY <1>1 DEF IInv, Ranges
    <2> QED
        BY <1>1, <1>8, <2>1 DEF IInv, Ranges
<1>12. TxOK'
    BY <1>1, <1>2, <1>3, <1>4 DEF IInv, TxOK
<1>13. RxOK'
    BY <1>1, <1>2, <1>3, <1>7 DEF IInv, RxOK
<1>14. PacketsOK'
    BY <1>4, <1>10 DEF IInv, PacketsOK
<1>15. CacheOK'
    BY <1>1, <1>2, <1>4 DEF IInv, CacheOK
<1>16. PathsOK'
    BY <1>1, <1>4 DEF IInv, PathsOK
<1>17. VoqOK'
    BY <1>1, <1>2, <1>9 DEF VoqOK, Increasing
<1>18. OutOK'
    <2>1. \A i \in ToSet(voq) : i <= sent /\ \A pk \in InFlight : i < pk.id
        BY <1>6 DEF IInv, VoqOK, NoOldInFlight
    <2> QED
        BY <1>1, <1>4, <1>8, <1>9, <2>1 DEF IInv, OutOK
<1>19. RepliesOK'
    BY <1>1, <1>2, <1>7 DEF IInv, RepliesOK, ReplyOK
<1> QED
    BY <1>6, <1>11, <1>12, <1>13, <1>14, <1>15, <1>16, <1>17, <1>18, <1>19 DEF IInv

-----------------------------------------------------------------------------
(* Ageing and loss *)

\* The entries age when nothing is on its way.
LEMMA AgeTxInv ==
    ASSUME IInv, AgeTx, Quiet, ~rx.known
    PROVE  IInv'
<1>1. /\ tx' = conweaveTxState /\ InFlight = {} /\ replies = << >> /\ voq = << >> /\ ~rx.known
      /\ rx' = rx /\ voq' = voq /\ net' = net /\ replies' = replies /\ sent' = sent
      /\ out' = out /\ lost' = lost
    BY DEF AgeTx, Quiet
<1>2. /\ tx' \in [known : BOOLEAN, epoch : 0..MaxPackets, phase : {0, 1},
               path : Path \cup {NoPath}, timer : {"none", "running", "out"},
               stabilized : BOOLEAN, tail : 0..MaxPackets]
      /\ ~tx'.known /\ tx'.epoch = 0 /\ tx'.phase = 0 /\ tx'.tail = 0
    BY <1>1, ConWeaveAssumption DEF conweaveTxState
<1>3. InFlight' = {} /\ \A p \in Path : OnPath(p)' = {}
    <2>1. InFlight' = InFlight
        BY <1>1 DEF InFlight, OnPath
    <2>2. \A p \in Path : OnPath(p)' = OnPath(p)
        BY <1>1 DEF OnPath
    <2> QED
        BY <1>1, <2>1, <2>2 DEF InFlight
<1>4. ToSet(replies') = {} /\ ToSet(voq') = {}
    BY <1>1 DEF ToSet
<1>5. Ranges'
    BY <1>1, <1>2 DEF IInv, Ranges
<1>6. TxOK'
    BY <1>1, <1>2, <1>3 DEF TxOK
<1>7. RxOK'
    BY <1>1, <1>2 DEF IInv, RxOK
<1>8. PacketsOK' /\ CacheOK'
    BY <1>2, <1>3 DEF PacketsOK, CacheOK
<1>9. PathsOK'
    BY <1>1, <1>3 DEF IInv, PathsOK
<1>10. VoqOK'
    BY <1>1, <1>3, <1>4 DEF IInv, VoqOK, NoOldInFlight
<1>11. OutOK'
    BY <1>1, <1>3, <1>4 DEF IInv, OutOK
<1>12. RepliesOK'
    BY <1>4 DEF RepliesOK
<1> QED
    BY <1>5, <1>6, <1>7, <1>8, <1>9, <1>10, <1>11, <1>12 DEF IInv

\* The Rx entry forgets its epoch, which nothing in flight refers to.
LEMMA AgeRxInv ==
    ASSUME IInv, AgeRx, Quiet
    PROVE  IInv'
<1>1. /\ rx' = conweaveRxState /\ InFlight = {} /\ replies = << >> /\ voq = << >> /\ rx.known
      /\ tx' = tx /\ voq' = voq /\ net' = net /\ replies' = replies /\ sent' = sent
      /\ out' = out /\ lost' = lost
    BY DEF AgeRx, Quiet
<1>2. /\ rx' \in [known : BOOLEAN, epoch : 1..MaxPackets, phase : {0, 1}, cache : BOOLEAN,
                  phase0Tx : 0..MaxPackets, reordering : BOOLEAN, flushing : BOOLEAN]
      /\ ~rx'.known /\ rx'.epoch = 1 /\ rx'.phase = 0 /\ ~rx'.cache /\ rx'.phase0Tx = 0
      /\ ~rx'.reordering /\ ~rx'.flushing
    BY <1>1, ConWeaveAssumption DEF conweaveRxState
<1>3. InFlight' = {} /\ \A p \in Path : OnPath(p)' = {}
    <2>1. InFlight' = InFlight
        BY <1>1 DEF InFlight, OnPath
    <2>2. \A p \in Path : OnPath(p)' = OnPath(p)
        BY <1>1 DEF OnPath
    <2> QED
        BY <1>1, <2>1, <2>2 DEF InFlight
<1>4. ToSet(replies') = {} /\ ToSet(voq') = {}
    BY <1>1 DEF ToSet
<1>5. tx.known /\ tx.epoch >= 1
    BY <1>1 DEF IInv, TxOK
<1>6. Ranges'
    BY <1>1, <1>2 DEF IInv, Ranges
<1>7. TxOK'
    BY <1>1, <1>5 DEF IInv, TxOK
<1>8. RxOK'
    <2>1. 1 <= tx.epoch /\ 0 <= sent
        BY <1>5 DEF IInv, Ranges
    <2> QED
        BY <1>1, <1>2, <1>3, <2>1 DEF RxOK
<1>9. PacketsOK' /\ CacheOK'
    BY <1>2, <1>3 DEF PacketsOK, CacheOK
<1>10. PathsOK'
    BY <1>1, <1>3 DEF IInv, PathsOK
<1>11. VoqOK'
    BY <1>1, <1>2, <1>3, <1>4 DEF IInv, VoqOK
<1>12. OutOK'
    BY <1>1, <1>3, <1>4 DEF IInv, OutOK
<1>13. RepliesOK'
    BY <1>4 DEF RepliesOK
<1> QED
    BY <1>6, <1>7, <1>8, <1>9, <1>10, <1>11, <1>12, <1>13 DEF IInv

\* A packet that is dropped was neither dropped nor delivered before.
LEMMA LosePacketInv ==
    ASSUME IInv, NEW p \in Path, LosePacket(p)
    PROVE  /\ IInv'
           /\ Head(net[p]).id \in 1..sent /\ Head(net[p]).id \notin lost
           /\ Head(net[p]).id \notin ToSet(out)
<1> DEFINE pk == Head(net[p])
<1>1. /\ net[p] # << >> /\ net' = [net EXCEPT ![p] = Tail(@)] /\ lost' = lost \cup {pk.id}
      /\ tx' = tx /\ rx' = rx /\ voq' = voq /\ replies' = replies /\ sent' = sent /\ out' = out
    BY DEF LosePacket
<1>2. /\ net' \in [Path -> Seq(Packet)]
      /\ pk \in Packet /\ pk \in InFlight /\ PacketOK(pk) /\ tx.known
      /\ InFlight' \subseteq InFlight
      /\ NoOldInFlight => NoOldInFlight'
      /\ \A qk \in InFlight' : qk \in Packet /\ PacketOK(qk) /\ qk.id # pk.id
      /\ PathsOK'
    BY <1>1, FirstLeaves
<1> HIDE DEF pk
<1>3. pk.id \in 1..sent /\ pk.id \notin lost
    <2>1. pk.id \in 1..MaxPackets /\ pk.id <= sent /\ pk.id \notin lost
        BY <1>2 DEF Packet, PacketOK
    <2> QED
        BY <2>1, ConWeaveAssumption DEF IInv, Ranges
<1>4. pk.id \notin ToSet(out)
    <2>1. \A i \in ToSet(out) : i < pk.id
        BY <1>2 DEF IInv, OutOK
    <2>2. ~(pk.id < pk.id)
        BY <1>3
    <2> QED
        BY <2>1, <2>2
<1>5. pk.id \notin ToSet(voq)
    <2>1. SUFFICES ASSUME pk.id \in ToSet(voq)
                   PROVE  FALSE
        OBVIOUS
    <2>2. tx.tail < pk.id
        BY VoqElements, <2>1
    <2>3. pk.id < pk.id
        BY <1>2, <2>1, <2>2 DEF IInv, VoqOK
    <2> QED
        BY <1>3, <2>3
<1>6. Ranges'
    BY <1>1, <1>2, <1>3 DEF IInv, Ranges
<1>7. TxOK'
    BY <1>1, <1>2 DEF IInv, TxOK
<1>8. RxOK'
    BY <1>1, <1>2 DEF IInv, RxOK
<1>9. PacketsOK'
    BY <1>1, <1>2 DEF PacketsOK, PacketOK, Settled
<1>10. CacheOK'
    BY <1>1, <1>2 DEF IInv, CacheOK
<1>11. VoqOK'
    BY <1>1, <1>2, <1>5 DEF IInv, VoqOK
<1>12. OutOK'
    BY <1>1, <1>2 DEF IInv, OutOK
<1>13. RepliesOK'
    BY <1>1, <1>2 DEF IInv, RepliesOK, ReplyOK
<1> QED
    BY <1>2, <1>3, <1>4, <1>6, <1>7, <1>8, <1>9, <1>10, <1>11, <1>12, <1>13 DEF IInv, pk

\* The loss of a reply leaves the flow unstable, no more.
LEMMA LoseReplyInv ==
    ASSUME IInv, LoseReply
    PROVE  IInv'
<1>1. /\ replies # << >> /\ replies' = Tail(replies) /\ tx' = tx /\ rx' = rx /\ voq' = voq
      /\ net' = net /\ sent' = sent /\ out' = out /\ lost' = lost
    BY DEF LoseReply
<1>2. Tail(replies) \in Seq(Reply) /\ ToSet(Tail(replies)) \subseteq ToSet(replies)
    <2>1. replies \in Seq(Reply)
        BY DEF IInv, Ranges
    <2> QED
        BY <1>1, <2>1, ToSetTail
<1>3. InFlight' = InFlight /\ (NoOldInFlight' <=> NoOldInFlight)
      /\ \A p \in Path : OnPath(p)' = OnPath(p)
    BY <1>1 DEF InFlight, OnPath, NoOldInFlight
<1>4. tx.known
    BY <1>1 DEF IInv, TxOK
<1>5. Ranges'
    BY <1>1, <1>2 DEF IInv, Ranges
<1>6. TxOK'
    BY <1>1, <1>4 DEF IInv, TxOK
<1>7. RxOK'
    BY <1>1, <1>3 DEF IInv, RxOK
<1>8. PacketsOK'
    BY <1>1, <1>3 DEF IInv, PacketsOK, PacketOK, Settled
<1>9. CacheOK'
    BY <1>1, <1>3 DEF IInv, CacheOK
<1>10. PathsOK'
    BY <1>1, <1>3 DEF IInv, PathsOK
<1>11. VoqOK'
    BY <1>1, <1>3 DEF IInv, VoqOK
<1>12. OutOK'
    BY <1>1, <1>3 DEF IInv, OutOK
<1>13. RepliesOK'
    BY <1>1, <1>2, <1>3 DEF IInv, RepliesOK, ReplyOK
<1> QED
    BY <1>5, <1>6, <1>7, <1>8, <1>9, <1>10, <1>11, <1>12, <1>13 DEF IInv

-----------------------------------------------------------------------------
(* Whenever the deadlines fall *)

\* A packet is sent on a path that its entry names: it is later than all others.
LEMMA SendBasic ==
    ASSUME Basic, NEW p \in Path, NEW e \in 1..MaxPackets, NEW ph \in {0, 1},
           NEW f \in {"INIT", "TAIL", "DATA"}, NEW t \in 0..MaxPackets,
           SendOn(p, e, ph, f, t), t = 0 <=> ph = 0 /\ f # "TAIL", t <= sent + 1,
           tx' \in [known : BOOLEAN, epoch : 0..MaxPackets, phase : {0, 1},
               path : Path \cup {NoPath}, timer : {"none", "running", "out"},
               stabilized : BOOLEAN, tail : 0..MaxPackets],
           tx'.known, tx'.path \in Path, tx'.epoch \in 1..sent + 1,
           tx'.phase = 0 => tx'.tail = 0,
           tx'.phase = 1 => tx'.tail \in 1..sent + 1 /\ tx'.timer = "none",
           disturbed' \in BOOLEAN
    PROVE  Basic'
<1> DEFINE nk == Sending(e, ph, f, t)
<1>1. /\ nk \in Packet
      /\ net' \in [Path -> Seq(Packet)]
      /\ OnPath(p)' = OnPath(p) \cup {nk}
      /\ \A q \in Path \ {p} : OnPath(q)' = OnPath(q)
      /\ InFlight' = InFlight \cup {nk}
      /\ \A q \in Path : InSendingOrder(net'[q])
      /\ sent + 1 \in 1..MaxPackets /\ sent' = sent + 1 /\ sent \in Nat
      /\ \A pk \in InFlight : pk.id <= sent /\ pk \in Packet
      /\ rx' = rx /\ voq' = voq /\ replies' = replies /\ out' = out /\ lost' = lost
    <2>1. Ranges /\ (\A q \in Path : InSendingOrder(net[q])) /\ \A pk \in InFlight : pk.id <= sent
        BY DEF Basic, PlacesOK, Shape
    <2> QED
        BY <2>1, SendOnFlight
<1>2. nk.id = sent + 1 /\ nk.phase = ph /\ nk.flag = f /\ nk.tail = t
    BY DEF Sending
<1> HIDE DEF nk
<1>3. Ranges'
    <2>1. lost \subseteq 1..sent
        BY DEF Basic, Ranges
    <2>2. lost' \subseteq 1..sent' /\ sent' \in 0..MaxPackets
        BY <1>1, <2>1
    <2> QED
        BY <1>1, <2>2 DEF Basic, Ranges
<1>4. EntriesOK'
    <2>1. rx.phase0Tx <= sent'
        BY <1>1 DEF Basic, EntriesOK, Ranges
    <2>2. tx'.epoch >= 1 /\ tx'.epoch <= sent'
        BY <1>1
    <2> QED
        BY <1>1, <2>1, <2>2 DEF Basic, EntriesOK
<1>5. \A pk \in InFlight' : Shape(pk)'
    <2>1. SUFFICES ASSUME NEW pk \in InFlight'
                   PROVE  Shape(pk)'
        OBVIOUS
    <2>2. CASE pk \in InFlight
        <3>1. pk.id <= sent'
            BY <1>1, <2>2 DEF Packet
        <3> QED
            BY <2>2, <3>1 DEF Basic, Shape
    <2>3. CASE pk = nk
        <3>1. pk.id <= sent' /\ pk.tail <= pk.id
            BY <1>1, <1>2, <2>3
        <3> QED
            BY <1>2, <2>3, <3>1 DEF Shape
    <2> QED
        BY <1>1, <2>2, <2>3
<1>6. /\ \A pk \in InFlight : pk.id # nk.id
      /\ sent + 1 \notin lost /\ sent + 1 \notin ToSet(out) /\ sent + 1 \notin ToSet(voq)
    <2>1. \A pk \in InFlight : pk.id # sent + 1
        BY <1>1 DEF Packet
    <2>2. sent + 1 \notin lost
        BY <1>1 DEF Basic, Ranges
    <2>3. ~(sent + 1 <= sent)
        BY <1>1
    <2>4. sent + 1 \notin ToSet(out) /\ sent + 1 \notin ToSet(voq)
        BY <2>3 DEF Basic, PlacesOK
    <2> QED
        BY <1>2, <2>1, <2>2, <2>4
<1>7. PlacesOK'
    <2>1. ASSUME NEW q \in Path, NEW u \in Path, NEW pk \in OnPath(q)', NEW qk \in OnPath(u)',
                 pk.id = qk.id
          PROVE  q = u
        <3>1. \A v \in Path : OnPath(v) \subseteq InFlight
            BY DEF InFlight
        <3>2. CASE pk = nk
            <4>1. q = p
                BY <1>1, <1>6, <3>1, <3>2
            <4>2. u = p
                BY <1>1, <1>6, <2>1, <3>1, <3>2
            <4> QED
                BY <4>1, <4>2
        <3>3. CASE qk = nk
            <4>1. u = p
                BY <1>1, <1>6, <3>1, <3>3
            <4>2. q = p
                BY <1>1, <1>6, <2>1, <3>1, <3>3
            <4> QED
                BY <4>1, <4>2
        <3>4. CASE pk # nk /\ qk # nk
            <4>1. pk \in OnPath(q) /\ qk \in OnPath(u)
                BY <1>1, <3>4
            <4> QED
                BY <2>1, <4>1 DEF Basic, PlacesOK
        <3> QED
            BY <3>2, <3>3, <3>4
    <2>2. \A pk \in InFlight' :
             pk.id \notin lost /\ pk.id \notin ToSet(out) /\ pk.id \notin ToSet(voq)
        BY <1>1, <1>2, <1>6 DEF Basic, PlacesOK
    <2>3. \A i \in ToSet(voq) : i <= sent' /\ i \notin lost /\ i \notin ToSet(out)
        <3>1. \A i \in ToSet(voq) : i \in 1..MaxPackets
            <4>1. voq \in Seq(1..MaxPackets)
                BY DEF Basic, Ranges
            <4> QED
                BY <4>1, ToSetMember
        <3> QED
            BY <1>1, <3>1 DEF Basic, PlacesOK
    <2>4. \A i \in ToSet(out) : i <= sent'
        <3>1. \A i \in ToSet(out) : i \in 1..MaxPackets
            <4>1. out \in Seq(1..MaxPackets)
                BY DEF Basic, Ranges
            <4> QED
                BY <4>1, ToSetMember
        <3> QED
            BY <1>1, <3>1 DEF Basic, PlacesOK
    <2>5. Ids(InFlight)' = Ids(InFlight) \cup {sent + 1}
        BY <1>1, <1>2 DEF Ids
    <2>6. ASSUME NEW i \in 1..sent'
          PROVE  i \in Ids(InFlight)' \cup ToSet(voq) \cup ToSet(out) \cup lost
        <3>1. i \in 1..sent \/ i = sent + 1
            BY <1>1
        <3> QED
            BY <2>5, <3>1 DEF Basic, PlacesOK
    <2>7. \A i, j \in 1..Len(voq) : voq[i] = voq[j] => i = j
        BY DEF Basic, PlacesOK
    <2> QED
        BY <1>1, <2>1, <2>2, <2>3, <2>4, <2>6, <2>7 DEF PlacesOK
<1> QED
    BY <1>3, <1>4, <1>5, <1>7 DEF Basic

\* A packet that leaves its path leaves no other with its id.
LEMMA LeaveBasic ==
    ASSUME Ranges, PlacesOK, NEW p \in Path, net[p] # << >>,
           net' = [net EXCEPT ![p] = Tail(@)]
    PROVE  /\ net' \in [Path -> Seq(Packet)]
           /\ Head(net[p]) \in Packet /\ Head(net[p]) \in InFlight
           /\ Ids(InFlight) = Ids(InFlight)' \cup {Head(net[p]).id}
           /\ \A qk \in InFlight' : qk \in InFlight /\ qk.id # Head(net[p]).id
           /\ \A q \in Path : InSendingOrder(net'[q])
           /\ \A q, u \in Path : \A qk \in OnPath(q)', uk \in OnPath(u)' :
                 qk.id = uk.id => q = u
<1> DEFINE pk == Head(net[p])
<1> HIDE DEF pk
<1>1. net \in [Path -> Seq(Packet)] /\ \A q \in Path : InSendingOrder(net[q])
    BY DEF Ranges, PlacesOK
<1>2. /\ net' \in [Path -> Seq(Packet)]
      /\ pk \in Packet /\ pk \in OnPath(p)
      /\ pk \in InFlight
      /\ \A q \in Path : OnPath(q)' \subseteq OnPath(q)
      /\ InFlight = InFlight' \cup {pk}
      /\ \A qk \in InFlight' : \E q \in Path : qk \in OnPath(q) /\ (q = p => pk.id < qk.id)
      /\ \A q \in Path : InSendingOrder(net'[q])
    BY <1>1, NetTail DEF pk
<1>3. ASSUME NEW qk \in InFlight'
      PROVE  qk.id # pk.id
    <2>1. PICK q \in Path : qk \in OnPath(q) /\ (q = p => pk.id < qk.id)
        BY <1>2
    <2>2. pk.id \in 1..MaxPackets
        BY <1>2 DEF Packet
    <2>3. ~(pk.id < pk.id)
        BY <2>2
    <2> QED
        BY <1>2, <2>1, <2>3 DEF PlacesOK
<1>4. Ids(InFlight) = Ids(InFlight)' \cup {pk.id}
    BY <1>2 DEF Ids
<1>5. \A q, u \in Path : \A qk \in OnPath(q)', uk \in OnPath(u)' : qk.id = uk.id => q = u
    BY <1>2 DEF PlacesOK
<1> QED
    BY <1>2, <1>3, <1>4, <1>5 DEF pk

\* Nothing moves: what was sent stays in its place.
LEMMA PlacesUnchanged ==
    ASSUME PlacesOK, \A pk \in InFlight : Shape(pk),
           net' = net, voq' = voq, out' = out, lost' = lost, sent' = sent
    PROVE  PlacesOK' /\ \A pk \in InFlight' : Shape(pk)'
<1>1. InFlight' = InFlight /\ \A p \in Path : OnPath(p)' = OnPath(p)
    BY DEF InFlight, OnPath
<1>2. Ids(InFlight)' = Ids(InFlight)
    BY <1>1 DEF Ids
<1>3. PlacesOK'
    BY <1>1, <1>2 DEF PlacesOK
<1> QED
    BY <1>1, <1>3 DEF Shape

\* A new epoch has its first packet, of phase 0.
LEMMA NewEpochBasic ==
    ASSUME Basic, NEW p \in Path, NewEpoch(p), disturbed' \in BOOLEAN
    PROVE  Basic'
<1> DEFINE e == tx.epoch + 1
<1>1. tx.epoch \in 0..MaxPackets /\ (tx.epoch = 0 \/ tx.epoch <= sent) /\ sent \in Nat
    BY ConWeaveAssumption DEF Basic, Ranges, EntriesOK, conweaveTxState
<1>2. /\ tx' = [known |-> TRUE, epoch |-> e, phase |-> 0, path |-> p,
              timer |-> "running", stabilized |-> FALSE, tail |-> 0]
      /\ SendOn(p, e, 0, "INIT", 0)
    BY DEF NewEpoch
<1>3. e \in 1..MaxPackets /\ e \in 1..sent + 1 /\ 0 <= sent + 1 /\ 0 \in 0..MaxPackets
    <2>1. sent < MaxPackets
        BY <1>2 DEF SendOn
    <2> QED
        BY <1>1, <2>1, ConWeaveAssumption
<1> HIDE DEF e
<1>4. tx' \in [known : BOOLEAN, epoch : 0..MaxPackets, phase : {0, 1},
               path : Path \cup {NoPath}, timer : {"none", "running", "out"},
               stabilized : BOOLEAN, tail : 0..MaxPackets]
    BY <1>2, <1>3
<1>5. tx'.known /\ tx'.path \in Path /\ tx'.epoch = e /\ tx'.phase = 0 /\ tx'.tail = 0
    BY <1>2
<1> QED
    BY <1>2, <1>3, <1>4, <1>5, SendBasic

\* A TAIL carries its own time.
LEMMA SendTailBasic ==
    ASSUME Basic, SendTail
    PROVE  Basic'
<1>1. /\ tx.known /\ SendOn(tx.path, tx.epoch, 0, "TAIL", sent + 1)
      /\ disturbed' = disturbed
    BY DEF SendTail
<1>2. PICK np \in Path : tx' = [tx EXCEPT !.timer = "none", !.phase = 1, !.path = np,
                                          !.tail = sent + 1]
    BY DEF SendTail
<1>3. /\ tx.path \in Path /\ tx.epoch \in 1..MaxPackets /\ tx.epoch \in 1..sent + 1
      /\ sent + 1 \in 1..MaxPackets /\ sent \in Nat
    <2>1. tx.path \in Path /\ tx.epoch >= 1 /\ tx.epoch <= sent
        BY <1>1 DEF Basic, EntriesOK
    <2>2. sent \in 0..MaxPackets /\ tx.epoch \in 0..MaxPackets /\ sent < MaxPackets
        BY <1>1 DEF Basic, Ranges, SendOn
    <2> QED
        BY <2>1, <2>2, ConWeaveAssumption
<1> DEFINE t == sent + 1
<1>4. t \in 0..MaxPackets /\ t # 0 /\ t <= sent + 1 /\ t \in 1..sent + 1
    BY <1>3
<1>5. SendOn(tx.path, tx.epoch, 0, "TAIL", t)
    BY <1>1
<1>6. tx' = [tx EXCEPT !.timer = "none", !.phase = 1, !.path = np, !.tail = t]
    BY <1>2
<1> HIDE DEF t
<1>7. /\ tx' \in [known : BOOLEAN, epoch : 0..MaxPackets, phase : {0, 1},
               path : Path \cup {NoPath}, timer : {"none", "running", "out"},
               stabilized : BOOLEAN, tail : 0..MaxPackets]
      /\ tx'.known /\ tx'.path \in Path /\ tx'.epoch = tx.epoch /\ tx'.phase = 1
      /\ tx'.tail = t /\ tx'.timer = "none"
    BY <1>1, <1>4, <1>6 DEF Basic, Ranges
<1>8. disturbed' \in BOOLEAN
    BY <1>1 DEF Basic
<1>9. PICK p \in Path : p = tx.path
    BY <1>3
<1>10. PICK e \in 1..MaxPackets : e = tx.epoch
    BY <1>3
<1>11. SendOn(p, e, 0, "TAIL", t) /\ tx'.epoch \in 1..sent + 1
    BY <1>3, <1>5, <1>7, <1>9, <1>10
<1> QED
    BY <1>4, <1>7, <1>8, <1>11, SendBasic

\* Any other packet carries what the entry says.
LEMMA SendDataBasic ==
    ASSUME Basic, SendData
    PROVE  Basic'
<1>1. /\ tx.known /\ SendOn(tx.path, tx.epoch, tx.phase, "DATA", tx.tail) /\ tx' = tx
      /\ disturbed' = disturbed
    BY DEF SendData
<1>2. /\ tx.path \in Path /\ tx.epoch \in 1..MaxPackets /\ tx.epoch \in 1..sent + 1
      /\ tx.phase \in {0, 1} /\ tx.tail \in 0..MaxPackets /\ tx.tail <= sent + 1
      /\ tx.tail = 0 <=> tx.phase = 0
      /\ tx.phase = 1 => tx.tail \in 1..sent + 1 /\ tx.timer = "none"
    <2>1. tx.path \in Path /\ tx.epoch >= 1 /\ tx.epoch <= sent
        BY <1>1 DEF Basic, EntriesOK
    <2>2. /\ sent \in 0..MaxPackets /\ tx.epoch \in 0..MaxPackets /\ tx.phase \in {0, 1}
          /\ tx.tail \in 0..MaxPackets
        BY <1>1 DEF Basic, Ranges
    <2>3. /\ tx.phase = 0 => tx.tail = 0
          /\ tx.phase = 1 => tx.tail \in 1..sent /\ tx.timer = "none"
        BY DEF Basic, EntriesOK
    <2> QED
        BY <2>1, <2>2, <2>3, ConWeaveAssumption
<1>3. /\ tx' \in [known : BOOLEAN, epoch : 0..MaxPackets, phase : {0, 1},
               path : Path \cup {NoPath}, timer : {"none", "running", "out"},
               stabilized : BOOLEAN, tail : 0..MaxPackets]
      /\ disturbed' \in BOOLEAN
    BY <1>1 DEF Basic, Ranges
<1>4. PICK p \in Path : p = tx.path
    BY <1>2
<1>5. PICK e \in 1..MaxPackets : e = tx.epoch
    BY <1>2
<1>6. PICK ph \in {0, 1} : ph = tx.phase
    BY <1>2
<1>7. PICK t \in 0..MaxPackets : t = tx.tail
    BY <1>2
<1>8. SendOn(p, e, ph, "DATA", t) /\ (t = 0 <=> ph = 0 /\ "DATA" # "TAIL") /\ t <= sent + 1
    BY <1>1, <1>2, <1>4, <1>5, <1>6, <1>7
<1> QED
    BY <1>1, <1>2, <1>3, <1>8, SendBasic

\* A reply, or its absence, changes the sender's entry only.
LEMMA TxBasic ==
    ASSUME Basic, ReplyDeadline \/ disposeReplyPacket \/ AgeTx \/ LoseReply
    PROVE  Basic'
<1>1. rx' = rx /\ voq' = voq /\ net' = net /\ sent' = sent /\ out' = out /\ lost' = lost
    BY DEF ReplyDeadline, disposeReplyPacket, AgeTx, LoseReply
<1>2. PlacesOK' /\ \A pk \in InFlight' : Shape(pk)'
    BY <1>1, PlacesUnchanged DEF Basic
<1>3. disturbed' \in BOOLEAN
    BY DEF Basic, ReplyDeadline, disposeReplyPacket, AgeTx, LoseReply, Falls
<1>4. replies' \in Seq(Reply)
    <2>1. replies \in Seq(Reply)
        BY DEF Basic, Ranges
    <2> QED
        BY <2>1, ToSetTail DEF ReplyDeadline, disposeReplyPacket, AgeTx, LoseReply
<1>5. /\ tx \in [known : BOOLEAN, epoch : 0..MaxPackets, phase : {0, 1},
               path : Path \cup {NoPath}, timer : {"none", "running", "out"},
               stabilized : BOOLEAN, tail : 0..MaxPackets]
      /\ tx.phase = 0 => tx.tail = 0
      /\ tx.phase = 1 => tx.tail \in 1..sent /\ tx.timer = "none"
      /\ tx.known => tx.path \in Path /\ tx.epoch >= 1 /\ tx.epoch <= sent
      /\ ~tx.known => tx = conweaveTxState
    BY DEF Basic, Ranges, EntriesOK
<1> DEFINE TxFine ==
             /\ tx' \in [known : BOOLEAN, epoch : 0..MaxPackets, phase : {0, 1},
                    path : Path \cup {NoPath}, timer : {"none", "running", "out"},
                    stabilized : BOOLEAN, tail : 0..MaxPackets]
             /\ tx'.phase = 0 => tx'.tail = 0
             /\ tx'.phase = 1 => tx'.tail \in 1..sent /\ tx'.timer = "none"
             /\ tx'.known => tx'.path \in Path /\ tx'.epoch >= 1 /\ tx'.epoch <= sent
             /\ ~tx'.known => tx' = conweaveTxState
<1>6. ASSUME ReplyDeadline
      PROVE  TxFine
    <2>1. tx.timer = "running" /\ tx' = [tx EXCEPT !.timer = "out"]
        BY <1>6 DEF ReplyDeadline
    <2>2. tx.known /\ tx.phase = 0
        BY <1>5, <2>1 DEF conweaveTxState
    <2> QED
        BY <1>5, <2>1, <2>2
<1>7. ASSUME disposeReplyPacket
      PROVE  TxFine
    <2>1. CASE Timely(Head(replies))
        <3>1. tx' = [tx EXCEPT !.stabilized = TRUE, !.timer = "none"] /\ tx.known
            BY <1>7, <2>1 DEF disposeReplyPacket, Timely
        <3> QED
            BY <1>5, <3>1
    <2>2. CASE ~Timely(Head(replies))
        <3>1. tx' = tx
            BY <1>7, <2>2 DEF disposeReplyPacket
        <3> QED
            BY <1>5, <3>1
    <2> QED
        BY <2>1, <2>2
<1>8. ASSUME AgeTx
      PROVE  TxFine
    BY <1>8, ConWeaveAssumption DEF AgeTx, conweaveTxState
<1>9. ASSUME LoseReply
      PROVE  TxFine
    BY <1>5, <1>9 DEF LoseReply
<1>10. TxFine
    BY <1>6, <1>7, <1>8, <1>9
<1>11. Ranges' /\ EntriesOK'
    BY <1>1, <1>4, <1>10 DEF Basic, Ranges, EntriesOK
<1> QED
    BY <1>2, <1>3, <1>11 DEF Basic

\* The receiver's entry goes when nothing is held back.
LEMMA AgeRxBasic ==
    ASSUME Basic, AgeRx
    PROVE  Basic'
<1>1. /\ tx' = tx /\ voq' = voq /\ net' = net /\ sent' = sent /\ out' = out /\ lost' = lost
      /\ replies' = replies /\ rx' = conweaveRxState /\ voq = << >>
    BY DEF AgeRx
<1>2. PlacesOK' /\ \A pk \in InFlight' : Shape(pk)'
    BY <1>1, PlacesUnchanged DEF Basic
<1>3. disturbed' \in BOOLEAN
    BY DEF Basic, AgeRx, Falls
<1>4. /\ rx' \in [known : BOOLEAN, epoch : 1..MaxPackets, phase : {0, 1}, cache : BOOLEAN,
                  phase0Tx : 0..MaxPackets, reordering : BOOLEAN, flushing : BOOLEAN]
      /\ ~rx'.known /\ rx'.phase0Tx = 0 /\ ~rx'.reordering /\ ~rx'.flushing
    BY <1>1, ConWeaveAssumption DEF conweaveRxState
<1>5. Ranges'
    BY <1>1, <1>4 DEF Basic, Ranges
<1>6. EntriesOK'
    <2>1. 0 <= sent
        BY DEF Basic, Ranges
    <2> QED
        BY <1>1, <1>4, <2>1 DEF Basic, EntriesOK
<1> QED
    BY <1>2, <1>3, <1>5, <1>6 DEF Basic

\* A packet leaves its path for the host, for the queue, or for good.
LEMMA MovedBasic ==
    ASSUME Basic, NEW p \in Path, net[p] # << >>, net' = [net EXCEPT ![p] = Tail(@)],
           sent' = sent,
           \/ out' = Append(out, Head(net[p]).id) /\ voq' = voq /\ lost' = lost
           \/ out' = out /\ voq' = Append(voq, Head(net[p]).id) /\ lost' = lost
           \/ out' = out /\ voq' = voq /\ lost' = lost \cup {Head(net[p]).id}
    PROVE  /\ PlacesOK' /\ \A pk \in InFlight' : Shape(pk)'
           /\ net' \in [Path -> Seq(Packet)]
           /\ voq' \in Seq(1..MaxPackets) /\ out' \in Seq(1..MaxPackets)
           /\ lost' \subseteq 1..sent
           /\ Head(net[p]) \in Packet /\ Head(net[p]) \in InFlight
           /\ Head(net[p]).id <= sent
<1> DEFINE pk == Head(net[p])
           n == pk.id
<1>1. /\ net' \in [Path -> Seq(Packet)]
      /\ pk \in Packet /\ pk \in InFlight
      /\ Ids(InFlight) = Ids(InFlight)' \cup {n}
      /\ \A qk \in InFlight' : qk \in InFlight /\ qk.id # n
      /\ \A q \in Path : InSendingOrder(net'[q])
      /\ \A q, u \in Path : \A qk \in OnPath(q)', uk \in OnPath(u)' : qk.id = uk.id => q = u
    BY LeaveBasic DEF Basic
<1> HIDE DEF pk
<1>2. n \in 1..MaxPackets /\ n <= sent /\ sent \in Nat
    BY <1>1, ConWeaveAssumption DEF Packet, Basic, Shape, Ranges
<1>3. n \notin lost /\ n \notin ToSet(out) /\ n \notin ToSet(voq)
    BY <1>1 DEF Basic, PlacesOK
<1>4. /\ voq \in Seq(1..MaxPackets) /\ out \in Seq(1..MaxPackets) /\ lost \subseteq 1..sent
    BY DEF Basic, Ranges
<1>5. \/ out' = Append(out, n) /\ voq' = voq /\ lost' = lost
      \/ out' = out /\ voq' = Append(voq, n) /\ lost' = lost
      \/ out' = out /\ voq' = voq /\ lost' = lost \cup {n}
    BY DEF pk
<1> HIDE DEF n
<1>6. /\ ToSet(Append(out, n)) = ToSet(out) \cup {n} /\ Append(out, n) \in Seq(1..MaxPackets)
      /\ ToSet(Append(voq, n)) = ToSet(voq) \cup {n} /\ Append(voq, n) \in Seq(1..MaxPackets)
    BY <1>2, <1>4, ToSetAppend
<1>7. \A qk \in InFlight' : Shape(qk)'
    BY <1>1 DEF Basic, Shape
<1>8. \A qk \in InFlight' :
          qk.id \notin lost' /\ qk.id \notin ToSet(out') /\ qk.id \notin ToSet(voq')
    BY <1>1, <1>5, <1>6 DEF Basic, PlacesOK
<1>9. /\ \A i \in ToSet(voq') : i <= sent /\ i \notin lost' /\ i \notin ToSet(out')
      /\ \A i \in ToSet(out') : i <= sent
    BY <1>2, <1>3, <1>5, <1>6 DEF Basic, PlacesOK
<1>10. ASSUME NEW i \in 1..Len(voq'), NEW j \in 1..Len(voq'), voq'[i] = voq'[j]
       PROVE  i = j
    <2>1. \A k, m \in 1..Len(voq) : voq[k] = voq[m] => k = m
        BY DEF Basic, PlacesOK
    <2>2. CASE voq' = voq
        BY <1>10, <2>1, <2>2
    <2>3. CASE voq' = Append(voq, n)
        <3>1. /\ Len(voq) \in Nat /\ Len(voq') = Len(voq) + 1
              /\ \A k \in 1..Len(voq) : voq'[k] = voq[k] /\ voq[k] # n
              /\ voq'[Len(voq) + 1] = n
            BY <1>2, <1>3, <1>4, <2>3 DEF ToSet
        <3>2. i \in 1..Len(voq) \/ i = Len(voq) + 1
            BY <3>1
        <3>3. j \in 1..Len(voq) \/ j = Len(voq) + 1
            BY <3>1
        <3> QED
            BY <1>10, <2>1, <3>1, <3>2, <3>3
    <2> QED
        BY <1>5, <2>2, <2>3
<1>11. \A i \in 1..sent : i \in Ids(InFlight)' \cup ToSet(voq') \cup ToSet(out') \cup lost'
    BY <1>1, <1>5, <1>6 DEF Basic, PlacesOK
<1>12. PlacesOK'
    BY <1>1, <1>8, <1>9, <1>10, <1>11 DEF PlacesOK
<1>13. voq' \in Seq(1..MaxPackets) /\ out' \in Seq(1..MaxPackets) /\ lost' \subseteq 1..sent
    <2>1. lost \cup {n} \subseteq 1..sent
        <3>1. n \in 1..sent
            BY <1>2
        <3> QED
            BY <1>4, <3>1
    <2>2. voq' \in Seq(1..MaxPackets) /\ out' \in Seq(1..MaxPackets)
        <3>1. voq' \in {voq, Append(voq, n)} /\ out' \in {out, Append(out, n)}
            BY <1>5
        <3> QED
            BY <1>4, <1>6, <3>1
    <2>3. lost' \subseteq 1..sent
        BY <1>4, <1>5, <2>1
    <2> QED
        BY <2>2, <2>3
<1> QED
    BY <1>1, <1>2, <1>7, <1>12, <1>13 DEF pk, n

\* A packet that arrives goes to the host or to the queue.
LEMMA ReceiveBasic ==
    ASSUME Basic, NEW p \in Path, Receive(p)
    PROVE  /\ Basic'
           /\ Head(net[p]) \in InFlight
           /\ out' = Append(out, Head(net[p]).id) \/ out' = out
<1> DEFINE pk == Head(net[p])
<1>1. /\ net[p] # << >> /\ net' = [net EXCEPT ![p] = Tail(@)]
      /\ tx' = tx /\ sent' = sent /\ lost' = lost /\ disturbed' = disturbed
      /\ PassPrevious(pk) \/ PassInOrder(pk) \/ HoldBack(pk)
    BY DEF Receive
<1>2. \/ out' = Append(out, pk.id) /\ voq' = voq /\ lost' = lost
      \/ out' = out /\ voq' = Append(voq, pk.id) /\ lost' = lost
    BY <1>1 DEF PassPrevious, PassInOrder, HoldBack
<1>3. /\ PlacesOK' /\ \A qk \in InFlight' : Shape(qk)'
      /\ net' \in [Path -> Seq(Packet)]
      /\ voq' \in Seq(1..MaxPackets) /\ out' \in Seq(1..MaxPackets)
      /\ pk \in Packet /\ pk \in InFlight /\ pk.id <= sent
    BY <1>1, <1>2, MovedBasic
<1> HIDE DEF pk
<1>4. /\ rx \in [known : BOOLEAN, epoch : 1..MaxPackets, phase : {0, 1}, cache : BOOLEAN,
                  phase0Tx : 0..MaxPackets, reordering : BOOLEAN, flushing : BOOLEAN]
      /\ rx.phase0Tx <= sent /\ (rx.reordering <=> voq # << >>)
      /\ rx.flushing => rx.reordering
      /\ voq \in Seq(1..MaxPackets) /\ replies \in Seq(Reply)
    BY DEF Basic, Ranges, EntriesOK
<1>5. Updated(epochToCheck(pk), pk)
    BY <1>3, EpochToCheckFields DEF Basic
<1> DEFINE RxFine ==
             /\ rx' \in [known : BOOLEAN, epoch : 1..MaxPackets, phase : {0, 1}, cache : BOOLEAN,
                     phase0Tx : 0..MaxPackets, reordering : BOOLEAN, flushing : BOOLEAN]
             /\ rx'.known /\ rx'.phase0Tx <= sent
             /\ rx'.reordering <=> voq' # << >>
             /\ rx'.flushing => rx'.reordering
             /\ replies' \in Seq(Reply)
<1>6. ASSUME Answer(pk)
      PROVE  replies' \in Seq(Reply)
    <2>1. CASE pk.flag = "DATA"
        BY <1>4, <1>6, <2>1 DEF Answer
    <2>2. CASE pk.flag # "DATA"
        <3> DEFINE r == [flag |-> pk.flag, epoch |-> pk.epoch]
        <3>1. replies' = Append(replies, r)
            BY <1>6, <2>2 DEF Answer
        <3>2. r \in Reply
            BY <1>3, <2>2 DEF Packet, Reply
        <3> HIDE DEF r
        <3> QED
            BY <1>4, <3>1, <3>2
    <2> QED
        BY <2>1, <2>2
<1>7. ASSUME PassPrevious(pk)
      PROVE  RxFine
    <2>1. rx' = [rx EXCEPT !.known = TRUE] /\ voq' = voq /\ replies' = replies
        BY <1>7 DEF PassPrevious
    <2> QED
        BY <1>4, <2>1
<1>8. ASSUME PassInOrder(pk)
      PROVE  RxFine
    <2>1. rx' = epochToCheck(pk) /\ voq' = voq /\ replies' \in Seq(Reply)
        BY <1>6, <1>8 DEF PassInOrder
    <2>2. Updated(rx', pk)
        BY <1>5, <2>1
    <2>3. pk.phase \in {0, 1}
        BY <1>3 DEF Packet
    <2> QED
        BY <1>3, <1>4, <2>1, <2>2, <2>3 DEF Updated
<1>9. ASSUME HoldBack(pk)
      PROVE  RxFine
    <2>1. /\ rx' = [epochToCheck(pk) EXCEPT !.reordering = TRUE]
          /\ voq' = Append(voq, pk.id) /\ replies' \in Seq(Reply)
        BY <1>6, <1>9 DEF HoldBack
    <2>2. voq' # << >>
        BY <1>4, <2>1
    <2>3. pk.phase \in {0, 1}
        BY <1>3 DEF Packet
    <2> DEFINE entry == epochToCheck(pk)
    <2> HIDE DEF entry
    <2>4. Updated(entry, pk) /\ rx' = [entry EXCEPT !.reordering = TRUE]
        BY <1>5, <2>1 DEF entry
    <2>5. /\ entry \in [known : BOOLEAN, epoch : 1..MaxPackets, phase : {0, 1}, cache : BOOLEAN,
                     phase0Tx : 0..MaxPackets, reordering : BOOLEAN, flushing : BOOLEAN]
          /\ entry.known /\ entry.phase0Tx <= sent
        BY <1>3, <1>4, <2>3, <2>4 DEF Updated
    <2> QED
        BY <2>1, <2>2, <2>4, <2>5
<1>10. RxFine
    BY <1>1, <1>7, <1>8, <1>9 DEF pk
<1>11. Ranges' /\ EntriesOK'
    BY <1>1, <1>3, <1>10 DEF Basic, Ranges, EntriesOK
<1> QED
    BY <1>1, <1>2, <1>3, <1>11 DEF Basic, pk

\* A packet that is dropped was neither dropped nor delivered before.
LEMMA LosePacketBasic ==
    ASSUME Basic, NEW p \in Path, LosePacket(p)
    PROVE  /\ Basic'
           /\ Head(net[p]).id \in 1..sent /\ Head(net[p]).id \notin lost
           /\ Head(net[p]).id \notin ToSet(out)
<1> DEFINE pk == Head(net[p])
<1>1. /\ net[p] # << >> /\ net' = [net EXCEPT ![p] = Tail(@)]
      /\ tx' = tx /\ rx' = rx /\ voq' = voq /\ replies' = replies /\ sent' = sent
      /\ out' = out /\ disturbed' = disturbed /\ lost' = lost \cup {pk.id}
    BY DEF LosePacket
<1>2. /\ PlacesOK' /\ \A qk \in InFlight' : Shape(qk)'
      /\ net' \in [Path -> Seq(Packet)] /\ lost' \subseteq 1..sent
      /\ pk \in Packet /\ pk \in InFlight /\ pk.id <= sent
    BY <1>1, MovedBasic
<1> HIDE DEF pk
<1>3. Ranges' /\ EntriesOK'
    BY <1>1, <1>2 DEF Basic, Ranges, EntriesOK
<1>4. pk.id \in 1..sent /\ pk.id \notin lost /\ pk.id \notin ToSet(out)
    <2>1. pk.id \in lost'
        BY <1>1
    <2> QED
        BY <1>2, <2>1 DEF Basic, PlacesOK
<1> QED
    BY <1>1, <1>2, <1>3, <1>4 DEF Basic, pk

\* What is held back goes to the host together.
LEMMA FlushBasic ==
    ASSUME Basic, FlushAllImmediately
    PROVE  Basic'
<1>1. /\ voq # << >>
      /\ rx' = [rx EXCEPT !.reordering = FALSE, !.flushing = FALSE, !.phase = 1]
      /\ out' = out \o voq /\ voq' = << >>
      /\ tx' = tx /\ net' = net /\ replies' = replies /\ sent' = sent /\ lost' = lost
    BY DEF FlushAllImmediately
<1>2. disturbed' \in BOOLEAN
    BY DEF Basic, FlushAllImmediately, Falls
<1>3. voq \in Seq(1..MaxPackets) /\ out \in Seq(1..MaxPackets)
    BY DEF Basic, Ranges
<1>4. out' \in Seq(1..MaxPackets) /\ ToSet(out') = ToSet(out) \cup ToSet(voq)
    BY <1>1, <1>3, ToSetConcat
<1>5. ToSet(voq') = {} /\ Len(voq') = 0
    BY <1>1 DEF ToSet
<1>6. /\ rx' \in [known : BOOLEAN, epoch : 1..MaxPackets, phase : {0, 1}, cache : BOOLEAN,
                  phase0Tx : 0..MaxPackets, reordering : BOOLEAN, flushing : BOOLEAN]
      /\ rx'.known = rx.known /\ rx'.phase0Tx = rx.phase0Tx /\ ~rx'.reordering /\ ~rx'.flushing
    BY <1>1 DEF Basic, Ranges
<1>7. rx.known
    BY <1>1 DEF Basic, EntriesOK, conweaveRxState
<1>8. Ranges'
    BY <1>1, <1>4, <1>6 DEF Basic, Ranges
<1>9. EntriesOK'
    BY <1>1, <1>6, <1>7 DEF Basic, EntriesOK
<1>10. InFlight' = InFlight /\ \A p \in Path : OnPath(p)' = OnPath(p)
    BY <1>1 DEF InFlight, OnPath
<1>11. \A pk \in InFlight' : Shape(pk)'
    BY <1>1, <1>10 DEF Basic, Shape
<1>12. PlacesOK'
    <2>1. Ids(InFlight)' = Ids(InFlight)
        BY <1>10 DEF Ids
    <2>2. \A i, j \in 1..Len(voq') : i = j
        BY <1>5
    <2> QED
        BY <1>1, <1>4, <1>5, <1>10, <2>1, <2>2 DEF Basic, PlacesOK
<1> QED
    BY <1>2, <1>8, <1>9, <1>11, <1>12 DEF Basic

\* With nothing on its way and a receiver that is behind, a new epoch undoes all
\* that a disturbance has left.
LEMMA AnewInv ==
    ASSUME Basic, BeginsAnew, NEW p \in Path, NewEpoch(p)
    PROVE  IInv'
<1> DEFINE e == tx.epoch + 1
           nk == Sending(e, 0, "INIT", 0)
<1> USE ConWeaveAssumption
<1>1. /\ InFlight = {} /\ voq = << >> /\ replies = << >>
      /\ rx.known => rx.epoch <= tx.epoch
    BY DEF BeginsAnew, Quiet
<1>2. /\ tx.epoch \in 0..MaxPackets /\ (tx.epoch = 0 \/ tx.epoch <= sent) /\ sent \in Nat
      /\ rx.epoch \in 1..MaxPackets /\ rx.phase \in {0, 1} /\ rx.phase0Tx \in 0..MaxPackets
    BY DEF Basic, Ranges, EntriesOK, conweaveTxState
<1>3. /\ tx' = [known |-> TRUE, epoch |-> e, phase |-> 0, path |-> p,
              timer |-> "running", stabilized |-> FALSE, tail |-> 0]
      /\ SendOn(p, e, 0, "INIT", 0)
    BY DEF NewEpoch
<1>4. e \in 1..MaxPackets /\ e <= sent + 1
    <2>1. sent < MaxPackets
        BY <1>3 DEF SendOn
    <2> QED
        BY <1>2, <2>1
<1>5. /\ nk \in Packet
      /\ net' \in [Path -> Seq(Packet)]
      /\ OnPath(p)' = OnPath(p) \cup {nk}
      /\ \A q \in Path \ {p} : OnPath(q)' = OnPath(q)
      /\ InFlight' = InFlight \cup {nk}
      /\ \A q \in Path : InSendingOrder(net'[q])
      /\ sent + 1 \in 1..MaxPackets /\ sent' = sent + 1
      /\ rx' = rx /\ voq' = voq /\ replies' = replies /\ out' = out /\ lost' = lost
    <2>1. Ranges /\ (\A q \in Path : InSendingOrder(net[q])) /\ \A pk \in InFlight : pk.id <= sent
        BY DEF Basic, PlacesOK, Shape
    <2>2. 0 \in 0..MaxPackets /\ 0 \in {0, 1} /\ "INIT" \in {"INIT", "TAIL", "DATA"}
        OBVIOUS
    <2> HIDE DEF e
    <2> QED
        BY <1>3, <1>4, <2>1, <2>2, SendOnFlight
<1>6. nk.id = sent + 1 /\ nk.epoch = e /\ nk.phase = 0 /\ nk.flag = "INIT" /\ nk.tail = 0
    BY DEF Sending
<1>7. e = tx.epoch + 1
    OBVIOUS
<1> HIDE DEF nk, e
<1>8. /\ tx'.known /\ tx'.epoch = e /\ tx'.phase = 0 /\ tx'.path = p
      /\ tx'.timer = "running" /\ tx'.stabilized = FALSE /\ tx'.tail = 0
    BY <1>3
<1>9. InFlight' = {nk} /\ \A q \in Path : \A pk \in OnPath(q)' : q = p /\ pk = nk
    <2>1. \A q \in Path : OnPath(q) = {}
        BY <1>1 DEF InFlight
    <2> QED
        BY <1>1, <1>5, <2>1
<1>10. rx.epoch <= e /\ ~(rx.epoch = e /\ rx.phase = 1)
    <2>1. CASE rx.known
        BY <1>1, <1>2, <1>7, <2>1
    <2>2. CASE ~rx.known
        <3>1. rx.epoch = 1 /\ rx.phase = 0
            BY <2>2 DEF Basic, EntriesOK, conweaveRxState
        <3> QED
            BY <1>2, <1>4, <3>1
    <2> QED
        BY <2>1, <2>2
<1>11. ToSet(voq) = {} /\ ToSet(replies) = {} /\ Len(voq) = 0
    BY <1>1 DEF ToSet
<1>12. lost \subseteq 1..sent /\ ~(sent + 1 <= sent)
    BY <1>2 DEF Basic, Ranges
<1>13. Ranges'
    <2>1. tx' \in [known : BOOLEAN, epoch : 0..MaxPackets, phase : {0, 1},
               path : Path \cup {NoPath}, timer : {"none", "running", "out"},
               stabilized : BOOLEAN, tail : 0..MaxPackets]
        BY <1>3, <1>4
    <2>2. lost' \subseteq 1..sent' /\ sent' \in 0..MaxPackets
        BY <1>2, <1>5, <1>12
    <2> QED
        BY <1>5, <2>1, <2>2 DEF Basic, Ranges
<1>14. TxOK'
    <2>1. e >= 1 /\ e <= sent'
        BY <1>4, <1>5
    <2> QED
        BY <1>8, <2>1 DEF TxOK
<1>15. RxOK'
    <2>1. rx.phase0Tx <= sent'
        BY <1>2, <1>5 DEF Basic, EntriesOK
    <2>2. ~rx.known => rx = conweaveRxState
        BY DEF Basic, EntriesOK
    <2> QED
        BY <1>5, <1>8, <1>10, <2>1, <2>2 DEF RxOK
<1>16. PacketsOK'
    <2>1. SUFFICES ASSUME NEW pk \in InFlight'
                   PROVE  PacketOK(pk)'
        BY DEF PacketsOK
    <2>2. pk = nk
        BY <1>9
    <2>3. sent + 1 <= sent' /\ sent + 1 \notin lost /\ 0 < sent + 1 /\ e <= e /\ ~(e < e)
        BY <1>2, <1>4, <1>5, <1>12
    <2> QED
        BY <1>5, <1>6, <1>8, <2>2, <2>3 DEF PacketOK
<1>17. CacheOK'
    BY <1>6, <1>8, <1>9 DEF CacheOK
<1>18. PathsOK'
    BY <1>5, <1>8, <1>9 DEF PathsOK
<1>19. VoqOK'
    <2>1. ~rx.reordering /\ ~rx.flushing
        BY <1>1 DEF Basic, EntriesOK
    <2> QED
        BY <1>1, <1>5, <1>11, <2>1 DEF VoqOK, Increasing
<1>20. OutOK'
    <2>1. ASSUME NEW i \in ToSet(out)
          PROVE  i <= sent + 1 /\ i < sent + 1
        <3>1. i <= sent
            BY DEF Basic, PlacesOK
        <3>2. i \in 1..MaxPackets
            <4>1. out \in Seq(1..MaxPackets)
                BY DEF Basic, Ranges
            <4> QED
                BY <4>1, ToSetMember
        <3> QED
            BY <1>2, <3>1, <3>2
    <2> QED
        BY <1>5, <1>6, <1>9, <1>11, <2>1 DEF OutOK
<1>21. RepliesOK'
    BY <1>5, <1>11 DEF RepliesOK
<1> QED
    BY <1>13, <1>14, <1>15, <1>16, <1>17, <1>18, <1>19, <1>20, <1>21 DEF IInv

-----------------------------------------------------------------------------
(* The theorems *)

\* At first nothing is sent.
LEMMA InitInv == Init => Inv
<1> SUFFICES ASSUME Init
             PROVE  Inv
    OBVIOUS
<1>1. /\ tx = conweaveTxState /\ rx = conweaveRxState /\ voq = << >> /\ replies = << >>
      /\ sent = 0 /\ out = << >> /\ lost = {} /\ \A p \in Path : net[p] = << >>
      /\ net \in [Path -> Seq(Packet)]
    BY DEF Init
<1>2. /\ tx \in [known : BOOLEAN, epoch : 0..MaxPackets, phase : {0, 1},
               path : Path \cup {NoPath}, timer : {"none", "running", "out"},
               stabilized : BOOLEAN, tail : 0..MaxPackets]
      /\ ~tx.known /\ tx.epoch = 0 /\ tx.phase = 0 /\ tx.tail = 0
    BY <1>1, ConWeaveAssumption DEF conweaveTxState
<1>3. /\ rx \in [known : BOOLEAN, epoch : 1..MaxPackets, phase : {0, 1}, cache : BOOLEAN,
                  phase0Tx : 0..MaxPackets, reordering : BOOLEAN, flushing : BOOLEAN]
      /\ ~rx.known /\ rx.epoch = 1 /\ rx.phase = 0 /\ ~rx.cache /\ rx.phase0Tx = 0
      /\ ~rx.reordering /\ ~rx.flushing
    BY <1>1, ConWeaveAssumption DEF conweaveRxState
<1>4. \A p \in Path : OnPath(p) = {}
    BY <1>1 DEF OnPath, ToSet
<1>5. InFlight = {}
    BY <1>4 DEF InFlight
<1>6. ToSet(voq) = {} /\ ToSet(out) = {} /\ ToSet(replies) = {}
    BY <1>1 DEF ToSet
<1>7. Ranges
    BY <1>1, <1>2, <1>3, ConWeaveAssumption DEF Ranges
<1>8. TxOK /\ RxOK
    BY <1>1, <1>2, <1>3, <1>5 DEF TxOK, RxOK
<1>9. PacketsOK /\ CacheOK
    BY <1>2, <1>5 DEF PacketsOK, CacheOK
<1>10. PathsOK
    BY <1>1, <1>4 DEF PathsOK, InSendingOrder
<1>11. VoqOK
    BY <1>1, <1>3, <1>6 DEF VoqOK, Increasing
<1>12. OutOK /\ RepliesOK
    BY <1>6 DEF OutOK, RepliesOK
<1>13. IInv
    BY <1>7, <1>8, <1>9, <1>10, <1>11, <1>12 DEF IInv
<1>14. EntriesOK
    BY <1>1, <1>2, <1>3, ConWeaveAssumption DEF EntriesOK
<1>15. PlacesOK
    <2>1. 1..sent = {} /\ Len(voq) = 0
        BY <1>1
    <2> QED
        BY <1>4, <1>5, <1>6, <1>10, <2>1 DEF PlacesOK, PathsOK
<1>16. disturbed \in BOOLEAN
    BY DEF Init
<1> QED
    BY <1>5, <1>7, <1>13, <1>14, <1>15, <1>16 DEF Inv, Basic

\* Every step keeps what holds of a disturbed flow.
LEMMA NextBasic ==
    ASSUME Basic, [Next]_vars
    PROVE  Basic'
<1>1. CASE SendExpired
    <2>1. PICK p \in Path : NewEpoch(p)
        BY <1>1 DEF SendExpired
    <2>2. disturbed' \in BOOLEAN
        BY <1>1 DEF Basic, SendExpired, Falls
    <2> QED
        BY <2>1, <2>2, NewEpochBasic
<1>2. CASE SendStabilized
    <2>1. tx.path \in Path /\ NewEpoch(tx.path)
        BY <1>2 DEF SendStabilized, Basic, EntriesOK
    <2>2. PICK p \in Path : p = tx.path
        BY <2>1
    <2>3. disturbed' \in BOOLEAN
        BY <1>2 DEF Basic, SendStabilized
    <2> QED
        BY <2>1, <2>2, <2>3, NewEpochBasic
<1>3. CASE SendTail
    BY <1>3, SendTailBasic
<1>4. CASE SendData
    BY <1>4, SendDataBasic
<1>5. CASE ReplyDeadline \/ disposeReplyPacket \/ AgeTx \/ LoseReply
    BY <1>5, TxBasic
<1>6. ASSUME NEW p \in Path, Receive(p)
      PROVE  Basic'
    BY <1>6, ReceiveBasic
<1>7. ASSUME NEW p \in Path, LosePacket(p)
      PROVE  Basic'
    BY <1>7, LosePacketBasic
<1>8. CASE FlushAllImmediately
    BY <1>8, FlushBasic
<1>9. CASE AgeRx
    BY <1>9, AgeRxBasic
<1>10. CASE UNCHANGED vars
    <2>1. /\ tx' = tx /\ rx' = rx /\ voq' = voq /\ net' = net /\ replies' = replies
          /\ sent' = sent /\ out' = out /\ lost' = lost /\ disturbed' = disturbed
        BY <1>10 DEF vars
    <2>2. PlacesOK' /\ \A pk \in InFlight' : Shape(pk)'
        BY <2>1, PlacesUnchanged DEF Basic
    <2>3. Ranges' /\ EntriesOK'
        BY <2>1 DEF Basic, Ranges, EntriesOK
    <2> QED
        BY <2>1, <2>2, <2>3 DEF Basic
<1> QED
    BY <1>1, <1>2, <1>3, <1>4, <1>5, <1>6, <1>7, <1>8, <1>9, <1>10 DEF Next, Send

\* A step that leaves the flow undisturbed keeps the rest too, or begins anew.
LEMMA NextInv ==
    ASSUME Inv, [Next]_vars
    PROVE  Inv'
<1>1. Basic' /\ Basic
    BY NextBasic DEF Inv
<1>2. SUFFICES ASSUME ~disturbed'
               PROVE  IInv'
    BY <1>1 DEF Inv
<1>3. disturbed = FALSE \/ disturbed = TRUE
    BY <1>1 DEF Basic
<1>4. CASE SendExpired
    <2>1. PICK p \in Path : NewEpoch(p)
        BY <1>4 DEF SendExpired
    <2>2. CASE BeginsAnew
        BY <1>1, <2>1, <2>2, AnewInv
    <2>3. CASE ~BeginsAnew
        <3>1. ~disturbed /\ (~tx.known \/ (InFlight = {} /\ voq = << >>))
            BY <1>2, <1>4, <2>3 DEF SendExpired, Falls
        <3> QED
            BY <2>1, <3>1, NewEpochInv DEF Inv
    <2> QED
        BY <2>2, <2>3
<1>5. CASE SendStabilized
    <2>1. tx.known /\ tx.stabilized /\ tx.path \in Path /\ NewEpoch(tx.path)
        BY <1>1, <1>5 DEF SendStabilized, Basic, EntriesOK
    <2>2. PICK p \in Path : p = tx.path
        BY <2>1
    <2>3. CASE BeginsAnew
        BY <1>1, <2>1, <2>2, <2>3, AnewInv
    <2>4. CASE ~BeginsAnew
        <3>1. ~disturbed
            BY <1>2, <1>5, <2>4 DEF SendStabilized
        <3> QED
            BY <2>1, <2>2, <3>1, NewEpochInv DEF Inv
    <2> QED
        BY <2>3, <2>4
<1>6. CASE SendTail
    <2>1. ~disturbed
        BY <1>2, <1>6 DEF SendTail
    <2> QED
        BY <1>6, <2>1, SendTailInv DEF Inv
<1>7. CASE SendData
    <2>1. ~disturbed
        BY <1>2, <1>7 DEF SendData
    <2> QED
        BY <1>7, <2>1, SendDataInv DEF Inv
<1>8. CASE ReplyDeadline
    <2>1. ~disturbed
        BY <1>2, <1>8 DEF ReplyDeadline
    <2> QED
        BY <1>8, <2>1, ReplyDeadlineInv DEF Inv
<1>9. CASE disposeReplyPacket
    <2>1. ~disturbed
        BY <1>2, <1>9 DEF disposeReplyPacket
    <2> QED
        BY <1>9, <2>1, DisposeReplyInv DEF Inv
<1>10. ASSUME NEW p \in Path, Receive(p)
       PROVE  IInv'
    <2>1. ~disturbed
        BY <1>2, <1>10 DEF Receive
    <2> QED
        BY <1>10, <2>1, ReceiveInv DEF Inv
<1>11. ASSUME NEW p \in Path, LosePacket(p)
       PROVE  IInv'
    <2>1. ~disturbed
        BY <1>2, <1>11 DEF LosePacket
    <2> QED
        BY <1>11, <2>1, LosePacketInv DEF Inv
<1>12. CASE FlushAllImmediately
    <2>1. ~disturbed /\ FlushInTime
        BY <1>2, <1>12 DEF FlushAllImmediately, Falls
    <2> QED
        BY <1>12, <2>1, FlushInv DEF Inv
<1>13. CASE AgeTx
    <2>1. ~disturbed /\ Quiet /\ ~rx.known
        BY <1>2, <1>13 DEF AgeTx, Falls
    <2> QED
        BY <1>13, <2>1, AgeTxInv DEF Inv
<1>14. CASE AgeRx
    <2>1. ~disturbed /\ Quiet
        BY <1>2, <1>14 DEF AgeRx, Falls
    <2> QED
        BY <1>14, <2>1, AgeRxInv DEF Inv
<1>15. CASE LoseReply
    <2>1. ~disturbed
        BY <1>2, <1>15 DEF LoseReply
    <2> QED
        BY <1>15, <2>1, LoseReplyInv DEF Inv
<1>16. CASE UNCHANGED vars
    <2>1. /\ tx' = tx /\ rx' = rx /\ voq' = voq /\ net' = net /\ replies' = replies
          /\ sent' = sent /\ out' = out /\ lost' = lost /\ IInv
        BY <1>2, <1>16 DEF vars, Inv
    <2>2. /\ \A p \in Path : OnPath(p)' = OnPath(p)
          /\ InFlight' = InFlight /\ (NoOldInFlight' <=> NoOldInFlight)
        BY <2>1 DEF OnPath, InFlight, NoOldInFlight
    <2>3. Ranges' /\ TxOK' /\ RxOK'
        BY <2>1, <2>2 DEF IInv, Ranges, TxOK, RxOK
    <2>4. PacketsOK' /\ CacheOK'
        BY <2>1, <2>2 DEF IInv, PacketsOK, PacketOK, Settled, CacheOK
    <2>5. PathsOK' /\ VoqOK'
        BY <2>1, <2>2 DEF IInv, PathsOK, VoqOK
    <2>6. OutOK' /\ RepliesOK'
        BY <2>1, <2>2 DEF IInv, OutOK, RepliesOK, ReplyOK
    <2> QED
        BY <2>3, <2>4, <2>5, <2>6 DEF IInv
<1> QED
    BY <1>4, <1>5, <1>6, <1>7, <1>8, <1>9, <1>10, <1>11, <1>12, <1>13, <1>14, <1>15, <1>16
    DEF Next, Send

\* The invariant holds in every reachable state.
LEMMA Invariance == Spec => []Inv
<1>1. Init => Inv
    BY InitInv
<1>2. Inv /\ [Next]_vars => Inv'
    BY NextInv
<1> QED
    BY <1>1, <1>2, PTL DEF Spec

\* The entries of both ToR switches keep their ranges, whatever is lost or
\* rerouted and whenever entries age.
THEOREM ConWeaveTypeCorrect == Spec => []TypeOK
<1>1. Inv => TypeOK
    <2>1. SUFFICES ASSUME Inv
                   PROVE  TypeOK
        OBVIOUS
    <2>2. \A pk \in InFlight : pk \in Packet
        BY <2>1, FlightOnPath DEF Inv, Basic, Ranges
    <2> QED
        BY <2>1, <2>2 DEF Inv, Basic, Ranges, Shape, TypeOK
<1> QED
    BY <1>1, Invariance, PTL

\* The queue and the entry agree and the reply deadline passes in phase 0, whenever
\* the deadlines fall. While none falls too early, and from the next beginning with
\* nothing on its way, a packet in order finds no queue and no TAIL is older than
\* phase 0.
THEOREM ConWeaveAssertsHold == Spec => []AssertsHold
<1>1. Inv => AssertsHold
    <2>0. SUFFICES ASSUME Inv
                   PROVE  AssertsHold
        OBVIOUS
    <2>2. /\ rx.reordering <=> voq # << >>
          /\ rx.flushing => rx.reordering
          /\ rx.reordering => rx.known
        BY <2>0 DEF Inv, Basic, EntriesOK, conweaveRxState
    <2>3. tx.timer = "out" => tx.phase = 0
        BY <2>0 DEF Inv, Basic, EntriesOK, Ranges
    <2>4. ASSUME ~disturbed,
                 NEW p \in Path, net[p] # << >>, rx.epoch <= Head(net[p]).epoch
          PROVE  LET pk == Head(net[p])
                     entry == epochToCheck(pk)
                 IN  /\ pk.phase = 1 /\ ~OutOfOrder(entry, pk) => ~rx.reordering
                     /\ entry.cache /\ pk.tail # 0 => pk.tail >= entry.phase0Tx
                     /\ pk.phase = 0 => entry.cache
        <3> DEFINE pk == Head(net[p])
                   entry == epochToCheck(pk)
        <3>0. IInv
            BY <2>0, <2>4 DEF Inv
        <3>1. pk \in InFlight /\ pk \in Packet /\ PacketOK(pk)
            <4>1. net[p] \in Seq(Packet) /\ net \in [Path -> Seq(Packet)]
                BY <3>0 DEF IInv, Ranges
            <4>2. Head(net[p]) \in OnPath(p)
                BY <2>4, <4>1, ToSetTail DEF OnPath
            <4> QED
                BY <3>0, <4>1, <4>2, FlightOnPath DEF IInv, PacketsOK
        <3>2. Updated(entry, pk)
            BY <3>0, <3>1, EpochToCheckFields DEF IInv
        <3>3. rx.epoch <= pk.epoch
            BY <2>4
        <3> HIDE DEF pk, entry
        <3>4. /\ pk.epoch \in 1..MaxPackets /\ rx.epoch \in 1..MaxPackets /\ rx.phase \in {0, 1}
              /\ pk.phase \in {0, 1} /\ pk.id \in 1..MaxPackets /\ entry.phase \in {0, 1}
            BY <3>0, <3>1, <3>2 DEF IInv, Ranges, Packet, Updated
        <3>5. ASSUME pk.phase = 1, ~OutOfOrder(entry, pk)
              PROVE  ~rx.reordering
            <4>1. entry.phase = 1
                BY <3>4, <3>5 DEF OutOfOrder
            <4>2. rx.phase = 1
                BY <3>1, <3>2, <3>5, <4>1 DEF Updated, PacketOK
            <4> QED
                BY <3>0, <4>2 DEF IInv, VoqOK
        <3>6. ASSUME entry.cache, pk.tail # 0
              PROVE  pk.tail >= entry.phase0Tx
            <4>1. CASE pk.phase = 0
                <5>1. pk.tail = pk.id /\ entry.phase0Tx = pk.id
                    BY <3>1, <3>2, <3>6, <4>1 DEF PacketOK, Updated
                <5> QED
                    BY <3>4, <5>1
            <4>2. CASE pk.phase = 1
                <5>1. rx.cache /\ pk.epoch = rx.epoch /\ entry.phase0Tx = rx.phase0Tx
                    BY <3>2, <3>3, <3>4, <3>6, <4>2 DEF Updated
                <5>2. rx.phase0Tx <= pk.tail
                    BY <3>0, <3>1, <4>2, <5>1 DEF IInv, CacheOK
                <5> QED
                    BY <5>1, <5>2
            <4> QED
                BY <3>4, <4>1, <4>2
        <3>7. pk.phase = 0 => entry.cache
            BY <3>2 DEF Updated
        <3> QED
            BY <3>5, <3>6, <3>7 DEF pk, entry
    <2> QED
        BY <2>2, <2>3, <2>4 DEF AssertsHold
<1> QED
    BY <1>1, Invariance, PTL

\* The receiver runs ahead of the sender, in epochs or phases, only in a flow that
\* a deadline disturbed and that has not begun anew.
THEOREM ConWeaveRxNotAhead == Spec => []RxNotAhead
<1>1. Inv => RxNotAhead
    <2>1. SUFFICES ASSUME IInv, rx.known, tx.known
                   PROVE  \/ rx.epoch < tx.epoch
                          \/ rx.epoch = tx.epoch /\ rx.phase <= tx.phase
        BY DEF Inv, RxNotAhead, NeverAhead
    <2>2. /\ rx.epoch \in 1..MaxPackets /\ tx.epoch \in 0..MaxPackets
          /\ rx.phase \in {0, 1} /\ tx.phase \in {0, 1}
        BY <2>1 DEF IInv, Ranges
    <2>3. rx.epoch <= tx.epoch
        BY <2>1 DEF IInv, RxOK
    <2>4. rx.epoch = tx.epoch /\ rx.phase = 1 => tx.phase = 1
        BY <2>1 DEF IInv, RxOK
    <2>5. rx.epoch = tx.epoch => rx.phase <= tx.phase
        BY <2>2, <2>4
    <2> QED
        BY <2>2, <2>3, <2>5
<1> QED
    BY <1>1, Invariance, PTL

\* A flow the sender believes stable has nothing held back and nothing in
\* flight off its path, though replies are late, lost or of an earlier epoch,
\* unless it is disturbed.
THEOREM ConWeaveStabilizedMeansSettled == Spec => []StabilizedMeansSettled
<1>1. Inv => StabilizedMeansSettled
    <2>1. SUFFICES ASSUME IInv, tx.known, tx.stabilized
                   PROVE  /\ voq = << >>
                          /\ \A p \in Path \ {tx.path} : net[p] = << >>
        BY DEF Inv, StabilizedMeansSettled
    <2>2. voq = << >>
        BY <2>1 DEF IInv, VoqOK
    <2>3. ASSUME NEW p \in Path \ {tx.path}, net[p] # << >>
          PROVE  FALSE
        <3>1. net[p] \in Seq(Packet) /\ net \in [Path -> Seq(Packet)]
            BY <2>1 DEF IInv, Ranges
        <3>2. PICK pk \in OnPath(p) : TRUE
            BY <2>3, <3>1, ToSetTail DEF OnPath
        <3>3. pk \in InFlight /\ pk \in Packet
            BY <3>1, FlightOnPath
        <3>4. tx.tail < pk.id
            <4>1. CASE tx.phase = 0
                BY <2>1, <3>3, <4>1 DEF IInv, TxOK, Packet
            <4>2. CASE tx.phase = 1
                BY <2>1, <3>3, <4>2 DEF IInv, RxOK, NoOldInFlight
            <4> QED
                BY <2>1, <4>1, <4>2 DEF IInv, Ranges
        <3> QED
            BY <2>1, <3>2, <3>4 DEF IInv, PathsOK
    <2> QED
        BY <2>2, <2>3
<1> QED
    BY <1>1, Invariance, PTL

-----------------------------------------------------------------------------
(* The refinement of OrderedDelivery *)

\* What follows a sequence leaves it as a prefix.
LEMMA PrefixOfConcat ==
    ASSUME NEW S, NEW s \in Seq(S), NEW t \in Seq(S), t # << >>
    PROVE  Ordered!IsStrictPrefix(s, s \o t)
<1>1. /\ s \o t \in Seq(S) /\ Len(s \o t) = Len(s) + Len(t) /\ Len(s) \in Nat
      /\ Len(t) \in Nat \ {0} /\ \A i \in 1..Len(s) : (s \o t)[i] = s[i]
    OBVIOUS
<1>2. SubSeq(s, 1, Len(s)) = SubSeq(s \o t, 1, Len(s))
    BY <1>1
<1>3. Len(s) <= Len(s \o t) /\ s # s \o t
    BY <1>1
<1> QED
    BY <1>2, <1>3 DEF Ordered!IsStrictPrefix, Ordered!IsPrefix

\* What reaches the host is new to it, and later than all it has got unless the
\* flow is disturbed.
LEMMA Leaves ==
    ASSUME Ranges, disturbed \in BOOLEAN, NEW t \in Seq(1..MaxPackets), t # << >>,
           out' = out \o t, sent' = sent, lost' = lost, disturbed' \in {disturbed, TRUE},
           \A i \in ToSet(t) : i <= sent /\ i \notin lost /\ i \notin ToSet(out),
           \A i, j \in 1..Len(t) : t[i] = t[j] => i = j,
           ~disturbed => Increasing(t) /\ \A i \in ToSet(out), j \in ToSet(t) : i < j
    PROVE  Ordered!Leave
<1>1. out \in Seq(1..MaxPackets) /\ sent \in 0..MaxPackets
    BY DEF Ranges
<1>2. /\ Len(out') = Len(out) + Len(t) /\ Len(out) \in Nat /\ Len(t) \in Nat
      /\ \A i \in 1..Len(out) : out'[i] = out[i]
      /\ \A i \in 1..Len(t) : out'[i + Len(out)] = t[i]
    BY <1>1
<1>3. Ordered!IsStrictPrefix(out, out')
    BY <1>1, PrefixOfConcat
<1>4. ASSUME NEW j \in Len(out) + 1..Len(out')
      PROVE  /\ out'[j] \in Ordered!Pending
             /\ \A i \in 1..j - 1 :
                   out'[i] # out'[j] /\ (~disturbed => out'[i] < out'[j])
    <2>1. j - Len(out) \in 1..Len(t) /\ out'[j] = t[j - Len(out)]
        BY <1>2
    <2>2. out'[j] \in ToSet(t) /\ out'[j] \in 1..MaxPackets
        <3>1. ToSet(t) = {t[i] : i \in 1..Len(t)}
            BY ToSetIndices
        <3>2. out'[j] \in ToSet(t)
            BY <2>1, <3>1
        <3> QED
            BY <3>2, ToSetMember
    <2>3. out'[j] \in 1..sent
        BY <1>1, <2>2, ConWeaveAssumption
    <2>4. out'[j] \in Ordered!Pending
        BY <2>2, <2>3 DEF Ordered!Pending, Ordered!ToSet, ToSet
    <2>5. ASSUME NEW i \in 1..j - 1
          PROVE  out'[i] # out'[j] /\ (~disturbed => out'[i] < out'[j])
        <3>1. i \in 1..Len(out) \/ i - Len(out) \in 1..Len(t)
            BY <1>2
        <3>2. CASE i \in 1..Len(out)
            <4>1. out'[i] \in ToSet(out)
                BY <1>2, <3>2 DEF ToSet
            <4> QED
                BY <2>2, <4>1
        <3>3. CASE i - Len(out) \in 1..Len(t)
            <4>1. out'[i] = t[i - Len(out)]
                BY <1>2, <3>3
            <4>2. i - Len(out) < j - Len(out) /\ i - Len(out) # j - Len(out)
                BY <1>2
            <4> QED
                BY <2>1, <3>3, <4>1, <4>2 DEF Increasing
        <3> QED
            BY <3>1, <3>2, <3>3
    <2> QED
        BY <2>4, <2>5
<1>5. ~disturbed' => ~disturbed
    OBVIOUS
<1>6. (~disturbed)' \in {~disturbed, FALSE}
    OBVIOUS
<1> QED
    BY <1>3, <1>4, <1>6 DEF Ordered!Leave

\* A packet that passes leaves by itself.
LEMMA OneLeaves ==
    ASSUME Inv, NEW pk \in InFlight, out' = Append(out, pk.id), sent' = sent, lost' = lost,
           disturbed' = disturbed
    PROVE  Ordered!Leave
<1>1. pk \in Packet /\ out \in Seq(1..MaxPackets)
    BY FlightOnPath DEF Inv, Basic, Ranges
<1>2. pk.id \in 1..MaxPackets /\ pk.id <= sent /\ pk.id \notin lost /\ pk.id \notin ToSet(out)
    BY <1>1 DEF Packet, Inv, Basic, Shape, PlacesOK
<1> DEFINE t == << pk.id >>
<1>3. t \in Seq(1..MaxPackets) /\ t # << >> /\ Len(t) = 1 /\ t[1] = pk.id /\ out' = out \o t
    BY <1>1, <1>2
<1>4. ToSet(t) = {pk.id}
    BY <1>3 DEF ToSet
<1> HIDE DEF t
<1>5. \A i, j \in 1..Len(t) : i = j
    BY <1>3
<1>6. Increasing(t)
    BY <1>3 DEF Increasing
<1>7. ~disturbed => \A j \in ToSet(out) : j < pk.id
    BY DEF Inv, IInv, OutOK
<1>8. Ranges /\ disturbed \in BOOLEAN
    BY DEF Inv, Basic
<1> QED
    BY <1>2, <1>3, <1>4, <1>5, <1>6, <1>7, <1>8, Leaves

\* What is held back leaves together.
LEMMA FlushLeaves ==
    ASSUME Inv, FlushAllImmediately
    PROVE  Ordered!Leave
<1>1. voq # << >> /\ out' = out \o voq /\ sent' = sent /\ lost' = lost
    BY DEF FlushAllImmediately
<1>2. voq \in Seq(1..MaxPackets) /\ Ranges /\ disturbed \in BOOLEAN
    BY DEF Inv, Basic, Ranges
<1>3. disturbed' \in {disturbed, TRUE}
    BY <1>2 DEF FlushAllImmediately, Falls
<1>4. /\ \A i \in ToSet(voq) : i <= sent /\ i \notin lost /\ i \notin ToSet(out)
      /\ \A i, j \in 1..Len(voq) : voq[i] = voq[j] => i = j
    BY DEF Inv, Basic, PlacesOK
<1>5. ~disturbed => Increasing(voq) /\ \A i \in ToSet(out), j \in ToSet(voq) : i < j
    BY DEF Inv, IInv, VoqOK, OutOK
<1> QED
    BY <1>1, <1>2, <1>3, <1>4, <1>5, Leaves

\* With nothing on its way, what was sent is with the host or lost.
LEMMA QuietNonePending ==
    ASSUME Basic, Quiet
    PROVE  Ordered!Pending = {}
<1>1. Ids(InFlight) = {} /\ ToSet(voq) = {}
    BY DEF Quiet, Ids, ToSet
<1>2. \A i \in 1..sent : i \in ToSet(out) \cup lost
    BY <1>1 DEF Basic, PlacesOK
<1> QED
    BY <1>2 DEF Ordered!Pending, Ordered!ToSet, ToSet

\* Every step is one of OrderedDelivery or changes nothing the host sees.
LEMMA NextDelivers ==
    ASSUME Inv, [Next]_vars
    PROVE  [Ordered!Next]_(Ordered!vars)
<1>1. Basic /\ disturbed \in BOOLEAN
    BY DEF Inv, Basic
<1>2. CASE Send
    <2>1. sent' = sent + 1 /\ out' = out /\ lost' = lost
        BY <1>2 DEF Send, SendExpired, SendStabilized, SendTail, SendData, NewEpoch, SendOn
    <2>2. disturbed' \in BOOLEAN /\ (~disturbed' => ~disturbed \/ BeginsAnew)
        BY <1>1, <1>2 DEF Send, SendExpired, SendStabilized, SendTail, SendData, Falls
    <2>3. BeginsAnew => Ordered!Pending = {}
        BY <1>1, QuietNonePending DEF BeginsAnew
    <2>4. Ordered!Enter
        BY <2>1, <2>2, <2>3 DEF Ordered!Enter
    <2> QED
        BY <2>4 DEF Ordered!Next
<1>3. CASE AgeTx \/ AgeRx
    <2>1. sent' = sent /\ out' = out /\ lost' = lost /\ disturbed' \in {disturbed, TRUE}
        BY <1>1, <1>3 DEF AgeTx, AgeRx, Falls
    <2>2. CASE disturbed' = disturbed
        BY <2>1, <2>2 DEF Ordered!vars
    <2>3. CASE disturbed' = TRUE
        <3>1. Ordered!GiveUpOrder
            BY <2>1, <2>3 DEF Ordered!GiveUpOrder
        <3> QED
            BY <3>1 DEF Ordered!Next
    <2> QED
        BY <2>1, <2>2, <2>3
<1>4. CASE ReplyDeadline \/ disposeReplyPacket \/ LoseReply \/ UNCHANGED vars
    <2>1. sent' = sent /\ out' = out /\ lost' = lost /\ disturbed' = disturbed
        BY <1>4 DEF ReplyDeadline, disposeReplyPacket, LoseReply, vars
    <2> QED
        BY <2>1 DEF Ordered!vars
<1>5. ASSUME NEW p \in Path, Receive(p)
      PROVE  [Ordered!Next]_(Ordered!vars)
    <2> DEFINE pk == Head(net[p])
    <2>1. sent' = sent /\ lost' = lost /\ disturbed' = disturbed
        BY <1>5 DEF Receive
    <2>2. pk \in InFlight /\ (out' = Append(out, pk.id) \/ out' = out)
        BY <1>1, <1>5, ReceiveBasic
    <2> HIDE DEF pk
    <2>3. CASE out' = Append(out, pk.id)
        BY <2>1, <2>2, <2>3, OneLeaves DEF Ordered!Next
    <2>4. CASE out' = out
        BY <2>1, <2>4 DEF Ordered!vars
    <2> QED
        BY <2>2, <2>3, <2>4
<1>6. ASSUME NEW p \in Path, LosePacket(p)
      PROVE  [Ordered!Next]_(Ordered!vars)
    <2>1. /\ Head(net[p]).id \in 1..sent /\ Head(net[p]).id \notin lost
          /\ Head(net[p]).id \notin ToSet(out)
        BY <1>1, <1>6, LosePacketBasic
    <2>2. /\ lost' = lost \cup {Head(net[p]).id} /\ sent' = sent /\ out' = out
          /\ disturbed' = disturbed
        BY <1>6 DEF LosePacket
    <2>3. Head(net[p]).id \in Ordered!Pending
        BY <2>1 DEF Ordered!Pending, Ordered!ToSet, ToSet
    <2>4. Ordered!Drop
        BY <2>2, <2>3 DEF Ordered!Drop
    <2> QED
        BY <2>4 DEF Ordered!Next
<1>7. CASE FlushAllImmediately
    BY <1>7, FlushLeaves DEF Ordered!Next
<1> QED
    BY <1>2, <1>3, <1>4, <1>5, <1>6, <1>7 DEF Next

\* The host sees every packet at most once, whatever is rerouted and lost and
\* whenever the deadlines fall, and in the order of sending until one falls too
\* early and again once the flow begins anew: the Tx and Rx ToR implement
\* OrderedDelivery.
THEOREM ConWeaveDeliversInOrder == Spec => ImplementsOrderedDelivery
<1>1. Init => Ordered!Init
    BY DEF Init, Ordered!Init
<1>2. Inv /\ [Next]_vars => [Ordered!Next]_(Ordered!vars)
    BY NextDelivers
<1> QED
    BY <1>1, <1>2, Invariance, PTL DEF Spec, ImplementsOrderedDelivery, Ordered!Spec
=============================================================================
