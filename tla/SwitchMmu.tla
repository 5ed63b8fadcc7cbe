----------------------------- MODULE SwitchMmu ------------------------------
(***************************************************************************)
(* The memory management unit of a switch (point-to-point/model/           *)
(* switch-mmu.cc) as SwitchNode drives it: a packet of psize bytes that    *)
(* came in at port p, goes out at port o and has priority q either enters  *)
(* the buffer (DoSwitchSend) or leaves it (SwitchNotifyDequeue).           *)
(*                                                                         *)
(* The queues themselves are in module SwitchNode.  Here a packet may      *)
(* leave whenever the counters hold at least its size; SwitchNode is       *)
(* checked to implement this module.                                       *)
(*                                                                         *)
(* All counters are uint32_t: U32 wraps them.  Sizes are in bytes, or in   *)
(* any unit that divides reserve, thresholds and packet sizes.             *)
(***************************************************************************)
EXTENDS Integers

CONSTANTS
    Port,           \* the ports of the switch
    Queue,          \* the priorities that pass admission (qIndex # 0)
    PSize,          \* the packet sizes
    Word,           \* 2^32: the counters are uint32_t
    reserve,        \* per-queue guaranteed bytes (4 KB)
    resume_offset,  \* hysteresis of the resume threshold (3 KB)
    shared_bytes,   \* the pause threshold ConfigNPort computes
    headroom        \* headroom[p]: what ConfigHdrm gave port p

(***************************************************************************)
(* No packet is larger than the shared threshold: with a smaller one       *)
(* UpdateIngressAdmission subtracts reserve from a smaller ingress_bytes   *)
(* (line 97 of the source) and the unsigned difference wraps.              *)
(***************************************************************************)
ASSUME MmuAssumption ==
    /\ Word \in Nat /\ reserve \in Nat /\ resume_offset \in Nat \ {0}
    /\ shared_bytes \in Nat \ {0}
    /\ headroom \in [Port -> Nat]
    /\ PSize \subseteq Nat \ {0}
    /\ \A s \in PSize : s <= shared_bytes
    /\ \A p \in Port, s \in PSize :
          reserve + shared_bytes + headroom[p] + s < Word
    /\ resume_offset + shared_bytes < Word

VARIABLES
    ingress_bytes,      \* [Port -> [Queue -> bytes that came in there]]
    hdrm_bytes,         \* the part of them charged to the headroom
    egress_bytes,       \* [Port -> [Queue -> bytes waiting to go out there]]
    shared_used_bytes,  \* one counter for the whole switch
    paused              \* [Port -> [Queue -> the upstream was told to pause]]

mmuVars ==
    <<ingress_bytes, hdrm_bytes, egress_bytes, shared_used_bytes, paused>>
-----------------------------------------------------------------------------
(***************************************************************************)
(* The arithmetic of one queue, as functions of its counters.              *)
(***************************************************************************)
\* A sum or difference of two uint32_t, back in uint32_t.
U32(x) == IF x < 0 THEN x + Word ELSE IF x >= Word THEN x - Word ELSE x

Least(a, b) == IF a <= b THEN a ELSE b

GetPfcThreshold == shared_bytes

GetSharedUsed(ing) ==
    IF ing > reserve THEN Least(ing - reserve, shared_bytes) ELSE 0

\* Mutants: the packet itself is not counted; everything is admitted.
AdmitIfRoomLeft(p, q, psize) == hdrm_bytes[p][q] <= headroom[p]
AdmitAlways(p, q, psize) == TRUE

\* The packet fits in what is left of the port's headroom.
CheckIngressAdmission(p, q, psize) ==
    U32(psize + hdrm_bytes[p][q]) <= headroom[p]

OverThreshold(ing, psize) ==
    /\ U32(ing + psize) > reserve
    /\ U32(ing + psize) - reserve > GetPfcThreshold

\* What an admitted packet adds to shared_used_bytes ...
SharedInc(ing, psize) ==
    IF U32(ing + psize) <= reserve THEN 0
    ELSE IF ~OverThreshold(ing, psize)
         THEN Least(psize, U32(ing + psize) - reserve)
    ELSE IF U32(ing - reserve) >= GetPfcThreshold THEN 0
    ELSE GetPfcThreshold - U32(ing - reserve)

\* Mutant: the part that went to the shared pool is charged twice.
HdrmIncWhole(ing, psize) == IF OverThreshold(ing, psize) THEN psize ELSE 0

\* ... and to hdrm_bytes: nothing below the threshold, above it the rest.
HdrmInc(ing, psize) ==
    IF OverThreshold(ing, psize) THEN psize - SharedInc(ing, psize) ELSE 0

\* Mutants: the headroom pays all; the shared pool pays again.
FromHdrmAll(hdrm, psize) == psize
FromSharedAgain(ing, hdrm, psize) ==
    Least(psize, IF ing > reserve THEN ing - reserve ELSE 0)

\* What a packet that leaves takes from hdrm_bytes, then shared_used_bytes.
FromHdrm(hdrm, psize) == Least(hdrm, psize)

FromShared(ing, hdrm, psize) ==
    Least(psize - FromHdrm(hdrm, psize), IF ing > reserve THEN ing - reserve ELSE 0)

\* Mutant: the pause threshold is off by one.
CheckShouldPauseLate(ing, hdrm, psd) ==
    ~psd /\ (hdrm > 0 \/ GetSharedUsed(ing) > GetPfcThreshold)

CheckShouldPause(ing, hdrm, psd) ==
    ~psd /\ (hdrm > 0 \/ GetSharedUsed(ing) >= GetPfcThreshold)

CheckShouldResume(ing, hdrm, psd) ==
    /\ psd
    /\ hdrm = 0
    /\ \/ GetSharedUsed(ing) = 0
       \/ U32(GetSharedUsed(ing) + resume_offset) <= GetPfcThreshold
-----------------------------------------------------------------------------
Init ==
    /\ ingress_bytes = [p \in Port |-> [q \in Queue |-> 0]]
    /\ hdrm_bytes    = [p \in Port |-> [q \in Queue |-> 0]]
    /\ egress_bytes  = [p \in Port |-> [q \in Queue |-> 0]]
    /\ shared_used_bytes = 0
    /\ paused = [p \in Port |-> [q \in Queue |-> FALSE]]

\* UpdateIngressAdmission: charge the packet to the queue it came in by.
UpdateIngressAdmission(p, q, psize) ==
    LET ing == ingress_bytes[p][q] IN
    /\ ingress_bytes' = [ingress_bytes EXCEPT ![p][q] = U32(ing + psize)]
    /\ hdrm_bytes' =
          [hdrm_bytes EXCEPT ![p][q] = U32(@ + HdrmInc(ing, psize))]
    /\ shared_used_bytes' = U32(shared_used_bytes + SharedInc(ing, psize))

RemoveFromIngressAdmission(p, q, psize) ==
    LET ing == ingress_bytes[p][q]
        hdr == hdrm_bytes[p][q]
    IN  /\ ingress_bytes' = [ingress_bytes EXCEPT ![p][q] = U32(ing - psize)]
        /\ hdrm_bytes' = [hdrm_bytes EXCEPT ![p][q] = hdr - FromHdrm(hdr, psize)]
        /\ shared_used_bytes' =
              U32(shared_used_bytes - FromShared(ing, hdr, psize))

UpdateEgressAdmission(o, q, psize) ==
    egress_bytes' = [egress_bytes EXCEPT ![o][q] = U32(@ + psize)]

RemoveFromEgressAdmission(o, q, psize) ==
    egress_bytes' = [egress_bytes EXCEPT ![o][q] = U32(@ - psize)]

\* CheckAndSendPfc after an admission: SendPfc(q, 0) and SetPause.
CheckAndSendPfc(p, q) ==
    paused' = [paused EXCEPT ![p][q] =
        @ \/ CheckShouldPause(ingress_bytes'[p][q], hdrm_bytes'[p][q], @)]

\* Mutant: a departure does not look at the resume threshold.
NoResume(p, q) == UNCHANGED paused

\* CheckAndSendResume after a departure: SendPfc(q, 1) and SetResume.
CheckAndSendResume(p, q) ==
    paused' = [paused EXCEPT ![p][q] =
        @ /\ ~CheckShouldResume(ingress_bytes'[p][q], hdrm_bytes'[p][q], @)]

\* The MMU part of SwitchNode::DoSwitchSend for a packet that is admitted.
Admit(p, o, q, psize) ==
    /\ UpdateIngressAdmission(p, q, psize)
    /\ UpdateEgressAdmission(o, q, psize)
    /\ CheckAndSendPfc(p, q)

\* The MMU part of SwitchNode::SwitchNotifyDequeue.
Release(p, o, q, psize) ==
    /\ RemoveFromIngressAdmission(p, q, psize)
    /\ RemoveFromEgressAdmission(o, q, psize)
    /\ CheckAndSendResume(p, q)

Enter(p, o, q, psize) ==
    /\ CheckIngressAdmission(p, q, psize)
    /\ Admit(p, o, q, psize)

Leave(p, o, q, psize) ==
    /\ psize <= ingress_bytes[p][q]
    /\ psize <= egress_bytes[o][q]
    /\ Release(p, o, q, psize)

Next ==
    \E p, o \in Port, q \in Queue, psize \in PSize :
        Enter(p, o, q, psize) \/ Leave(p, o, q, psize)

Spec == Init /\ [][Next]_mmuVars
-----------------------------------------------------------------------------
TypeOK ==
    /\ ingress_bytes \in [Port -> [Queue -> 0 .. (Word - 1)]]
    /\ hdrm_bytes \in [Port -> [Queue -> 0 .. (Word - 1)]]
    /\ egress_bytes \in [Port -> [Queue -> 0 .. (Word - 1)]]
    /\ shared_used_bytes \in 0 .. (Word - 1)
    /\ paused \in [Port -> [Queue -> BOOLEAN]]

(***************************************************************************)
(* Two counters that are updated by different formulas on the way in and   *)
(* on the way out never drift apart: the headroom in use is exactly what   *)
(* the queue holds beyond reserve + shared_bytes, for every order of       *)
(* arrivals and departures.  (switch-mmu.cc, the check commented out in    *)
(* CheckIngressAdmission, lines 52-65.)                                    *)
(***************************************************************************)
Excess(b) ==
    IF b > reserve + shared_bytes THEN b - (reserve + shared_bytes) ELSE 0

HeadroomExact ==
    \A p \in Port, q \in Queue : hdrm_bytes[p][q] = Excess(ingress_bytes[p][q])

(***************************************************************************)
(* What one queue can take from the buffer is bounded by its reserve, the  *)
(* shared threshold and the headroom of its port.                          *)
(***************************************************************************)
IngressBound ==
    \A p \in Port, q \in Queue :
        ingress_bytes[p][q] <= reserve + shared_bytes + headroom[p]

(***************************************************************************)
(* A pause or a resume is never forgotten: after every handler the flag    *)
(* agrees with the thresholds, so a queue whose sender is not paused is    *)
(* below the pause threshold, and a paused one is above the resume one.    *)
(* (If either failed, a sender could stay paused with an empty queue.)     *)
(***************************************************************************)
Hysteresis ==
    \A p \in Port, q \in Queue :
        /\ ~CheckShouldPause(ingress_bytes[p][q], hdrm_bytes[p][q], paused[p][q])
        /\ ~CheckShouldResume(ingress_bytes[p][q], hdrm_bytes[p][q], paused[p][q])

(***************************************************************************)
(* Each ingress queue, its headroom counter hidden, is a PfcQueue: the     *)
(* pause flag, admission and thresholds depend on nothing but how many     *)
(* bytes the queue has in the buffer.                                      *)
(***************************************************************************)
Ingress(p, q) ==
    INSTANCE PfcQueue WITH bytes <- ingress_bytes[p][q], off <- paused[p][q],
                           room <- headroom[p]

EachQueueIsPfcQueue ==
    /\ \A p \in Port, q \in Queue : Ingress(p, q)!Init
    /\ [][\A p \in Port, q \in Queue :
            [Ingress(p, q)!Next]_<<ingress_bytes[p][q], paused[p][q]>>]_mmuVars
=============================================================================
