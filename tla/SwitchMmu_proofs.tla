-------------------------- MODULE SwitchMmu_proofs --------------------------
(***************************************************************************)
(* Proofs about SwitchMmu: for every set of ports, priorities and packet   *)
(* sizes and every configuration that satisfies MmuAssumption, the         *)
(* counters of a queue never drift apart, a queue never outgrows its       *)
(* share, no pause or resume is forgotten, and each queue is a PfcQueue.   *)
(***************************************************************************)
EXTENDS SwitchMmu, TLAPS

\* Sums and differences of two words come back as a word.
LEMMA U32Type ==
    ASSUME NEW x \in Int, -Word < x, x < 2 * Word
    PROVE  U32(x) \in 0 .. (Word - 1)
BY MmuAssumption DEF U32

\* Nothing wraps while the value stays a word.
LEMMA U32Exact ==
    ASSUME NEW x \in Int, 0 <= x, x < Word
    PROVE  U32(x) = x
BY MmuAssumption DEF U32

(***************************************************************************)
(* One packet enters one queue whose counters are exact: nothing wraps,    *)
(* the queue stays within its share and hdrm_bytes grows by what the       *)
(* packet adds above the threshold.                                        *)
(***************************************************************************)
LEMMA EnterQueue ==
    ASSUME NEW p \in Port, NEW s \in PSize, NEW ing \in Nat,
           ing <= reserve + shared_bytes + headroom[p],
           U32(s + Excess(ing)) <= headroom[p]
    PROVE  /\ s \in Nat \ {0}
           /\ U32(ing + s) = ing + s
           /\ ing + s <= reserve + shared_bytes + headroom[p]
           /\ s + Excess(ing) <= headroom[p]
           /\ HdrmInc(ing, s) \in Nat
           /\ U32(Excess(ing) + HdrmInc(ing, s)) = Excess(ing + s)
           /\ SharedInc(ing, s) \in 0 .. (Word - 1)
<1>1. /\ s \in Nat \ {0} /\ s <= shared_bytes
      /\ headroom[p] \in Nat
      /\ reserve + shared_bytes + headroom[p] + s < Word
      /\ reserve \in Nat /\ shared_bytes \in Nat \ {0} /\ Word \in Nat
  BY MmuAssumption
<1>2. Excess(ing) \in Nat /\ Excess(ing) <= headroom[p]
  BY <1>1 DEF Excess
<1>3. U32(s + Excess(ing)) = s + Excess(ing)
  BY <1>1, <1>2, U32Exact
<1>4. s + Excess(ing) <= headroom[p]
  BY <1>3
<1>5. ing + s <= reserve + shared_bytes + headroom[p]
  BY <1>1, <1>4 DEF Excess
<1>6. U32(ing + s) = ing + s
  BY <1>1, <1>5, U32Exact
<1>7. OverThreshold(ing, s) <=> ing + s > reserve + shared_bytes
  BY <1>1, <1>6 DEF OverThreshold, GetPfcThreshold
<1>8. /\ HdrmInc(ing, s) = Excess(ing + s) - Excess(ing)
      /\ SharedInc(ing, s) \in 0 .. shared_bytes
  <2>1. CASE ing + s <= reserve + shared_bytes
    BY <1>1, <1>6, <1>7, <2>1 DEF HdrmInc, SharedInc, Least, Excess
  <2>2. CASE ing + s > reserve + shared_bytes
    <3>1. U32(ing - reserve) = ing - reserve
      BY <1>1, <1>5, <2>2, U32Exact
    <3> QED
      BY <1>1, <1>6, <1>7, <2>2, <3>1
      DEF HdrmInc, SharedInc, GetPfcThreshold, Excess
  <2> QED
    BY <1>1, <2>1, <2>2
<1>9. HdrmInc(ing, s) \in Nat /\ Excess(ing + s) \in Nat
  BY <1>1, <1>8 DEF Excess
<1>10. U32(Excess(ing) + HdrmInc(ing, s)) = Excess(ing + s)
  <2>1. Excess(ing) + HdrmInc(ing, s) = Excess(ing + s)
    BY <1>2, <1>8, <1>9
  <2>2. Excess(ing + s) < Word
    BY <1>1, <1>5 DEF Excess
  <2> QED
    BY <1>9, <2>1, <2>2, U32Exact
<1> QED
  BY <1>1, <1>4, <1>5, <1>6, <1>8, <1>9, <1>10

(***************************************************************************)
(* One packet leaves one queue whose counters are exact.                   *)
(***************************************************************************)
LEMMA LeaveQueue ==
    ASSUME NEW p \in Port, NEW s \in PSize, NEW ing \in Nat, s <= ing,
           ing <= reserve + shared_bytes + headroom[p]
    PROVE  /\ s \in Nat \ {0}
           /\ U32(ing - s) = ing - s
           /\ ing - s \in Nat
           /\ Excess(ing) - FromHdrm(Excess(ing), s) = Excess(ing - s)
           /\ FromShared(ing, Excess(ing), s) \in 0 .. (Word - 1)
<1>1. /\ s \in Nat \ {0} /\ headroom[p] \in Nat
      /\ reserve + shared_bytes + headroom[p] + s < Word
      /\ reserve \in Nat /\ shared_bytes \in Nat \ {0} /\ Word \in Nat
  BY MmuAssumption
<1>2. U32(ing - s) = ing - s
  BY <1>1, U32Exact
<1>3. Excess(ing) - FromHdrm(Excess(ing), s) = Excess(ing - s)
  BY <1>1 DEF Excess, FromHdrm, Least
<1>4. FromShared(ing, Excess(ing), s) \in 0 .. (Word - 1)
  BY <1>1 DEF FromShared, FromHdrm, Least, Excess
<1> QED
  BY <1>1, <1>2, <1>3, <1>4

(***************************************************************************)
(* With exact counters, the two threshold tests depend on the bytes of the *)
(* queue only.                                                             *)
(***************************************************************************)
LEMMA Thresholds ==
    ASSUME NEW p \in Port, NEW q \in Queue, NEW ing \in Nat,
           NEW psd \in BOOLEAN
    PROVE  /\ CheckShouldPause(ing, Excess(ing), psd)
                <=> ~psd /\ ing >= Ingress(p, q)!XOFF
           /\ CheckShouldResume(ing, Excess(ing), psd)
                <=> psd /\ ing <= Ingress(p, q)!XON
<1>1. /\ reserve \in Nat /\ shared_bytes \in Nat \ {0} /\ Word \in Nat
      /\ resume_offset \in Nat \ {0} /\ resume_offset + shared_bytes < Word
  BY MmuAssumption
<1>2. /\ GetSharedUsed(ing) \in 0 .. shared_bytes
      /\ GetSharedUsed(ing) = 0 <=> ing <= reserve
      /\ GetSharedUsed(ing) >= shared_bytes <=> ing >= reserve + shared_bytes
      /\ ing <= reserve + shared_bytes /\ ing > reserve
            => GetSharedUsed(ing) = ing - reserve
  BY <1>1 DEF GetSharedUsed, Least
<1>3. U32(GetSharedUsed(ing) + resume_offset) = GetSharedUsed(ing) + resume_offset
  BY <1>1, <1>2, U32Exact
<1>4. /\ Excess(ing) \in Nat
      /\ Excess(ing) = 0 <=> ing <= reserve + shared_bytes
  BY <1>1 DEF Excess
<1>5. CheckShouldPause(ing, Excess(ing), psd)
                <=> ~psd /\ ing >= Ingress(p, q)!XOFF
  BY <1>1, <1>2, <1>4 DEF CheckShouldPause, GetPfcThreshold, Ingress!XOFF
<1>6. CheckShouldResume(ing, Excess(ing), psd)
                <=> psd /\ ing <= Ingress(p, q)!XON
  BY <1>1, <1>2, <1>3, <1>4
  DEF CheckShouldResume, GetPfcThreshold, Ingress!XON, Ingress!XOFF
<1> QED
  BY <1>5, <1>6
-----------------------------------------------------------------------------
(***************************************************************************)
(* The inductive invariant.  Hysteresis needs HeadroomExact (the tests     *)
(* read hdrm_bytes), HeadroomExact needs IngressBound (so that no counter  *)
(* wraps) and IngressBound needs HeadroomExact (admission compares         *)
(* hdrm_bytes, not ingress_bytes, with the headroom).                      *)
(***************************************************************************)
IInv == TypeOK /\ HeadroomExact /\ IngressBound /\ Hysteresis

\* A level between the two thresholds, or the flag that fits the level.
FlagFits(p, q, ing, psd) ==
    /\ psd \in BOOLEAN
    /\ psd => ing > Ingress(p, q)!XON
    /\ ~psd => ing < Ingress(p, q)!XOFF

\* Hysteresis, for one queue with exact counters, is FlagFits.
LEMMA HysteresisIsFlagFits ==
    ASSUME NEW p \in Port, NEW q \in Queue, NEW ing \in Nat,
           NEW psd \in BOOLEAN
    PROVE  FlagFits(p, q, ing, psd) <=>
              /\ ~CheckShouldPause(ing, Excess(ing), psd)
              /\ ~CheckShouldResume(ing, Excess(ing), psd)
<1>1. Ingress(p, q)!XOFF \in Nat /\ Ingress(p, q)!XON \in Nat
  BY MmuAssumption DEF Ingress!XON, Ingress!XOFF
<1> QED
  BY <1>1, Thresholds DEF FlagFits

LEMMA XonBelowXoff ==
    ASSUME NEW p \in Port, NEW q \in Queue
    PROVE  /\ Ingress(p, q)!XON \in Nat /\ Ingress(p, q)!XOFF \in Nat
           /\ Ingress(p, q)!XON < Ingress(p, q)!XOFF
BY MmuAssumption DEF Ingress!XON, Ingress!XOFF

\* The invariant seen from one queue.
LEMMA QueueInv ==
    ASSUME IInv, NEW p \in Port, NEW q \in Queue
    PROVE  /\ ingress_bytes[p][q] \in Nat
           /\ hdrm_bytes[p][q] = Excess(ingress_bytes[p][q])
           /\ ingress_bytes[p][q] <= reserve + shared_bytes + headroom[p]
           /\ paused[p][q] \in BOOLEAN
           /\ FlagFits(p, q, ingress_bytes[p][q], paused[p][q])
<1>1. /\ ingress_bytes[p][q] \in Nat
      /\ hdrm_bytes[p][q] = Excess(ingress_bytes[p][q])
      /\ ingress_bytes[p][q] <= reserve + shared_bytes + headroom[p]
      /\ paused[p][q] \in BOOLEAN
  BY MmuAssumption DEF IInv, TypeOK, HeadroomExact, IngressBound
<1>2. FlagFits(p, q, ingress_bytes[p][q], paused[p][q])
  BY <1>1, HysteresisIsFlagFits DEF IInv, Hysteresis
<1> QED
  BY <1>1, <1>2

(***************************************************************************)
(* What the two handlers do to the queue they work on.                     *)
(***************************************************************************)
LEMMA EnterEffect ==
    ASSUME IInv, NEW p \in Port, NEW o \in Port, NEW q \in Queue,
           NEW s \in PSize, Enter(p, o, q, s)
    PROVE  LET ing == ingress_bytes[p][q] + s
               psd == paused[p][q] \/ ing >= Ingress(p, q)!XOFF
           IN  /\ s \in Nat \ {0}
               /\ s + Excess(ingress_bytes[p][q]) <= headroom[p]
               /\ ing <= reserve + shared_bytes + headroom[p]
               /\ FlagFits(p, q, ing, psd)
               /\ ingress_bytes' = [ingress_bytes EXCEPT ![p][q] = ing]
               /\ hdrm_bytes' = [hdrm_bytes EXCEPT ![p][q] = Excess(ing)]
               /\ paused' = [paused EXCEPT ![p][q] = psd]
               /\ SharedInc(ingress_bytes[p][q], s) \in 0 .. (Word - 1)
<1> DEFINE old == ingress_bytes[p][q]
           ing == old + s
           psd == paused[p][q] \/ ing >= Ingress(p, q)!XOFF
<1>1. /\ old \in Nat /\ hdrm_bytes[p][q] = Excess(old)
      /\ old <= reserve + shared_bytes + headroom[p]
      /\ paused[p][q] \in BOOLEAN
      /\ FlagFits(p, q, old, paused[p][q])
  BY QueueInv
<1>2. U32(s + Excess(old)) <= headroom[p]
  BY <1>1 DEF Enter, CheckIngressAdmission
<1>3. /\ s \in Nat \ {0}
      /\ U32(ing) = ing
      /\ ing <= reserve + shared_bytes + headroom[p]
      /\ s + Excess(old) <= headroom[p]
      /\ U32(Excess(old) + HdrmInc(old, s)) = Excess(ing)
      /\ SharedInc(old, s) \in 0 .. (Word - 1)
  BY <1>1, <1>2, EnterQueue
<1>4. /\ ingress_bytes' = [ingress_bytes EXCEPT ![p][q] = ing]
      /\ hdrm_bytes' = [hdrm_bytes EXCEPT ![p][q] = Excess(ing)]
  <2>1. ingress_bytes' = [ingress_bytes EXCEPT ![p][q] = ing]
    BY <1>3 DEF Enter, Admit, UpdateIngressAdmission
  <2>2. hdrm_bytes' = [hdrm_bytes EXCEPT ![p][q] = U32(hdrm_bytes[p][q] + HdrmInc(old, s))]
    BY DEF Enter, Admit, UpdateIngressAdmission
  <2> QED
    BY <1>1, <1>3, <2>1, <2>2
<1>5. ingress_bytes'[p][q] = ing /\ hdrm_bytes'[p][q] = Excess(ing)
  BY <1>4 DEF IInv, TypeOK
<1>6. ing \in Nat
  BY <1>1, <1>3
<1>7. CheckShouldPause(ing, Excess(ing), paused[p][q])
         <=> ~paused[p][q] /\ ing >= Ingress(p, q)!XOFF
  BY <1>1, <1>6, Thresholds
<1>8. paused' = [paused EXCEPT ![p][q] = psd]
  <2>1. paused' = [paused EXCEPT ![p][q] = paused[p][q]
              \/ CheckShouldPause(ing, Excess(ing), paused[p][q])]
    BY <1>5 DEF Enter, Admit, CheckAndSendPfc
  <2>2. (paused[p][q] \/ CheckShouldPause(ing, Excess(ing), paused[p][q])) = psd
    BY <1>1, <1>7
  <2> QED
    BY <2>1, <2>2
<1>9. FlagFits(p, q, ing, psd)
  <2>1. psd => ing > Ingress(p, q)!XON
    BY <1>1, <1>3, XonBelowXoff DEF FlagFits
  <2>2. ~psd => ing < Ingress(p, q)!XOFF
    BY <1>6, XonBelowXoff
  <2> QED
    BY <1>1, <2>1, <2>2 DEF FlagFits
<1> QED
  BY <1>3, <1>4, <1>8, <1>9

LEMMA LeaveEffect ==
    ASSUME IInv, NEW p \in Port, NEW o \in Port, NEW q \in Queue,
           NEW s \in PSize, Leave(p, o, q, s)
    PROVE  LET ing == ingress_bytes[p][q] - s
               psd == paused[p][q] /\ ing > Ingress(p, q)!XON
           IN  /\ s \in Nat \ {0} /\ ing \in Nat
               /\ FlagFits(p, q, ing, psd)
               /\ ingress_bytes' = [ingress_bytes EXCEPT ![p][q] = ing]
               /\ hdrm_bytes' = [hdrm_bytes EXCEPT ![p][q] = Excess(ing)]
               /\ paused' = [paused EXCEPT ![p][q] = psd]
               /\ FromShared(ingress_bytes[p][q], hdrm_bytes[p][q], s)
                        \in 0 .. (Word - 1)
<1> DEFINE old == ingress_bytes[p][q]
           ing == old - s
           psd == paused[p][q] /\ ing > Ingress(p, q)!XON
<1>1. /\ old \in Nat /\ hdrm_bytes[p][q] = Excess(old)
      /\ old <= reserve + shared_bytes + headroom[p]
      /\ paused[p][q] \in BOOLEAN
      /\ FlagFits(p, q, old, paused[p][q])
  BY QueueInv
<1>2. s <= old
  BY DEF Leave
<1>3. /\ s \in Nat \ {0}
      /\ U32(ing) = ing /\ ing \in Nat
      /\ Excess(old) - FromHdrm(Excess(old), s) = Excess(ing)
      /\ FromShared(old, Excess(old), s) \in 0 .. (Word - 1)
  BY <1>1, <1>2, LeaveQueue
<1>4. /\ ingress_bytes' = [ingress_bytes EXCEPT ![p][q] = ing]
      /\ hdrm_bytes' = [hdrm_bytes EXCEPT ![p][q] = Excess(ing)]
  BY <1>1, <1>3 DEF Leave, Release, RemoveFromIngressAdmission
<1>5. ingress_bytes'[p][q] = ing /\ hdrm_bytes'[p][q] = Excess(ing)
  BY <1>4 DEF IInv, TypeOK
<1>6. CheckShouldResume(ing, Excess(ing), paused[p][q])
         <=> paused[p][q] /\ ing <= Ingress(p, q)!XON
  BY <1>1, <1>3, Thresholds
<1>7. paused' = [paused EXCEPT ![p][q] = psd]
  <2>1. paused' = [paused EXCEPT ![p][q] = paused[p][q]
              /\ ~CheckShouldResume(ing, Excess(ing), paused[p][q])]
    BY <1>5 DEF Leave, Release, CheckAndSendResume
  <2>2. (paused[p][q] /\ ~CheckShouldResume(ing, Excess(ing), paused[p][q])) = psd
    BY <1>1, <1>3, <1>6, XonBelowXoff
  <2> QED
    BY <2>1, <2>2
<1>8. FlagFits(p, q, ing, psd)
  <2>1. ~psd => ing < Ingress(p, q)!XOFF
    BY <1>1, <1>3, XonBelowXoff DEF FlagFits
  <2> QED
    BY <1>1, <2>1 DEF FlagFits
<1> QED
  BY <1>1, <1>3, <1>4, <1>7, <1>8
(***************************************************************************)
(* shared_used_bytes follows what a queue may take from the shared pool,   *)
(* on the way in and on the way out.                                       *)
(***************************************************************************)
LEMMA SharedFollows ==
    ASSUME NEW p \in Port, NEW s \in PSize, NEW ing \in Nat,
           ing <= reserve + shared_bytes + headroom[p]
    PROVE  /\ GetSharedUsed(ing) \in 0 .. shared_bytes
           /\ ing + s <= reserve + shared_bytes + headroom[p] =>
                SharedInc(ing, s) = GetSharedUsed(ing + s) - GetSharedUsed(ing)
           /\ s <= ing =>
                FromShared(ing, Excess(ing), s)
                    = GetSharedUsed(ing) - GetSharedUsed(ing - s)
<1>1. /\ s \in Nat \ {0} /\ s <= shared_bytes
      /\ reserve \in Nat /\ shared_bytes \in Nat \ {0} /\ headroom[p] \in Nat
      /\ Word \in Nat /\ reserve + shared_bytes + headroom[p] + s < Word
  BY MmuAssumption
<1>2. GetSharedUsed(ing) \in 0 .. shared_bytes
  BY <1>1 DEF GetSharedUsed, Least
<1>3. ASSUME ing + s <= reserve + shared_bytes + headroom[p]
      PROVE  SharedInc(ing, s) = GetSharedUsed(ing + s) - GetSharedUsed(ing)
  <2>1. U32(ing + s) = ing + s
    BY <1>1 DEF U32
  <2>2. CASE ing + s <= reserve
    BY <1>1, <2>1, <2>2 DEF SharedInc, GetSharedUsed
  <2>3. CASE ing + s > reserve /\ ing + s <= reserve + shared_bytes
    <3>1. ~OverThreshold(ing, s)
      BY <1>1, <2>1, <2>3 DEF OverThreshold, GetPfcThreshold
    <3>2. SharedInc(ing, s) = Least(s, ing + s - reserve)
      BY <1>1, <2>1, <2>3, <3>1 DEF SharedInc
    <3> QED
      BY <1>1, <2>3, <3>2 DEF GetSharedUsed, Least
  <2>4. CASE ing + s > reserve + shared_bytes
    <3>1. OverThreshold(ing, s) /\ ing >= reserve
      BY <1>1, <2>1, <2>4 DEF OverThreshold, GetPfcThreshold
    <3>2. U32(ing - reserve) = ing - reserve
      BY <1>1, <3>1 DEF U32
    <3>3. SharedInc(ing, s) = IF ing - reserve >= shared_bytes THEN 0
                              ELSE shared_bytes - (ing - reserve)
      BY <1>1, <2>1, <2>4, <3>1, <3>2 DEF SharedInc, GetPfcThreshold
    <3> QED
      BY <1>1, <2>4, <3>1, <3>3 DEF GetSharedUsed, Least
  <2> QED
    BY <1>1, <2>2, <2>3, <2>4
<1>4. ASSUME s <= ing
      PROVE  FromShared(ing, Excess(ing), s) = GetSharedUsed(ing) - GetSharedUsed(ing - s)
  <2> DEFINE rest == s - FromHdrm(Excess(ing), s)
  <2>1. FromShared(ing, Excess(ing), s)
          = Least(rest, IF ing > reserve THEN ing - reserve ELSE 0)
    BY DEF FromShared
  <2>2. CASE ing > reserve + shared_bytes
    <3>1. Excess(ing) = ing - (reserve + shared_bytes)
      BY <2>2 DEF Excess
    <3>2. rest = IF s <= ing - (reserve + shared_bytes) THEN 0
                 ELSE s - (ing - (reserve + shared_bytes))
      BY <1>1, <2>2, <3>1 DEF FromHdrm, Least
    <3> HIDE DEF rest
    <3> QED
      BY <1>1, <1>4, <2>1, <2>2, <3>2 DEF GetSharedUsed, Least
  <2>3. CASE ing <= reserve + shared_bytes
    <3>1. rest = s
      BY <1>1, <2>3 DEF FromHdrm, Least, Excess
    <3> HIDE DEF rest
    <3> QED
      BY <1>1, <1>4, <2>1, <2>3, <3>1 DEF GetSharedUsed, Least
  <2> QED
    BY <1>1, <2>2, <2>3
<1> QED
  BY <1>2, <1>3, <1>4

-----------------------------------------------------------------------------
(***************************************************************************)
(* A step that keeps one queue exact, within its share and with a flag     *)
(* that fits, and leaves the other queues alone, keeps the invariant.      *)
(***************************************************************************)
LEMMA OneQueueStep ==
    ASSUME IInv, TypeOK', NEW p \in Port, NEW q \in Queue,
           NEW ing \in Nat, NEW psd \in BOOLEAN,
           ing <= reserve + shared_bytes + headroom[p],
           FlagFits(p, q, ing, psd),
           ingress_bytes' = [ingress_bytes EXCEPT ![p][q] = ing],
           hdrm_bytes' = [hdrm_bytes EXCEPT ![p][q] = Excess(ing)],
           paused' = [paused EXCEPT ![p][q] = psd]
    PROVE  IInv'
<1> SUFFICES ASSUME NEW a \in Port, NEW b \in Queue
             PROVE  /\ hdrm_bytes'[a][b] = Excess(ingress_bytes'[a][b])
                    /\ ingress_bytes'[a][b]
                           <= reserve + shared_bytes + headroom[a]
                    /\ ~CheckShouldPause(ingress_bytes'[a][b],
                                         hdrm_bytes'[a][b], paused'[a][b])
                    /\ ~CheckShouldResume(ingress_bytes'[a][b],
                                          hdrm_bytes'[a][b], paused'[a][b])
  BY DEF IInv, HeadroomExact, IngressBound, Hysteresis, Excess,
         CheckShouldPause, CheckShouldResume, GetSharedUsed, GetPfcThreshold,
         U32, Least
<1>1. CASE a = p /\ b = q
  <2>1. /\ ingress_bytes'[a][b] = ing
        /\ hdrm_bytes'[a][b] = Excess(ing)
        /\ paused'[a][b] = psd
    BY <1>1 DEF IInv, TypeOK
  <2> QED
    BY <1>1, <2>1, HysteresisIsFlagFits
<1>2. CASE ~(a = p /\ b = q)
  <2>1. /\ ingress_bytes'[a][b] = ingress_bytes[a][b]
        /\ hdrm_bytes'[a][b] = hdrm_bytes[a][b]
        /\ paused'[a][b] = paused[a][b]
    BY <1>2 DEF IInv, TypeOK
  <2> QED
    BY <2>1 DEF IInv, HeadroomExact, IngressBound, Hysteresis
<1> QED
  BY <1>1, <1>2

LEMMA InitIInv == Init => IInv
<1> SUFFICES ASSUME Init PROVE IInv
  OBVIOUS
<1>1. TypeOK
  BY MmuAssumption DEF Init, TypeOK
<1>2. ASSUME NEW p \in Port, NEW q \in Queue
      PROVE  /\ ingress_bytes[p][q] = 0 /\ hdrm_bytes[p][q] = 0
             /\ paused[p][q] = FALSE
  BY DEF Init
<1>3. Excess(0) = 0 /\ \A p \in Port : 0 <= reserve + shared_bytes + headroom[p]
  BY MmuAssumption DEF Excess
<1>4. HeadroomExact /\ IngressBound
  BY <1>2, <1>3 DEF HeadroomExact, IngressBound
<1>5. ASSUME NEW p \in Port, NEW q \in Queue
      PROVE  FlagFits(p, q, 0, FALSE)
  BY MmuAssumption DEF FlagFits, Ingress!XOFF
<1>6. Hysteresis
  BY <1>2, <1>3, <1>5, HysteresisIsFlagFits DEF Hysteresis
<1> QED
  BY <1>1, <1>4, <1>6 DEF IInv

LEMMA EnterIInv ==
    ASSUME IInv, NEW p \in Port, NEW o \in Port, NEW q \in Queue,
           NEW s \in PSize, Enter(p, o, q, s)
    PROVE  IInv'
<1> DEFINE ing == ingress_bytes[p][q] + s
           psd == paused[p][q] \/ ing >= Ingress(p, q)!XOFF
<1>1. /\ s \in Nat \ {0} /\ s < Word /\ Word \in Nat
      /\ reserve + shared_bytes + headroom[p] < Word
      /\ headroom[p] \in Nat /\ reserve \in Nat /\ shared_bytes \in Nat
  BY MmuAssumption
<1>2. /\ ing <= reserve + shared_bytes + headroom[p]
      /\ FlagFits(p, q, ing, psd)
      /\ ingress_bytes' = [ingress_bytes EXCEPT ![p][q] = ing]
      /\ hdrm_bytes' = [hdrm_bytes EXCEPT ![p][q] = Excess(ing)]
      /\ paused' = [paused EXCEPT ![p][q] = psd]
      /\ SharedInc(ingress_bytes[p][q], s) \in 0 .. (Word - 1)
  BY EnterEffect
<1>3. ing \in Nat /\ psd \in BOOLEAN
  BY <1>1, QueueInv
<1>4. TypeOK'
  <2>1. ing \in 0 .. (Word - 1) /\ Excess(ing) \in 0 .. (Word - 1)
    BY <1>1, <1>2, <1>3 DEF Excess
  <2>2. egress_bytes' \in [Port -> [Queue -> 0 .. (Word - 1)]]
    <3>1. U32(egress_bytes[o][q] + s) \in 0 .. (Word - 1)
      BY <1>1, U32Type DEF IInv, TypeOK
    <3> QED
      BY <3>1 DEF IInv, TypeOK, Enter, Admit, UpdateEgressAdmission
  <2>3. shared_used_bytes' \in 0 .. (Word - 1)
    <3> DEFINE inc == SharedInc(ingress_bytes[p][q], s)
    <3>1. shared_used_bytes \in 0 .. (Word - 1) /\ inc \in 0 .. (Word - 1)
      BY <1>2 DEF IInv, TypeOK
    <3> HIDE DEF inc
    <3>2. U32(shared_used_bytes + inc) \in 0 .. (Word - 1)
      BY <1>1, <3>1, U32Type
    <3> QED
      BY <3>2 DEF Enter, Admit, UpdateIngressAdmission, inc
  <2> QED
    BY <1>2, <1>3, <2>1, <2>2, <2>3 DEF IInv, TypeOK
<1> HIDE DEF ing, psd
<1> QED
  BY <1>2, <1>3, <1>4, OneQueueStep

LEMMA LeaveIInv ==
    ASSUME IInv, NEW p \in Port, NEW o \in Port, NEW q \in Queue,
           NEW s \in PSize, Leave(p, o, q, s)
    PROVE  IInv'
<1> DEFINE ing == ingress_bytes[p][q] - s
           psd == paused[p][q] /\ ing > Ingress(p, q)!XON
<1>1. /\ s \in Nat \ {0} /\ Word \in Nat
      /\ reserve + shared_bytes + headroom[p] < Word
      /\ headroom[p] \in Nat /\ reserve \in Nat /\ shared_bytes \in Nat
  BY MmuAssumption
<1>2. /\ ing \in Nat
      /\ FlagFits(p, q, ing, psd)
      /\ ingress_bytes' = [ingress_bytes EXCEPT ![p][q] = ing]
      /\ hdrm_bytes' = [hdrm_bytes EXCEPT ![p][q] = Excess(ing)]
      /\ paused' = [paused EXCEPT ![p][q] = psd]
      /\ FromShared(ingress_bytes[p][q], hdrm_bytes[p][q], s) \in 0 .. (Word - 1)
  BY LeaveEffect
<1>3. /\ psd \in BOOLEAN
      /\ ing <= reserve + shared_bytes + headroom[p]
  BY <1>1, QueueInv
<1>4. TypeOK'
  <2>1. ing \in 0 .. (Word - 1) /\ Excess(ing) \in 0 .. (Word - 1)
    BY <1>1, <1>2, <1>3 DEF Excess
  <2>2. egress_bytes' \in [Port -> [Queue -> 0 .. (Word - 1)]]
    <3>1. U32(egress_bytes[o][q] - s) \in 0 .. (Word - 1)
      BY <1>1, U32Type DEF IInv, TypeOK, Leave
    <3> QED
      BY <3>1 DEF IInv, TypeOK, Leave, Release, RemoveFromEgressAdmission
  <2>3. shared_used_bytes' \in 0 .. (Word - 1)
    <3>1. U32(shared_used_bytes
                - FromShared(ingress_bytes[p][q], hdrm_bytes[p][q], s))
             \in 0 .. (Word - 1)
      BY <1>1, <1>2, U32Type DEF IInv, TypeOK
    <3> QED
      BY <3>1 DEF Leave, Release, RemoveFromIngressAdmission
  <2> QED
    BY <1>2, <1>3, <2>1, <2>2, <2>3 DEF IInv, TypeOK
<1> HIDE DEF ing, psd
<1> QED
  BY <1>2, <1>3, <1>4, OneQueueStep

LEMMA StepIInv == IInv /\ [Next]_mmuVars => IInv'
<1> SUFFICES ASSUME IInv, [Next]_mmuVars PROVE IInv'
  OBVIOUS
<1>1. CASE Next
  BY <1>1, EnterIInv, LeaveIInv DEF Next
<1>2. CASE UNCHANGED mmuVars
  BY <1>2
  DEF mmuVars, IInv, TypeOK, HeadroomExact, IngressBound, Hysteresis, Excess,
      CheckShouldPause, CheckShouldResume
<1> QED
  BY <1>1, <1>2

\* The conjunction of all invariants holds in every reachable state.
THEOREM Inductive == Spec => []IInv
BY InitIInv, StepIInv, PTL DEF Spec

\* Every counter is a uint32_t and every flag a boolean, in every reachable
\* state (switch-mmu.cc, UpdateIngressAdmission, RemoveFromIngressAdmission).
THEOREM TypeCorrect == Spec => []TypeOK
<1>1. IInv => TypeOK
  BY DEF IInv
<1> QED
  BY <1>1, Inductive, PTL

\* The headroom in use is what the queue holds above reserve + shared_bytes,
\* whatever the order of arrivals and departures.
THEOREM HeadroomNeverDrifts == Spec => []HeadroomExact
<1>1. IInv => HeadroomExact
  BY DEF IInv
<1> QED
  BY <1>1, Inductive, PTL

\* Admission, which looks at the headroom only, bounds the whole queue.
THEOREM QueueWithinShare == Spec => []IngressBound
<1>1. IInv => IngressBound
  BY DEF IInv
<1> QED
  BY <1>1, Inductive, PTL

\* No handler leaves a queue that should be paused unpaused, or one that
\* should be resumed paused.
THEOREM NoForgottenPause == Spec => []Hysteresis
<1>1. IInv => Hysteresis
  BY DEF IInv
<1> QED
  BY <1>1, Inductive, PTL
-----------------------------------------------------------------------------
(***************************************************************************)
(* Refinement: seen from queue (p, q), every step of the MMU is a step of  *)
(* PfcQueue or leaves the queue alone.                                     *)
(***************************************************************************)
LEMMA StepRefines ==
    ASSUME IInv, [Next]_mmuVars, NEW p \in Port, NEW q \in Queue
    PROVE  [Ingress(p, q)!Next]_<<ingress_bytes[p][q], paused[p][q]>>
<1>1. ASSUME NEW a \in Port, NEW o \in Port, NEW b \in Queue,
             NEW s \in PSize, Enter(a, o, b, s)
      PROVE  [Ingress(p, q)!Next]_<<ingress_bytes[p][q], paused[p][q]>>
  <2>1. CASE a = p /\ b = q
    <3>1. /\ ingress_bytes'[p][q] = ingress_bytes[p][q] + s
          /\ paused'[p][q] = (paused[p][q]
                 \/ ingress_bytes[p][q] + s >= Ingress(p, q)!XOFF)
          /\ s + Excess(ingress_bytes[p][q]) <= headroom[p]
      BY <1>1, <2>1, EnterEffect DEF IInv, TypeOK
    <3>2. Ingress(p, q)!Arrive(s)
      BY <3>1
      DEF Ingress!Arrive, Ingress!AboveXoff, Ingress!XOFF, Excess
    <3> QED
      BY <3>2 DEF Ingress!Next
  <2>2. CASE ~(a = p /\ b = q)
    <3>1. PICK ing, psd :
            /\ ingress_bytes' = [ingress_bytes EXCEPT ![a][b] = ing]
            /\ paused' = [paused EXCEPT ![a][b] = psd]
      BY <1>1, EnterEffect
    <3>2. ingress_bytes'[p][q] = ingress_bytes[p][q]
      BY <2>2, <3>1 DEF IInv, TypeOK
    <3>3. paused'[p][q] = paused[p][q]
      BY <2>2, <3>1 DEF IInv, TypeOK
    <3> QED
      BY <3>2, <3>3
  <2> QED
    BY <2>1, <2>2
<1>2. ASSUME NEW a \in Port, NEW o \in Port, NEW b \in Queue,
             NEW s \in PSize, Leave(a, o, b, s)
      PROVE  [Ingress(p, q)!Next]_<<ingress_bytes[p][q], paused[p][q]>>
  <2>1. CASE a = p /\ b = q
    <3>1. /\ ingress_bytes'[p][q] = ingress_bytes[p][q] - s
          /\ paused'[p][q] = (paused[p][q]
                 /\ ingress_bytes[p][q] - s > Ingress(p, q)!XON)
          /\ s <= ingress_bytes[p][q]
      BY <1>2, <2>1, LeaveEffect DEF IInv, TypeOK, Leave
    <3>2. Ingress(p, q)!Depart(s)
      BY <3>1 DEF Ingress!Depart
    <3> QED
      BY <3>2 DEF Ingress!Next
  <2>2. CASE ~(a = p /\ b = q)
    <3>1. PICK ing, psd :
            /\ ingress_bytes' = [ingress_bytes EXCEPT ![a][b] = ing]
            /\ paused' = [paused EXCEPT ![a][b] = psd]
      BY <1>2, LeaveEffect
    <3>2. ingress_bytes'[p][q] = ingress_bytes[p][q]
      BY <2>2, <3>1 DEF IInv, TypeOK
    <3>3. paused'[p][q] = paused[p][q]
      BY <2>2, <3>1 DEF IInv, TypeOK
    <3> QED
      BY <3>2, <3>3
  <2> QED
    BY <2>1, <2>2
<1>3. CASE UNCHANGED mmuVars
  BY <1>3 DEF mmuVars
<1> QED
  BY <1>1, <1>2, <1>3 DEF Next

\* Every ingress queue of the switch is a PfcQueue.
THEOREM MmuRefinesPfcQueue == Spec => EachQueueIsPfcQueue
<1> DEFINE QInit == \A p \in Port, q \in Queue : Ingress(p, q)!Init
           QNext == \A p \in Port, q \in Queue :
                [Ingress(p, q)!Next]_<<ingress_bytes[p][q], paused[p][q]>>
<1>1. Init => QInit
  BY DEF Init, Ingress!Init
<1>2. IInv /\ [Next]_mmuVars => QNext
  BY StepRefines
<1>3. EachQueueIsPfcQueue <=> QInit /\ [][QNext]_mmuVars
  BY DEF EachQueueIsPfcQueue
<1> HIDE DEF QInit, QNext
<1>4. Spec => QInit /\ [][QNext]_mmuVars
  BY <1>1, <1>2, Inductive, PTL DEF Spec
<1> QED
  BY <1>3, <1>4
=============================================================================
