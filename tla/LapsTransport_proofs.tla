------------------------ MODULE LapsTransport_proofs ------------------------
(***************************************************************************)
(* Proofs about LapsTransport, for any flows, paths, sizes, windows and    *)
(* any bound on what is in flight.                                         *)
(***************************************************************************)
EXTENDS LapsTransport, SequenceTheorems, FunctionTheorems, FiniteSetTheorems,
        TLAPS

-----------------------------------------------------------------------------
(* Lemmas about the operators.                                             *)

\* A set of naturals has a smallest element.
LEMMA Smallest ==
    ASSUME NEW T, T \subseteq Nat, T # {}
    PROVE  \E n \in T : \A m \in T : n <= m
<1> DEFINE R == OpToRel(<, Nat)
<1>1. IsWellFoundedOn(R, Nat)
  BY NatLessThanWellFounded
<1>2. \A a, b \in Nat : a < b => <<a, b>> \in R
  BY DEF OpToRel
<1> HIDE DEF R
<1>3. PICK n \in T : \A m \in T : ~(<<m, n>> \in R)
  BY <1>1, WFMin
<1>4. ASSUME NEW m \in T PROVE n <= m
  <2>1. m \in Nat /\ n \in Nat
    OBVIOUS
  <2>2. ~(m < n)
    BY <2>1, <1>2, <1>3
  <2> QED
    BY <2>1, <2>2
<1> QED
  BY <1>3, <1>4

\* FirstGap finds the first segment not answered: a finite set cannot hold all
\* of the one segment more than it has elements among which the gap is sought.
LEMMA FirstGapIs ==
    ASSUME NEW S, S \subseteq Nat, IsFiniteSet(S), NEW u \in Nat
    PROVE  /\ FirstGap(S, u) \in Nat /\ FirstGap(S, u) >= u
           /\ FirstGap(S, u) \notin S
           /\ \A m \in u .. (FirstGap(S, u) - 1) : m \in S
<1> DEFINE c == Cardinality(S)
           T == {n \in u .. (u + c) : n \notin S}
<1>1. c \in Nat
  BY FS_CardinalityType
<1> HIDE DEF c
<1>2. T # {}
  <2> SUFFICES ASSUME T = {} PROVE FALSE
    OBVIOUS
  <2>1. u .. (u + c) \subseteq S
    OBVIOUS
  <2>2. IsFiniteSet(u .. (u + c)) /\ Cardinality(u .. (u + c)) = c + 1
    BY <1>1, FS_Interval
  <2>3. Cardinality(u .. (u + c)) <= c
    BY <2>1, FS_Subset DEF c
  <2> QED
    BY <1>1, <2>2, <2>3
<1>3. T \subseteq Nat
  BY <1>1
<1>4. PICK n \in T : \A m \in T : n <= m
  BY <1>2, <1>3, Smallest
<1>5. n \in u .. (u + c) /\ n \notin S /\ \A m \in u .. (n - 1) : m \in S
  BY <1>1, <1>4
<1>6. FirstGap(S, u) \in {k \in u .. (u + c) : k \notin S /\ \A m \in u .. (k - 1) : m \in S}
  BY <1>5 DEF FirstGap, c
<1> QED
  BY <1>1, <1>6

\* The elements of a finite set of naturals can be counted off in order: the
\* number of elements up to one is an injection into 1 .. its size, hence onto.
LEMMA Enumerated ==
    ASSUME NEW I, I \subseteq Nat, IsFiniteSet(I),
           NEW nth, nth = [k \in 1 .. Cardinality(I) |->
                              CHOOSE i \in I : Cardinality({j \in I : j <= i}) = k]
    PROVE  /\ Cardinality(I) \in Nat
           /\ \A k \in 1 .. Cardinality(I) : nth[k] \in I
           /\ \A k, l \in 1 .. Cardinality(I) : nth[k] = nth[l] => k = l
           /\ \A i \in I : \E k \in 1 .. Cardinality(I) : nth[k] = i
<1> DEFINE n == Cardinality(I)
           upTo(i) == {j \in I : j <= i}
           rank == [i \in I |-> Cardinality(upTo(i))]
<1>1. n \in Nat
  BY FS_CardinalityType
<1>2. ASSUME NEW i \in I
      PROVE  IsFiniteSet(upTo(i)) /\ rank[i] \in 1 .. n
  <2>1. IsFiniteSet(upTo(i)) /\ Cardinality(upTo(i)) <= n
    BY FS_Subset
  <2>2. Cardinality(upTo(i)) \in Nat /\ i \in upTo(i)
    BY <2>1, FS_CardinalityType
  <2>3. Cardinality(upTo(i)) # 0
    BY <2>1, <2>2, FS_EmptySet
  <2> QED
    BY <1>1, <2>1, <2>2, <2>3
<1>3. ASSUME NEW i \in I, NEW j \in I, i < j
      PROVE  rank[i] # rank[j]
  <2>1. upTo(i) \subseteq upTo(j) /\ j \in upTo(j) /\ j \notin upTo(i)
    <3>1. i \in Nat /\ j \in Nat /\ \A k \in I : k \in Nat
      BY <1>3
    <3>2. (\A k \in I : k <= i => k <= j) /\ j <= j /\ ~(j <= i)
      BY <3>1, <1>3
    <3> QED
      BY <3>2, Zenon
  <2>2. Cardinality(upTo(j)) = Cardinality(upTo(i)) => upTo(j) = upTo(i)
    BY <2>1, <1>2, FS_Subset
  <2> QED
    BY <2>1, <2>2
<1> HIDE DEF upTo
<1>4. rank \in [I -> 1 .. n]
  BY <1>2
<1>5. \A i, j \in I : rank[i] = rank[j] => i = j
  <2> SUFFICES ASSUME NEW i \in I, NEW j \in I, i # j PROVE rank[i] # rank[j]
    OBVIOUS
  <2>1. i < j \/ j < i
    OBVIOUS
  <2> QED
    BY <2>1, <1>3
<1> HIDE DEF rank
<1>6. rank \in Injection(I, 1 .. n)
  BY <1>4, <1>5, Fun_IsInj
<1>7. IsFiniteSet(1 .. n) /\ Cardinality(1 .. n) = n
  BY <1>1, FS_Interval
<1>8. rank \in Surjection(I, 1 .. n)
  BY <1>6, <1>7, FS_Injection
<1>9. \A k \in 1 .. n : \E i \in I : rank[i] = k
  BY <1>8, Fun_SurjectionProperties
<1>10. ASSUME NEW k \in 1 .. n
       PROVE  nth[k] \in I /\ rank[nth[k]] = k
  <2>1. \E i \in I : Cardinality(upTo(i)) = k
    BY <1>9 DEF rank
  <2>2. nth[k] = CHOOSE i \in I : Cardinality(upTo(i)) = k
    BY DEF upTo
  <2> QED
    BY <2>1, <2>2 DEF rank
<1>11. ASSUME NEW i \in I
       PROVE  rank[i] \in 1 .. n /\ nth[rank[i]] = i
  <2>1. rank[i] \in 1 .. n
    BY <1>4
  <2>2. nth[rank[i]] \in I /\ rank[nth[rank[i]]] = rank[i]
    BY <2>1, <1>10
  <2>3. nth[rank[i]] = i
    BY <2>2, <1>5, Zenon
  <2> QED
    BY <2>1, <2>3
<1>12. \A k, l \in 1 .. n : nth[k] = nth[l] => k = l
  BY <1>10
<1> HIDE DEF n
<1>13. \A i \in I : \E k \in 1 .. n : nth[k] = i
  BY <1>11
<1> QED
  BY <1>1, <1>10, <1>12, <1>13 DEF n

-----------------------------------------------------------------------------
(* Lemmas about lists.                                                     *)

\* Nothing is in the list twice.
Distinct(q) == \A i, j \in 1 .. Len(q) : q[i] = q[j] => i = j

LEMMA AppendFacts ==
    ASSUME NEW S, NEW q \in Seq(S), NEW e \in S
    PROVE  /\ Append(q, e) \in Seq(S) /\ Append(q, e) # <<>>
           /\ \A x : Contains(Append(q, e), x) <=> Contains(q, x) \/ x = e
           /\ Distinct(q) /\ ~Contains(q, e) => Distinct(Append(q, e))
<1>1. Len(q) \in Nat
  BY LenProperties
<1>2. /\ Append(q, e) \in Seq(S) /\ Append(q, e) # <<>>
      /\ Len(Append(q, e)) = Len(q) + 1
      /\ \A i \in 1 .. Len(q) : Append(q, e)[i] = q[i]
      /\ Append(q, e)[Len(q) + 1] = e
  BY AppendProperties
<1>3. \A x : Contains(Append(q, e), x) <=> Contains(q, x) \/ x = e
  BY <1>1, <1>2 DEF Contains
<1>4. Distinct(q) /\ ~Contains(q, e) => Distinct(Append(q, e))
  BY <1>1, <1>2 DEF Distinct, Contains
<1> QED
  BY <1>2, <1>3, <1>4

LEMMA ConcatFacts ==
    ASSUME NEW S, NEW q \in Seq(S), NEW r \in Seq(S)
    PROVE  /\ q \o r \in Seq(S)
           /\ \A x : Contains(q \o r, x) <=> Contains(q, x) \/ Contains(r, x)
           /\ Distinct(q) /\ Distinct(r) /\ (\A x : ~(Contains(q, x) /\ Contains(r, x)))
                => Distinct(q \o r)
<1>1. Len(q) \in Nat /\ Len(r) \in Nat
  BY LenProperties
<1>2. /\ q \o r \in Seq(S) /\ Len(q \o r) = Len(q) + Len(r)
      /\ \A i \in 1 .. Len(q) + Len(r) :
             (q \o r)[i] = IF i <= Len(q) THEN q[i] ELSE r[i - Len(q)]
  BY ConcatProperties
<1>3. ASSUME NEW x
      PROVE  Contains(q \o r, x) <=> Contains(q, x) \/ Contains(r, x)
  <2>1. ASSUME Contains(q \o r, x) PROVE Contains(q, x) \/ Contains(r, x)
    <3>1. PICK i \in 1 .. Len(q) + Len(r) : (q \o r)[i] = x
      BY <1>2, <2>1 DEF Contains
    <3>2. CASE i <= Len(q)
      BY <1>1, <1>2, <3>1, <3>2 DEF Contains
    <3>3. CASE ~(i <= Len(q))
      <4>1. i - Len(q) \in 1 .. Len(r) /\ r[i - Len(q)] = x
        BY <1>1, <1>2, <3>1, <3>3
      <4> QED
        BY <4>1 DEF Contains
    <3> QED
      BY <3>2, <3>3
  <2>2. ASSUME Contains(q, x) PROVE Contains(q \o r, x)
    BY <1>1, <1>2, <2>2 DEF Contains
  <2>3. ASSUME Contains(r, x) PROVE Contains(q \o r, x)
    <3>1. PICK i \in 1 .. Len(r) : r[i] = x
      BY <2>3 DEF Contains
    <3>2. /\ i + Len(q) \in 1 .. Len(q) + Len(r) /\ ~(i + Len(q) <= Len(q))
          /\ (i + Len(q)) - Len(q) = i
      BY <1>1
    <3> QED
      BY <1>2, <3>1, <3>2 DEF Contains
  <2> QED
    BY <2>1, <2>2, <2>3
<1>4. ASSUME Distinct(q), Distinct(r), \A x : ~(Contains(q, x) /\ Contains(r, x))
      PROVE  Distinct(q \o r)
  <2> SUFFICES ASSUME NEW i \in 1 .. Len(q) + Len(r), NEW j \in 1 .. Len(q) + Len(r),
                      (q \o r)[i] = (q \o r)[j]
               PROVE  i = j
    BY <1>2 DEF Distinct
  <2>1. CASE i <= Len(q) /\ j <= Len(q)
    BY <1>1, <1>2, <1>4, <2>1 DEF Distinct
  <2>2. CASE i > Len(q) /\ j > Len(q)
    <3>1. /\ i - Len(q) \in 1 .. Len(r) /\ j - Len(q) \in 1 .. Len(r)
          /\ r[i - Len(q)] = r[j - Len(q)]
      BY <1>1, <1>2, <2>2
    <3>2. i - Len(q) = j - Len(q)
      BY <1>4, <3>1 DEF Distinct
    <3> QED
      BY <1>1, <3>2
  <2>3. CASE i <= Len(q) /\ j > Len(q)
    <3>1. q[i] = r[j - Len(q)] /\ j - Len(q) \in 1 .. Len(r) /\ i \in 1 .. Len(q)
      BY <1>1, <1>2, <2>3
    <3> QED
      BY <1>4, <3>1 DEF Contains
  <2>4. CASE i > Len(q) /\ j <= Len(q)
    <3>1. q[j] = r[i - Len(q)] /\ i - Len(q) \in 1 .. Len(r) /\ j \in 1 .. Len(q)
      BY <1>1, <1>2, <2>4
    <3> QED
      BY <1>4, <3>1 DEF Contains
  <2> QED
    BY <1>1, <2>1, <2>2, <2>3, <2>4
<1> QED
  BY <1>2, <1>3, <1>4

LEMMA HeadTailFacts ==
    ASSUME NEW S, NEW q \in Seq(S), q # <<>>
    PROVE  /\ Head(q) \in S /\ Tail(q) \in Seq(S) /\ Len(q) \in Nat \ {0}
           /\ Head(q) = q[1] /\ Len(Tail(q)) = Len(q) - 1
           /\ \A i \in 1 .. Len(q) - 1 : Tail(q)[i] = q[i + 1]
           /\ Contains(q, Head(q))
           /\ \A x : Contains(q, x) <=> x = Head(q) \/ Contains(Tail(q), x)
           /\ Distinct(q) => ~Contains(Tail(q), Head(q)) /\ Distinct(Tail(q))
<1>1. Len(q) \in Nat \ {0}
  BY EmptySeq
<1>2. /\ Head(q) \in S /\ Tail(q) \in Seq(S) /\ Len(Tail(q)) = Len(q) - 1
      /\ \A i \in 1 .. Len(q) - 1 : Tail(q)[i] = q[i + 1]
  BY HeadTailProperties
<1>3. Head(q) = q[1] /\ 1 \in 1 .. Len(q)
  BY <1>1
<1>4. ASSUME NEW x
      PROVE  Contains(q, x) <=> x = Head(q) \/ Contains(Tail(q), x)
  <2>1. ASSUME Contains(q, x), x # Head(q) PROVE Contains(Tail(q), x)
    <3>1. PICK i \in 1 .. Len(q) : q[i] = x
      BY <2>1 DEF Contains
    <3>2. i # 1
      BY <1>3, <2>1, <3>1
    <3>3. i - 1 \in 1 .. Len(Tail(q)) /\ Tail(q)[i - 1] = q[(i - 1) + 1] /\ (i - 1) + 1 = i
      BY <1>1, <1>2, <3>2
    <3> QED
      BY <3>1, <3>3 DEF Contains
  <2>2. ASSUME Contains(Tail(q), x) PROVE Contains(q, x)
    <3>1. PICK i \in 1 .. Len(q) - 1 : Tail(q)[i] = x
      BY <1>2, <2>2 DEF Contains
    <3>2. i + 1 \in 1 .. Len(q) /\ q[i + 1] = x
      BY <1>1, <1>2, <3>1
    <3> QED
      BY <3>2 DEF Contains
  <2> QED
    BY <1>3, <2>1, <2>2 DEF Contains
<1>5. ASSUME Distinct(q)
      PROVE  ~Contains(Tail(q), Head(q)) /\ Distinct(Tail(q))
  <2>1. \A i, j \in 1 .. Len(q) - 1 : q[i + 1] = q[j + 1] => i = j
    <3> SUFFICES ASSUME NEW i \in 1 .. Len(q) - 1, NEW j \in 1 .. Len(q) - 1,
                        q[i + 1] = q[j + 1]
                 PROVE  i = j
      OBVIOUS
    <3>1. i + 1 \in 1 .. Len(q) /\ j + 1 \in 1 .. Len(q)
      BY <1>1
    <3>2. i + 1 = j + 1
      BY <1>5, <3>1 DEF Distinct
    <3> QED
      BY <1>1, <3>2
  <2>2. \A i \in 1 .. Len(q) - 1 : q[i + 1] # q[1]
    <3> SUFFICES ASSUME NEW i \in 1 .. Len(q) - 1, q[i + 1] = q[1] PROVE FALSE
      OBVIOUS
    <3>1. i + 1 \in 1 .. Len(q) /\ i + 1 # 1
      BY <1>1
    <3> QED
      BY <1>3, <1>5, <3>1 DEF Distinct
  <2> QED
    BY <1>2, <1>3, <2>1, <2>2 DEF Distinct, Contains
<1> QED
  BY <1>1, <1>2, <1>3, <1>4, <1>5 DEF Contains

LEMMA SubSeqFacts ==
    ASSUME NEW S, NEW q \in Seq(S),
           NEW m \in 1 .. (Len(q) + 1), NEW n \in 0 .. Len(q), m <= n + 1
    PROVE  /\ SubSeq(q, m, n) \in Seq(S) /\ Len(SubSeq(q, m, n)) = n - m + 1
           /\ \A i \in 1 .. n - m + 1 : SubSeq(q, m, n)[i] = q[m + i - 1]
           /\ \A x : Contains(SubSeq(q, m, n), x) <=> \E i \in m .. n : q[i] = x
           /\ Distinct(q) => Distinct(SubSeq(q, m, n))
<1>1. Len(q) \in Nat /\ m \in Int /\ n \in Int
  BY LenProperties
<1>2. /\ SubSeq(q, m, n) \in Seq(S) /\ Len(SubSeq(q, m, n)) = n - m + 1
      /\ \A i \in 1 .. n - m + 1 : SubSeq(q, m, n)[i] = q[m + i - 1]
  BY <1>1, SubSeqProperties
<1>3. ASSUME NEW x
      PROVE  Contains(SubSeq(q, m, n), x) <=> \E i \in m .. n : q[i] = x
  <2>1. ASSUME NEW i \in m .. n, q[i] = x PROVE Contains(SubSeq(q, m, n), x)
    <3>1. i - m + 1 \in 1 .. n - m + 1 /\ m + (i - m + 1) - 1 = i
      BY <1>1
    <3> QED
      BY <1>2, <2>1, <3>1 DEF Contains
  <2>2. ASSUME NEW i \in 1 .. n - m + 1, SubSeq(q, m, n)[i] = x
        PROVE  \E k \in m .. n : q[k] = x
    <3>1. m + i - 1 \in m .. n
      BY <1>1
    <3> QED
      BY <1>2, <2>2, <3>1
  <2> QED
    BY <1>2, <2>1, <2>2 DEF Contains
<1>4. ASSUME Distinct(q) PROVE Distinct(SubSeq(q, m, n))
  <2> SUFFICES ASSUME NEW i \in 1 .. n - m + 1, NEW j \in 1 .. n - m + 1,
                      q[m + i - 1] = q[m + j - 1]
               PROVE  i = j
    BY <1>2 DEF Distinct
  <2>1. m + i - 1 \in 1 .. Len(q) /\ m + j - 1 \in 1 .. Len(q)
    BY <1>1
  <2>2. m + i - 1 = m + j - 1
    BY <1>4, <2>1 DEF Distinct
  <2> QED
    BY <1>1, <2>2
<1> QED
  BY <1>2, <1>3, <1>4

\* SegmentsOf returns the segments of the flow, all of them, each as often.
LEMMA SegmentsOfIs ==
    ASSUME NEW q \in Seq(Entry), NEW f \in Flow
    PROVE  /\ SegmentsOf(q, f) \in Seq(Nat)
           /\ \A s : Contains(SegmentsOf(q, f), s) <=> s \in Segment(f) /\ Contains(q, <<f, s>>)
           /\ Distinct(q) => Distinct(SegmentsOf(q, f))
<1> DEFINE mine == {i \in DOMAIN q : q[i][1] = f}
           nth == [k \in 1 .. Cardinality(mine) |->
                      CHOOSE i \in mine : Cardinality({j \in mine : j <= i}) = k]
           r == SegmentsOf(q, f)
<1>1. Len(q) \in Nat /\ DOMAIN q = 1 .. Len(q) /\ \A i \in 1 .. Len(q) : q[i] \in Entry
  BY LenProperties, ElementOfSeq
<1>2. mine \subseteq Nat /\ IsFiniteSet(mine)
  <2>1. IsFiniteSet(1 .. Len(q)) /\ mine \subseteq 1 .. Len(q)
    BY <1>1, FS_Interval
  <2> QED
    BY <2>1, FS_Subset
<1>3. \A i \in mine : i \in 1 .. Len(q) /\ q[i][2] \in Segment(f) /\ q[i] = <<f, q[i][2]>>
  BY <1>1 DEF Entry
<1>4. \A i \in 1 .. Len(q) : \A s : q[i] = <<f, s>> => i \in mine /\ q[i][2] = s
  BY <1>1
<1>5. r = [k \in 1 .. Cardinality(mine) |-> q[nth[k]][2]]
  BY DEF SegmentsOf
<1> HIDE DEF mine
<1>6. /\ Cardinality(mine) \in Nat
      /\ \A k \in 1 .. Cardinality(mine) : nth[k] \in mine
      /\ \A k, l \in 1 .. Cardinality(mine) : nth[k] = nth[l] => k = l
      /\ \A i \in mine : \E k \in 1 .. Cardinality(mine) : nth[k] = i
  BY <1>2, Enumerated
<1> HIDE DEF nth, r
<1>7. \A k \in 1 .. Cardinality(mine) : r[k] = q[nth[k]][2] /\ r[k] \in Segment(f)
  BY <1>3, <1>5, <1>6
<1>8. r \in Seq(Nat)
  <2>1. Segment(f) \subseteq Nat
    BY LapsAssumption DEF Segment
  <2>2. r \in [1 .. Cardinality(mine) -> Nat]
    BY <1>5, <1>7, <2>1
  <2> QED
    BY <1>6, <2>2, SeqDef
<1>9. Len(r) = Cardinality(mine)
  BY <1>5, <1>6, <1>8, LenProperties
<1>10. ASSUME NEW s
       PROVE  Contains(r, s) <=> s \in Segment(f) /\ Contains(q, <<f, s>>)
  <2>1. ASSUME NEW k \in 1 .. Cardinality(mine), r[k] = s
        PROVE  s \in Segment(f) /\ Contains(q, <<f, s>>)
    <3>1. nth[k] \in mine /\ q[nth[k]][2] = s
      BY <2>1, <1>6, <1>7
    <3>2. nth[k] \in 1 .. Len(q) /\ q[nth[k]] = <<f, s>> /\ s \in Segment(f)
      BY <3>1, <1>3
    <3> QED
      BY <3>2 DEF Contains
  <2>2. ASSUME NEW i \in 1 .. Len(q), q[i] = <<f, s>>
        PROVE  Contains(r, s)
    BY <2>2, <1>4, <1>6, <1>7, <1>9 DEF Contains
  <2> QED
    BY <1>9, <2>1, <2>2 DEF Contains
<1>11. ASSUME Distinct(q) PROVE Distinct(r)
  <2> SUFFICES ASSUME NEW k \in 1 .. Cardinality(mine), NEW l \in 1 .. Cardinality(mine),
                      r[k] = r[l]
               PROVE  k = l
    BY <1>9 DEF Distinct
  <2>1. /\ nth[k] \in mine /\ nth[l] \in mine /\ q[nth[k]][2] = q[nth[l]][2]
    BY <1>6, <1>7
  <2>2. /\ nth[k] \in 1 .. Len(q) /\ nth[l] \in 1 .. Len(q)
        /\ q[nth[k]] = <<f, q[nth[k]][2]>> /\ q[nth[l]] = <<f, q[nth[l]][2]>>
    BY <2>1, <1>3
  <2>3. q[nth[k]] = q[nth[l]]
    BY <2>1, <2>2
  <2>4. nth[k] = nth[l]
    BY <1>11, <2>2, <2>3 DEF Distinct
  <2> QED
    BY <1>6, <2>4
<1> QED
  BY <1>8, <1>10, <1>11 DEF r

\* Position returns where the entry is.
LEMMA PositionIs ==
    ASSUME NEW p \in Path, NEW e,
           outstanding[p] \in Seq(Entry), Distinct(outstanding[p]), IsOutstanding(p, e)
    PROVE  /\ Position(p, e) \in 1 .. Len(outstanding[p])
           /\ outstanding[p][Position(p, e)] = e
<1> DEFINE I == {i \in 1 .. Len(outstanding[p]) : outstanding[p][i] = e}
<1>1. PICK i \in 1 .. Len(outstanding[p]) : outstanding[p][i] = e
  BY DEF IsOutstanding, Contains
<1>2. I = {i}
  BY <1>1 DEF Distinct
<1>3. Position(p, e) = IF I # {} THEN Min(I) ELSE 0
  BY DEF Position, SelectInSeq
<1> HIDE DEF I
<1>4. Len(outstanding[p]) \in Nat
  BY LenProperties
<1>5. Min({i}) = i
  <2>1. i <= i
    BY <1>4
  <2> QED
    BY <2>1 DEF Min
<1> QED
  BY <1>1, <1>2, <1>3, <1>5

-----------------------------------------------------------------------------
(* The invariant.                                                          *)

IsLossy(e) == Contains(lossy[e[1]], e[2])
IsAnswered(e) == e[2] \in Answered(e[1])
IsSent(e) == e[2] < max_next_seq[e[1]]

\* The lists hold nothing twice.
ListsDistinct ==
    /\ \A p \in Path : Distinct(outstanding[p])
    /\ \A f \in Flow : Distinct(lossy[f])

\* EachSegmentOnce without counting: the places exclude each other, and a
\* segment has one of them as soon as it was sent.
OnePlace ==
    \A e \in Entry :
        /\ \A p, q \in Path : IsOutstanding(p, e) /\ IsOutstanding(q, e) => p = q
        /\ \A p \in Path : IsOutstanding(p, e) => ~IsLossy(e) /\ ~IsAnswered(e)
        /\ IsLossy(e) => ~IsAnswered(e)
        /\ IsSent(e) <=> IsLossy(e) \/ IsAnswered(e) \/ \E p \in Path : IsOutstanding(p, e)

\* snd_una is the first gap: nothing above it is stored below it.
GapIsFirst == \A f \in Flow : \A s \in sacked[f] : s > snd_una[f]

\* The timer runs exactly over a list with something in it.
TimerExact == \A p \in Path : rto[p] <=> outstanding[p] # <<>>

\* What is answered, or whose answer is on the way, reached the receiver, and
\* a flow that is over is all answered.
AnswersTrue ==
    /\ \A f \in Flow : Answered(f) \subseteq delivered[f]
    /\ \A p \in Path : \A e \in Entry : Contains(acks[p], e) => e[2] \in delivered[e[1]]
    /\ \A f \in Flow : finished[f] => snd_una[f] = Size[f]

IInv == TypeOK /\ ListsDistinct /\ OnePlace /\ GapIsFirst /\ TimerExact /\ AnswersTrue

LEMMA EntryFacts ==
    /\ \A e \in Entry : /\ e[1] \in Flow /\ e[2] \in Segment(e[1])
                        /\ e[2] \in Nat /\ e = <<e[1], e[2]>>
    /\ \A f \in Flow : /\ Size[f] \in Nat \ {0} /\ Segment(f) \subseteq Nat
                       /\ \A s : s \in Segment(f) <=> s \in Nat /\ s < Size[f]
                       /\ \A s \in Segment(f) : <<f, s>> \in Entry
<1>1. \A f \in Flow : /\ Size[f] \in Nat \ {0} /\ Segment(f) \subseteq Nat
                      /\ \A s : s \in Segment(f) <=> s \in Nat /\ s < Size[f]
  BY LapsAssumption DEF Segment
<1> QED
  BY <1>1 DEF Entry

\* What the invariant says of the types, flow by flow and path by path.
LEMMA Typed ==
    ASSUME TypeOK
    PROVE  /\ \A f \in Flow :
                /\ snd_una[f] \in 0 .. Size[f] /\ max_next_seq[f] \in 0 .. Size[f]
                /\ sacked[f] \subseteq Segment(f) /\ delivered[f] \subseteq Segment(f)
                /\ lossy[f] \in Seq(Nat)
                /\ \A s : Contains(lossy[f], s) => s \in Segment(f)
                /\ win[f] \in 1 .. MaxWin /\ finished[f] \in BOOLEAN
                /\ Answered(f) \subseteq Segment(f)
           /\ \A p \in Path : /\ outstanding[p] \in Seq(Entry) /\ data[p] \in Seq(Entry)
                              /\ acks[p] \in Seq(Entry) /\ rto[p] \in BOOLEAN
<1>1. ASSUME NEW f \in Flow, NEW s, Contains(lossy[f], s) PROVE s \in Segment(f)
  <2>1. lossy[f] \in Seq(Nat)
    BY DEF TypeOK
  <2>2. s \in ToSet(lossy[f])
    BY <2>1, <1>1, LenProperties DEF Contains, ToSet
  <2> QED
    BY <2>2 DEF TypeOK
<1> QED
  BY <1>1, EntryFacts DEF TypeOK, Answered

\* The segments of the lost list q are lossy, besides those that were.
LEMMA DeclareLostDoes ==
    ASSUME TypeOK, ListsDistinct, OnePlace, NEW p \in Path, NEW q \in Seq(Entry), Distinct(q),
           \A x \in Entry : Contains(q, x) => IsOutstanding(p, x),
           DeclareLost(q)
    PROVE  /\ lossy' \in [Flow -> Seq(Nat)]
           /\ \A f \in Flow : Distinct(lossy'[f]) /\ ToSet(lossy'[f]) \subseteq Segment(f)
           /\ \A x \in Entry : IsLossy(x)' <=> IsLossy(x) \/ Contains(q, x)
<1>1. lossy' = [f \in Flow |-> lossy[f] \o SegmentsOf(q, f)]
  BY DEF DeclareLost
<1>2. ASSUME NEW f \in Flow
      PROVE  /\ lossy'[f] \in Seq(Nat) /\ Distinct(lossy'[f])
             /\ \A s : Contains(lossy'[f], s)
                         <=> Contains(lossy[f], s) \/ (s \in Segment(f) /\ Contains(q, <<f, s>>))
  <2>1. /\ SegmentsOf(q, f) \in Seq(Nat) /\ Distinct(SegmentsOf(q, f))
        /\ \A s : Contains(SegmentsOf(q, f), s) <=> s \in Segment(f) /\ Contains(q, <<f, s>>)
    BY SegmentsOfIs
  <2>2. lossy[f] \in Seq(Nat) /\ Distinct(lossy[f])
    BY Typed DEF ListsDistinct
  <2>3. ASSUME NEW s, Contains(lossy[f], s), Contains(SegmentsOf(q, f), s) PROVE FALSE
    <3>1. <<f, s>> \in Entry /\ Contains(q, <<f, s>>)
      BY <2>1, <2>3, EntryFacts
    <3>2. IsOutstanding(p, <<f, s>>) /\ IsLossy(<<f, s>>)
      BY <2>3, <3>1 DEF IsLossy
    <3> QED
      BY <3>1, <3>2 DEF OnePlace
  <2>4. lossy'[f] = lossy[f] \o SegmentsOf(q, f)
    BY <1>1
  <2> QED
    BY <2>1, <2>2, <2>3, <2>4, ConcatFacts
<1>3. ASSUME NEW f \in Flow PROVE ToSet(lossy'[f]) \subseteq Segment(f)
  <2> SUFFICES ASSUME NEW s \in ToSet(lossy'[f]) PROVE s \in Segment(f)
    OBVIOUS
  <2>1. Contains(lossy'[f], s)
    BY <1>2, LenProperties DEF ToSet, Contains
  <2> QED
    BY <1>2, <2>1, Typed
<1>4. ASSUME NEW x \in Entry
      PROVE  IsLossy(x)' <=> IsLossy(x) \/ Contains(q, x)
  <2>1. x[1] \in Flow /\ x[2] \in Segment(x[1]) /\ x = <<x[1], x[2]>>
    BY EntryFacts
  <2> QED
    BY <1>2, <2>1 DEF IsLossy
<1>5. lossy' \in [Flow -> Seq(Nat)]
  BY <1>1, <1>2
<1> QED
  BY <1>2, <1>3, <1>4, <1>5

\* Entries leave the list of a path to be lossy, or answered: each has one place.
LEMMA PlacesMove ==
    ASSUME OnePlace, NEW p \in Path, NEW q, NEW A,
           \A x \in Entry : Contains(q, x) => IsOutstanding(p, x),
           \A x \in A : x \in Entry /\ IsOutstanding(p, x) /\ ~Contains(q, x),
           \A x \in Entry : IsOutstanding(p, x)'
                              <=> IsOutstanding(p, x) /\ ~Contains(q, x) /\ x \notin A,
           \A r \in Path \ {p} : \A x \in Entry : IsOutstanding(r, x)' <=> IsOutstanding(r, x),
           \A x \in Entry : IsLossy(x)' <=> IsLossy(x) \/ Contains(q, x),
           \A x \in Entry : IsAnswered(x)' <=> IsAnswered(x) \/ x \in A,
           \A x \in Entry : IsSent(x)' <=> IsSent(x)
    PROVE  OnePlace'
<1> SUFFICES ASSUME NEW x \in Entry
             PROVE  /\ \A r, t \in Path : IsOutstanding(r, x)' /\ IsOutstanding(t, x)' => r = t
                    /\ \A r \in Path : IsOutstanding(r, x)' => ~IsLossy(x)' /\ ~IsAnswered(x)'
                    /\ IsLossy(x)' => ~IsAnswered(x)'
                    /\ IsSent(x)' <=> \/ IsLossy(x)' \/ IsAnswered(x)'
                                      \/ \E r \in Path : IsOutstanding(r, x)'
  BY DEF OnePlace
<1>1. /\ \A r, t \in Path : IsOutstanding(r, x) /\ IsOutstanding(t, x) => r = t
      /\ \A r \in Path : IsOutstanding(r, x) => ~IsLossy(x) /\ ~IsAnswered(x)
      /\ IsLossy(x) => ~IsAnswered(x)
      /\ IsSent(x) <=> IsLossy(x) \/ IsAnswered(x) \/ \E r \in Path : IsOutstanding(r, x)
  BY DEF OnePlace
<1>2. \A r \in Path : IsOutstanding(r, x)' <=> /\ IsOutstanding(r, x)
                                               /\ r = p => ~Contains(q, x) /\ x \notin A
  OBVIOUS
<1>3. (Contains(q, x) => IsOutstanding(p, x)) /\ (x \in A => IsOutstanding(p, x) /\ ~Contains(q, x))
  OBVIOUS
<1> QED
  BY <1>1, <1>2, <1>3

\* The list of lossy segments loses its first one, or is empty and stays so.
LEMMA SegmentTaken ==
    ASSUME IInv, NEW f \in Flow, MaySend(f), GetNxtPacket(f, NextSegment(f))
    PROVE  LET e == <<f, NextSegment(f)>> IN
           /\ e \in Entry /\ ~IsAnswered(e)
           /\ \A p \in Path : ~IsOutstanding(p, e)
           /\ \A x \in Entry : IsLossy(x)' <=> IsLossy(x) /\ x # e
           /\ \A x \in Entry : IsSent(x)' <=> IsSent(x) \/ x = e
           /\ lossy' \in [Flow -> Seq(Nat)]
           /\ \A g \in Flow : Distinct(lossy'[g]) /\ ToSet(lossy'[g]) \subseteq Segment(g)
           /\ max_next_seq' \in [Flow -> Nat]
           /\ \A g \in Flow : max_next_seq'[g] <= Size[g]
<1> DEFINE s == NextSegment(f)
           e == <<f, s>>
<1> USE DEF IInv
<1>1. /\ s >= snd_una[f]
      /\ lossy' = [lossy EXCEPT ![f] = IF @ # <<>> THEN Tail(@) ELSE @]
      /\ max_next_seq' = [max_next_seq EXCEPT ![f] = IF @ < s + 1 THEN s + 1 ELSE @]
  BY DEF GetNxtPacket
<1>2. /\ lossy[f] \in Seq(Nat) /\ Distinct(lossy[f])
      /\ max_next_seq[f] \in 0 .. Size[f] /\ Size[f] \in Nat
  BY Typed, EntryFacts DEF ListsDistinct
<1>3. /\ lossy \in [Flow -> Seq(Nat)] /\ max_next_seq \in [Flow -> Nat]
      /\ \A g \in Flow : max_next_seq[g] <= Size[g] /\ ToSet(lossy[g]) \subseteq Segment(g)
  BY DEF TypeOK
<1>4. lossy' \in [Flow -> Seq(Nat)] /\ Distinct(lossy'[f]) /\ ToSet(lossy'[f]) \subseteq Segment(f)
      /\ \A g \in Flow \ {f} : lossy'[g] = lossy[g]
  <2>1. CASE lossy[f] # <<>>
    <3>1. lossy'[f] = Tail(lossy[f]) /\ \A g \in Flow \ {f} : lossy'[g] = lossy[g]
      BY <1>1, <1>3, <2>1
    <3>2. /\ Tail(lossy[f]) \in Seq(Nat) /\ Distinct(Tail(lossy[f]))
          /\ \A x : Contains(Tail(lossy[f]), x) => Contains(lossy[f], x)
      BY <1>2, <2>1, HeadTailFacts
    <3>3. ToSet(Tail(lossy[f])) \subseteq Segment(f)
      <4> SUFFICES ASSUME NEW x \in ToSet(Tail(lossy[f])) PROVE x \in Segment(f)
        OBVIOUS
      <4>1. Contains(Tail(lossy[f]), x)
        BY <3>2, LenProperties DEF ToSet, Contains
      <4> QED
        BY <3>2, <4>1, Typed
    <3>4. lossy' \in [Flow -> Seq(Nat)]
      BY <1>1, <1>3, <3>2
    <3> QED
      BY <3>1, <3>2, <3>3, <3>4
  <2>2. CASE lossy[f] = <<>>
    <3>1. lossy' = lossy
      BY <1>1, <1>3, <2>2
    <3> QED
      BY <1>2, <1>3, <3>1
  <2> QED
    BY <2>1, <2>2
<1>5. \A g \in Flow : Distinct(lossy'[g]) /\ ToSet(lossy'[g]) \subseteq Segment(g)
  <2>1. \A g \in Flow : Distinct(lossy[g])
    BY DEF ListsDistinct
  <2>2. ASSUME NEW g \in Flow \ {f}
        PROVE  Distinct(lossy'[g]) /\ ToSet(lossy'[g]) \subseteq Segment(g)
    BY <1>3, <1>4, <2>1
  <2> QED
    BY <1>4, <2>2
<1>6. /\ max_next_seq'[f] = IF max_next_seq[f] < s + 1 THEN s + 1 ELSE max_next_seq[f]
      /\ \A g \in Flow \ {f} : max_next_seq'[g] = max_next_seq[g]
  BY <1>1, <1>3
<1>7. CASE lossy[f] # <<>>
  <2>1. /\ s = Head(lossy[f]) /\ Contains(lossy[f], s) /\ s \in Segment(f) /\ e \in Entry
        /\ \A x : Contains(Tail(lossy[f]), x) <=> Contains(lossy[f], x) /\ x # s
    BY <1>2, <1>7, HeadTailFacts, Typed, EntryFacts DEF NextSegment
  <2>2. e[1] = f /\ e[2] = s /\ IsLossy(e)
    BY <2>1 DEF IsLossy
  <2>3. ~IsAnswered(e) /\ IsSent(e) /\ \A p \in Path : ~IsOutstanding(p, e)
    BY <2>1, <2>2 DEF OnePlace
  <2>4. s < max_next_seq[f] /\ s \in Nat
    BY <2>1, <2>2, <2>3, EntryFacts DEF IsSent
  <2>5. max_next_seq'[f] = max_next_seq[f]
    BY <1>2, <1>6, <2>4
  <2>6. max_next_seq' = max_next_seq
    BY <1>1, <1>3, <2>5
  <2>7. ASSUME NEW x \in Entry PROVE IsLossy(x)' <=> IsLossy(x) /\ x # e
    <3>1. x = <<x[1], x[2]>> /\ x[1] \in Flow
      BY EntryFacts
    <3>2. CASE x[1] = f
      <4>1. lossy'[f] = Tail(lossy[f])
        BY <1>1, <1>3, <1>7
      <4> QED
        BY <2>1, <3>1, <3>2, <4>1 DEF IsLossy
    <3>3. CASE x[1] # f
      BY <1>4, <3>1, <3>3 DEF IsLossy
    <3> QED
      BY <3>2, <3>3
  <2>8. \A x \in Entry : IsSent(x)' <=> IsSent(x) \/ x = e
    BY <2>3, <2>6 DEF IsSent
  <2> QED
    BY <1>3, <1>4, <1>5, <2>1, <2>3, <2>6, <2>7, <2>8
<1>8. CASE lossy[f] = <<>>
  <2>1. s = max_next_seq[f] /\ s < Size[f] /\ s \in Nat
    BY <1>2, <1>8 DEF NextSegment, MaySend, GetBytesLeft
  <2>2. s \in Segment(f) /\ e \in Entry /\ e[1] = f /\ e[2] = s
    BY <2>1, EntryFacts
  <2>3. ~IsSent(e)
    BY <1>2, <2>1, <2>2 DEF IsSent
  <2>4. ~IsLossy(e) /\ ~IsAnswered(e) /\ \A p \in Path : ~IsOutstanding(p, e)
    BY <2>2, <2>3 DEF OnePlace
  <2>5. max_next_seq'[f] = s + 1
    BY <1>2, <1>6, <2>1
  <2>6. lossy' = lossy
    BY <1>1, <1>3, <1>8
  <2>7. \A x \in Entry : IsLossy(x)' <=> IsLossy(x) /\ x # e
    BY <2>4, <2>6 DEF IsLossy
  <2>8. ASSUME NEW x \in Entry PROVE IsSent(x)' <=> IsSent(x) \/ x = e
    <3>1. x = <<x[1], x[2]>> /\ x[1] \in Flow /\ x[2] \in Nat
      BY EntryFacts
    <3>2. CASE x[1] = f
      <4>1. x[2] < s + 1 <=> x[2] < s \/ x[2] = s
        BY <2>1, <3>1
      <4> QED
        BY <2>1, <2>5, <3>1, <3>2, <4>1 DEF IsSent
    <3>3. CASE x[1] # f
      BY <1>6, <3>1, <3>3 DEF IsSent
    <3> QED
      BY <3>2, <3>3
  <2>9. max_next_seq' \in [Flow -> Nat] /\ \A g \in Flow : max_next_seq'[g] <= Size[g]
    BY <1>1, <1>2, <1>3, <1>6, <2>1, <2>5
  <2> QED
    BY <1>4, <1>5, <2>2, <2>4, <2>7, <2>8, <2>9
<1> QED
  BY <1>7, <1>8

\* A segment goes out on a path.
LEMMA SendKeeps ==
    ASSUME IInv, NEW f \in Flow, NEW p \in Path, Send(f, p)
    PROVE  IInv'
<1> DEFINE e == <<f, NextSegment(f)>>
<1> USE DEF IInv
<1>1. /\ outstanding' = [outstanding EXCEPT ![p] = Append(@, e)]
      /\ rto' = [rto EXCEPT ![p] = TRUE]
      /\ data' = [data EXCEPT ![p] = Append(@, e)]
      /\ UNCHANGED <<snd_una, sacked, win, finished, awake, acks, delivered>>
  BY DEF Send, AppendOutStandingDataPerPath
<1>2. /\ e \in Entry /\ ~IsAnswered(e)
      /\ \A q \in Path : ~IsOutstanding(q, e)
      /\ \A x \in Entry : IsLossy(x)' <=> IsLossy(x) /\ x # e
      /\ \A x \in Entry : IsSent(x)' <=> IsSent(x) \/ x = e
      /\ lossy' \in [Flow -> Seq(Nat)]
      /\ \A g \in Flow : Distinct(lossy'[g]) /\ ToSet(lossy'[g]) \subseteq Segment(g)
      /\ max_next_seq' \in [Flow -> Nat]
      /\ \A g \in Flow : max_next_seq'[g] <= Size[g]
  BY SegmentTaken DEF Send
<1> HIDE DEF e
<1>3. /\ outstanding \in [Path -> Seq(Entry)] /\ data \in [Path -> Seq(Entry)]
      /\ rto \in [Path -> BOOLEAN]
  BY DEF TypeOK
<1>4. /\ Append(outstanding[p], e) \in Seq(Entry) /\ Append(outstanding[p], e) # <<>>
      /\ \A x : Contains(Append(outstanding[p], e), x) <=> Contains(outstanding[p], x) \/ x = e
      /\ Distinct(Append(outstanding[p], e))
      /\ Append(data[p], e) \in Seq(Entry)
  BY <1>2, <1>3, AppendFacts DEF ListsDistinct, IsOutstanding
<1>5. /\ outstanding'[p] = Append(outstanding[p], e)
      /\ \A q \in Path \ {p} : outstanding'[q] = outstanding[q]
      /\ rto'[p] /\ \A q \in Path \ {p} : rto'[q] = rto[q]
  BY <1>1, <1>3
<1>6. \A q \in Path : \A x \in Entry :
          IsOutstanding(q, x)' <=> IsOutstanding(q, x) \/ (q = p /\ x = e)
  BY <1>4, <1>5 DEF IsOutstanding
<1>7. TypeOK'
  BY <1>1, <1>2, <1>3, <1>4 DEF TypeOK
<1>8. ListsDistinct'
  BY <1>2, <1>4, <1>5 DEF ListsDistinct
<1>9. \A x \in Entry : IsAnswered(x)' <=> IsAnswered(x)
  BY <1>1 DEF IsAnswered, Answered
<1>10. OnePlace'
  <2> SUFFICES ASSUME NEW x \in Entry
               PROVE  /\ \A q, r \in Path : IsOutstanding(q, x)' /\ IsOutstanding(r, x)' => q = r
                      /\ \A q \in Path : IsOutstanding(q, x)' => ~IsLossy(x)' /\ ~IsAnswered(x)'
                      /\ IsLossy(x)' => ~IsAnswered(x)'
                      /\ IsSent(x)' <=> \/ IsLossy(x)' \/ IsAnswered(x)'
                                        \/ \E q \in Path : IsOutstanding(q, x)'
    BY DEF OnePlace
  <2>1. /\ \A q, r \in Path : IsOutstanding(q, x) /\ IsOutstanding(r, x) => q = r
        /\ \A q \in Path : IsOutstanding(q, x) => ~IsLossy(x) /\ ~IsAnswered(x)
        /\ IsLossy(x) => ~IsAnswered(x)
        /\ IsSent(x) <=> IsLossy(x) \/ IsAnswered(x) \/ \E q \in Path : IsOutstanding(q, x)
    BY DEF OnePlace
  <2>2. CASE x = e
    BY <1>2, <1>6, <1>9, <2>2
  <2>3. CASE x # e
    BY <1>2, <1>6, <1>9, <2>1, <2>3
  <2> QED
    BY <2>2, <2>3
<1>11. GapIsFirst' /\ AnswersTrue'
  BY <1>1 DEF GapIsFirst, AnswersTrue, Answered
<1>12. TimerExact'
  BY <1>4, <1>5 DEF TimerExact
<1> QED
  BY <1>7, <1>8, <1>10, <1>11, <1>12

\* The loss detector, for an answer to entry e of path p: what was before it is
\* lost, what is behind it stays.
LEMMA DetectorDoes ==
    ASSUME IInv, NEW p \in Path, NEW e \in Entry,
           checkOutstandingDataAndUpdateLossyData(p, e)
    PROVE  \E i \in 1 .. Len(outstanding[p]) :
             LET lost == SubSeq(outstanding[p], 1, i - 1)
                 rest == SubSeq(outstanding[p], i + 1, Len(outstanding[p]))
             IN  /\ outstanding[p][i] = e
                 /\ outstanding' = [outstanding EXCEPT ![p] = rest]
                 /\ rest \in Seq(Entry) /\ Distinct(rest)
                 /\ lost \in Seq(Entry) /\ Distinct(lost) /\ DeclareLost(lost)
                 /\ \A x : Contains(lost, x) => IsOutstanding(p, x)
                 /\ ~Contains(lost, e)
                 /\ \A x : Contains(rest, x)
                             <=> Contains(outstanding[p], x) /\ ~Contains(lost, x) /\ x # e
                 /\ rto' = [rto EXCEPT ![p] = rest # <<>>]
<1> DEFINE q == outstanding[p]
           i == Position(p, e)
           lost == SubSeq(q, 1, i - 1)
           rest == SubSeq(q, i + 1, Len(q))
<1>1. /\ IsOutstanding(p, e)
      /\ outstanding' = [outstanding EXCEPT ![p] = rest]
      /\ DeclareLost(lost)
      /\ rto' = [rto EXCEPT ![p] = rest # <<>>]
  BY DEF checkOutstandingDataAndUpdateLossyData, StillOut, RestartOrCancel
<1>2. q \in Seq(Entry) /\ Distinct(q) /\ Len(q) \in Nat
  BY Typed, LenProperties DEF IInv, ListsDistinct
<1>3. i \in 1 .. Len(q) /\ q[i] = e
  BY <1>1, <1>2, PositionIs
<1> HIDE DEF i, q
<1>4. /\ lost \in Seq(Entry) /\ (Distinct(q) => Distinct(lost))
      /\ \A x : Contains(lost, x) <=> \E k \in 1 .. i - 1 : q[k] = x
  <2>1. 1 \in 1 .. (Len(q) + 1) /\ i - 1 \in 0 .. Len(q) /\ 1 <= (i - 1) + 1
    BY <1>2, <1>3
  <2> QED
    BY <1>2, <2>1, SubSeqFacts
<1>5. /\ rest \in Seq(Entry) /\ (Distinct(q) => Distinct(rest))
      /\ \A x : Contains(rest, x) <=> \E k \in i + 1 .. Len(q) : q[k] = x
  <2>1. i + 1 \in 1 .. (Len(q) + 1) /\ Len(q) \in 0 .. Len(q) /\ i + 1 <= Len(q) + 1
    BY <1>2, <1>3
  <2> QED
    BY <1>2, <2>1, SubSeqFacts
<1> HIDE DEF lost, rest
<1>6. /\ \A k \in 1 .. i - 1 : k \in 1 .. Len(q) /\ k # i
      /\ \A k \in i + 1 .. Len(q) : k \in 1 .. Len(q) /\ k # i /\ k \notin 1 .. i - 1
      /\ \A k \in 1 .. Len(q) : k \in 1 .. i - 1 \/ k = i \/ k \in i + 1 .. Len(q)
  BY <1>2, <1>3
<1>7. \A k, l \in 1 .. Len(q) : q[k] = q[l] => k = l
  BY <1>2 DEF Distinct
<1>8. ~Contains(lost, e) /\ \A x : Contains(lost, x) => Contains(q, x)
  BY <1>3, <1>4, <1>6, <1>7 DEF Contains
<1>9. ASSUME NEW x
      PROVE  Contains(rest, x) <=> Contains(q, x) /\ ~Contains(lost, x) /\ x # e
  <2>1. ASSUME NEW k \in i + 1 .. Len(q), q[k] = x
        PROVE  Contains(q, x) /\ ~Contains(lost, x) /\ x # e
    BY <1>3, <1>4, <1>6, <1>7, <2>1 DEF Contains
  <2>2. ASSUME Contains(q, x), ~Contains(lost, x), x # e
        PROVE  \E k \in i + 1 .. Len(q) : q[k] = x
    <3>1. PICK k \in 1 .. Len(q) : q[k] = x
      BY <2>2 DEF Contains
    <3> QED
      BY <1>3, <1>4, <1>6, <2>2, <3>1
  <2> QED
    BY <1>5, <2>1, <2>2
<1>10. \A x : Contains(lost, x) => IsOutstanding(p, x)
  BY <1>8 DEF IsOutstanding, q
<1> QED
  BY <1>1, <1>2, <1>3, <1>4, <1>5, <1>8, <1>9, <1>10 DEF q, lost, rest

\* AcknowledgeForLaps adds segment s to what is answered, and snd_una moves to
\* the first gap.
LEMMA AcknowledgeDoes ==
    ASSUME IInv, NEW f \in Flow, NEW s \in Segment(f), AcknowledgeForLaps(f, s)
    PROVE  /\ snd_una' \in [Flow -> Nat] /\ \A g \in Flow : snd_una'[g] <= Size[g]
           /\ sacked' \in [Flow -> SUBSET Nat] /\ \A g \in Flow : sacked'[g] \subseteq Segment(g)
           /\ \A g \in Flow \ {f} : snd_una'[g] = snd_una[g] /\ sacked'[g] = sacked[g]
           /\ Answered(f)' = Answered(f) \cup {s}
           /\ \A g \in Flow \ {f} : Answered(g)' = Answered(g)
           /\ GapIsFirst'
<1> USE DEF IInv
<1> DEFINE got == sacked[f] \cup {s}
           una == FirstGap(got, snd_una[f])
<1>1. /\ s >= snd_una[f]
      /\ snd_una' = [snd_una EXCEPT ![f] = una]
      /\ sacked' = [sacked EXCEPT ![f] = {m \in got : m >= una}]
  BY DEF AcknowledgeForLaps
<1>2. /\ snd_una[f] \in Nat /\ snd_una[f] <= Size[f] /\ Size[f] \in Nat
      /\ sacked[f] \subseteq Segment(f) /\ Segment(f) \subseteq Nat
      /\ \A m : m \in Segment(f) <=> m \in Nat /\ m < Size[f]
  BY Typed, EntryFacts
<1>3. got \subseteq Segment(f) /\ got \subseteq Nat /\ IsFiniteSet(got)
  <2>1. IsFiniteSet(Segment(f))
    <3>1. 0 \in Int /\ Size[f] - 1 \in Int
      BY <1>2
    <3>2. IsFiniteSet(0 .. (Size[f] - 1))
      BY <3>1, FS_Interval
    <3> QED
      BY <3>2 DEF Segment
  <2> QED
    BY <1>2, <2>1, FS_Subset
<1> HIDE DEF got
<1>4. /\ una \in Nat /\ una >= snd_una[f] /\ una \notin got
      /\ \A m \in snd_una[f] .. (una - 1) : m \in got
  BY <1>2, <1>3, FirstGapIs
<1> HIDE DEF una
<1>5. una <= Size[f]
  <2>1. CASE una = snd_una[f]
    BY <1>2, <2>1
  <2>2. CASE una # snd_una[f]
    <3>1. una - 1 \in snd_una[f] .. (una - 1)
      BY <1>2, <1>4, <2>2
    <3>2. una - 1 \in Segment(f)
      BY <1>3, <1>4, <3>1
    <3> QED
      BY <1>2, <1>4, <3>2
  <2> QED
    BY <2>1, <2>2
<1>6. /\ snd_una \in [Flow -> Nat] /\ sacked \in [Flow -> SUBSET Nat]
      /\ \A g \in Flow : snd_una[g] <= Size[g] /\ sacked[g] \subseteq Segment(g)
  BY DEF TypeOK
<1>7. /\ snd_una'[f] = una /\ sacked'[f] = {m \in got : m >= una}
      /\ \A g \in Flow \ {f} : snd_una'[g] = snd_una[g] /\ sacked'[g] = sacked[g]
  BY <1>1, <1>6
<1>8. Answered(f)' = Answered(f) \cup {s}
  <2>1. Answered(f)' = {m \in Segment(f) : m < una} \cup {m \in got : m >= una}
    BY <1>7 DEF Answered
  <2>2. ASSUME NEW m \in Segment(f)
        PROVE  m \in Answered(f)' <=> m \in Answered(f) \cup {s}
    <3>1. m \in Nat /\ una \in Nat /\ snd_una[f] \in Nat
      BY <1>2, <1>4
    <3>2. m \in got <=> m \in sacked[f] \/ m = s
      BY DEF got
    <3>3. m < una => m < snd_una[f] \/ m \in got
      BY <1>4, <3>1
    <3>4. m < snd_una[f] => m < una
      BY <1>4, <3>1
    <3>5. m < una \/ m >= una
      BY <3>1
    <3> QED
      BY <2>1, <3>2, <3>3, <3>4, <3>5 DEF Answered
  <2>3. Answered(f)' \subseteq Segment(f) /\ Answered(f) \cup {s} \subseteq Segment(f)
    BY <1>2, <1>3, <2>1 DEF Answered
  <2> QED
    BY <2>2, <2>3
<1>9. \A g \in Flow \ {f} : Answered(g)' = Answered(g)
  BY <1>7 DEF Answered
<1>10. GapIsFirst'
  <2>1. ASSUME NEW m \in sacked'[f] PROVE m > snd_una'[f]
    <3>1. m \in got /\ m >= una /\ snd_una'[f] = una
      BY <1>7
    <3>2. m \in Nat /\ una \in Nat /\ m # una
      BY <1>3, <1>4, <3>1
    <3> QED
      BY <3>1, <3>2
  <2>2. \A g \in Flow \ {f} : \A m \in sacked'[g] : m > snd_una'[g]
    BY <1>7 DEF GapIsFirst
  <2> QED
    BY <2>1, <2>2 DEF GapIsFirst
<1>11. snd_una' \in [Flow -> Nat] /\ \A g \in Flow : snd_una'[g] <= Size[g]
  BY <1>1, <1>4, <1>5, <1>6, <1>7
<1>12. sacked' \in [Flow -> SUBSET Nat] /\ \A g \in Flow : sacked'[g] \subseteq Segment(g)
  <2>1. sacked'[f] \in SUBSET Nat /\ sacked'[f] \subseteq Segment(f)
    BY <1>3, <1>7
  <2>2. \A g \in Flow : sacked'[g] \in SUBSET Nat /\ sacked'[g] \subseteq Segment(g)
    BY <1>6, <1>7, <2>1
  <2> QED
    BY <1>1, <1>6, <2>2
<1> QED
  BY <1>7, <1>8, <1>9, <1>10, <1>11, <1>12

\* An answer to a flow that still has a queue pair.
LEMMA AnswerKeeps ==
    ASSUME IInv, NEW p \in Path, acks[p] # <<>>, NEW f \in Flow, NEW s \in Segment(f),
           Head(acks[p]) = <<f, s>>, ~finished[f], ReceiveAckLive(p, f, s)
    PROVE  IInv'
<1> USE DEF IInv
<1> DEFINE e == <<f, s>>
<1>1. /\ checkOutstandingDataAndUpdateLossyData(p, e)
      /\ AcknowledgeForLaps(f, s)
      /\ QpComplete(f) \/ HandleAckLaps(f)
      /\ acks' = [acks EXCEPT ![p] = Tail(@)]
      /\ UNCHANGED <<max_next_seq, data, delivered>>
  BY DEF ReceiveAckLive
<1>2. e \in Entry /\ e[1] = f /\ e[2] = s
  BY EntryFacts
<1> HIDE DEF e
<1> DEFINE lostAt(i) == SubSeq(outstanding[p], 1, i - 1)
           restAt(i) == SubSeq(outstanding[p], i + 1, Len(outstanding[p]))
<1>2a. PICK i \in 1 .. Len(outstanding[p]) :
        /\ outstanding[p][i] = e
        /\ outstanding' = [outstanding EXCEPT ![p] = restAt(i)]
        /\ restAt(i) \in Seq(Entry) /\ Distinct(restAt(i))
        /\ lostAt(i) \in Seq(Entry) /\ Distinct(lostAt(i)) /\ DeclareLost(lostAt(i))
        /\ \A x : Contains(lostAt(i), x) => IsOutstanding(p, x)
        /\ ~Contains(lostAt(i), e)
        /\ \A x : Contains(restAt(i), x)
                    <=> Contains(outstanding[p], x) /\ ~Contains(lostAt(i), x) /\ x # e
        /\ rto' = [rto EXCEPT ![p] = restAt(i) # <<>>]
  BY <1>1, <1>2, DetectorDoes
<1> DEFINE lost == lostAt(i)
           rest == restAt(i)
<1> HIDE DEF lostAt, restAt
<1>3. /\ IsOutstanding(p, e)
      /\ outstanding' = [outstanding EXCEPT ![p] = rest]
      /\ rest \in Seq(Entry) /\ Distinct(rest)
      /\ lost \in Seq(Entry) /\ Distinct(lost) /\ DeclareLost(lost)
      /\ \A x : Contains(lost, x) => IsOutstanding(p, x)
      /\ ~Contains(lost, e)
      /\ \A x : Contains(rest, x) <=> Contains(outstanding[p], x) /\ ~Contains(lost, x) /\ x # e
      /\ rto' = [rto EXCEPT ![p] = rest # <<>>]
  BY <1>2a DEF IsOutstanding, Contains
<1> HIDE DEF lost, rest
<1>4. /\ lossy' \in [Flow -> Seq(Nat)]
      /\ \A g \in Flow : Distinct(lossy'[g]) /\ ToSet(lossy'[g]) \subseteq Segment(g)
      /\ \A x \in Entry : IsLossy(x)' <=> IsLossy(x) \/ Contains(lost, x)
  BY <1>3, DeclareLostDoes
<1>5. /\ snd_una' \in [Flow -> Nat] /\ \A g \in Flow : snd_una'[g] <= Size[g]
      /\ sacked' \in [Flow -> SUBSET Nat] /\ \A g \in Flow : sacked'[g] \subseteq Segment(g)
      /\ \A g \in Flow \ {f} : snd_una'[g] = snd_una[g] /\ sacked'[g] = sacked[g]
      /\ Answered(f)' = Answered(f) \cup {s}
      /\ \A g \in Flow \ {f} : Answered(g)' = Answered(g)
      /\ GapIsFirst'
  BY <1>1, AcknowledgeDoes
<1>6. /\ outstanding \in [Path -> Seq(Entry)] /\ acks \in [Path -> Seq(Entry)]
      /\ rto \in [Path -> BOOLEAN] /\ win \in [Flow -> 1 .. MaxWin]
      /\ finished \in [Flow -> BOOLEAN] /\ awake \in BOOLEAN
  BY DEF TypeOK
<1>7. /\ outstanding' \in [Path -> Seq(Entry)] /\ outstanding'[p] = rest
      /\ \A q \in Path \ {p} : outstanding'[q] = outstanding[q]
  BY <1>3, <1>6
<1>8. /\ rto' \in [Path -> BOOLEAN] /\ (rto'[p] <=> rest # <<>>)
      /\ \A q \in Path \ {p} : rto'[q] = rto[q]
  BY <1>3, <1>6
<1>9. /\ acks' \in [Path -> Seq(Entry)]
      /\ \A q \in Path : \A x : Contains(acks'[q], x) => Contains(acks[q], x)
      /\ Contains(acks[p], e)
  <2>1. /\ Tail(acks[p]) \in Seq(Entry) /\ Contains(acks[p], Head(acks[p]))
        /\ \A x : Contains(Tail(acks[p]), x) => Contains(acks[p], x)
    BY <1>6, HeadTailFacts
  <2>2. acks'[p] = Tail(acks[p]) /\ \A q \in Path \ {p} : acks'[q] = acks[q]
    BY <1>1, <1>6
  <2>3. \A q \in Path : \A x : Contains(acks'[q], x) => Contains(acks[q], x)
    BY <2>1, <2>2
  <2> QED
    BY <1>1, <1>6, <2>1, <2>3 DEF e
<1>10. win' \in [Flow -> 1 .. MaxWin] /\ awake' \in BOOLEAN
  BY <1>1, <1>6 DEF QpComplete, HandleAckLaps, TriggerTransmit
<1>11. /\ finished' \in [Flow -> BOOLEAN]
       /\ \A g \in Flow : finished'[g] => snd_una'[g] = Size[g]
  <2>1. \A g \in Flow : finished[g] => snd_una[g] = Size[g]
    BY DEF AnswersTrue
  <2>2. CASE QpComplete(f)
    <3>1. snd_una'[f] >= Size[f] /\ finished' = [finished EXCEPT ![f] = TRUE]
      BY <2>2 DEF QpComplete
    <3>2. snd_una'[f] = Size[f]
      BY <1>5, <3>1, EntryFacts
    <3>3. /\ finished' \in [Flow -> BOOLEAN]
          /\ \A g \in Flow \ {f} : finished'[g] = finished[g]
      BY <1>6, <3>1
    <3> QED
      BY <1>5, <2>1, <3>2, <3>3
  <2>3. CASE HandleAckLaps(f)
    BY <1>5, <1>6, <2>1, <2>3 DEF HandleAckLaps
  <2> QED
    BY <1>1, <2>2, <2>3
<1>12. TypeOK'
  <2>1. /\ max_next_seq' = max_next_seq /\ data' = data /\ delivered' = delivered
    BY <1>1
  <2>2. \A g \in Flow : /\ snd_una'[g] <= Size[g] /\ max_next_seq'[g] <= Size[g]
                        /\ sacked'[g] \cup delivered'[g] \cup ToSet(lossy'[g]) \subseteq Segment(g)
    BY <1>4, <1>5, <2>1 DEF TypeOK
  <2> QED
    BY <1>4, <1>5, <1>7, <1>8, <1>9, <1>10, <1>11, <2>1, <2>2 DEF TypeOK
<1>13. ListsDistinct'
  BY <1>3, <1>4, <1>7 DEF ListsDistinct
<1>14. OnePlace'
  <2> DEFINE A == {e}
  <2>1. \A x \in A : x \in Entry /\ IsOutstanding(p, x) /\ ~Contains(lost, x)
    BY <1>2, <1>3
  <2>2. \A x \in Entry : IsOutstanding(p, x)'
                           <=> IsOutstanding(p, x) /\ ~Contains(lost, x) /\ x \notin A
    BY <1>3, <1>7 DEF IsOutstanding
  <2>3. \A r \in Path \ {p} : \A x \in Entry : IsOutstanding(r, x)' <=> IsOutstanding(r, x)
    BY <1>7 DEF IsOutstanding
  <2>4. ASSUME NEW x \in Entry PROVE IsAnswered(x)' <=> IsAnswered(x) \/ x \in A
    <3>1. x[1] \in Flow /\ x = <<x[1], x[2]>>
      BY EntryFacts
    <3>2. x = e <=> x[1] = f /\ x[2] = s
      BY <3>1 DEF e
    <3>3. CASE x[1] = f
      BY <1>5, <3>2, <3>3 DEF IsAnswered
    <3>4. CASE x[1] # f
      BY <1>5, <3>1, <3>2, <3>4 DEF IsAnswered
    <3> QED
      BY <3>3, <3>4
  <2>5. \A x \in Entry : IsSent(x)' <=> IsSent(x)
    BY <1>1 DEF IsSent
  <2> HIDE DEF A
  <2> QED
    BY <1>3, <1>4, <2>1, <2>2, <2>3, <2>4, <2>5, PlacesMove
<1>15. TimerExact'
  BY <1>7, <1>8 DEF TimerExact
<1>16. AnswersTrue'
  <2>1. s \in delivered[f]
    BY <1>2, <1>9 DEF AnswersTrue
  <2>2. \A g \in Flow : Answered(g)' \subseteq delivered'[g]
    BY <1>1, <1>5, <2>1 DEF AnswersTrue
  <2>3. \A q \in Path : \A x \in Entry : Contains(acks'[q], x) => x[2] \in delivered'[x[1]]
    BY <1>1, <1>9 DEF AnswersTrue
  <2> QED
    BY <1>11, <2>2, <2>3 DEF AnswersTrue
<1> QED
  BY <1>5, <1>12, <1>13, <1>14, <1>15, <1>16

\* The timer of a path.
LEMMA TimeoutKeeps ==
    ASSUME IInv, NEW p \in Path, HandleTimeout(p)
    PROVE  IInv'
<1> USE DEF IInv
<1> DEFINE q == outstanding[p]
<1>1. /\ DeclareLost(q)
      /\ outstanding' = [outstanding EXCEPT ![p] = <<>>]
      /\ rto' = [rto EXCEPT ![p] = FALSE]
      /\ awake' = TRUE
      /\ UNCHANGED <<snd_una, max_next_seq, sacked, win, finished, data, acks, delivered>>
  BY DEF HandleTimeout, TriggerTransmit, netVars
<1>2. /\ outstanding \in [Path -> Seq(Entry)] /\ rto \in [Path -> BOOLEAN]
      /\ q \in Seq(Entry) /\ Distinct(q)
  BY DEF TypeOK, ListsDistinct
<1>3. \A x : Contains(q, x) <=> IsOutstanding(p, x)
  BY DEF IsOutstanding
<1> HIDE DEF q
<1>4. /\ lossy' \in [Flow -> Seq(Nat)]
      /\ \A g \in Flow : Distinct(lossy'[g]) /\ ToSet(lossy'[g]) \subseteq Segment(g)
      /\ \A x \in Entry : IsLossy(x)' <=> IsLossy(x) \/ Contains(q, x)
  BY <1>1, <1>2, <1>3, DeclareLostDoes
<1>5. /\ <<>> \in Seq(Entry) /\ Distinct(<<>>) /\ \A x : ~Contains(<<>>, x)
  BY EmptySeq DEF Distinct, Contains
<1>6. /\ outstanding' \in [Path -> Seq(Entry)] /\ outstanding'[p] = <<>>
      /\ \A r \in Path \ {p} : outstanding'[r] = outstanding[r]
  BY <1>1, <1>2, <1>5
<1>7. /\ rto' \in [Path -> BOOLEAN] /\ ~rto'[p]
      /\ \A r \in Path \ {p} : rto'[r] = rto[r]
  BY <1>1, <1>2
<1>8. TypeOK'
  BY <1>1, <1>4, <1>6, <1>7 DEF TypeOK
<1>9. ListsDistinct'
  BY <1>4, <1>5, <1>6 DEF ListsDistinct
<1>10. OnePlace'
  <2> DEFINE A == {}
  <2>1. \A x \in A : x \in Entry /\ IsOutstanding(p, x) /\ ~Contains(q, x)
    OBVIOUS
  <2>2. \A x \in Entry : IsOutstanding(p, x)'
                           <=> IsOutstanding(p, x) /\ ~Contains(q, x) /\ x \notin A
    BY <1>3, <1>5, <1>6 DEF IsOutstanding
  <2>3. \A r \in Path \ {p} : \A x \in Entry : IsOutstanding(r, x)' <=> IsOutstanding(r, x)
    BY <1>6 DEF IsOutstanding
  <2>4. \A x \in Entry : IsAnswered(x)' <=> IsAnswered(x) \/ x \in A
    BY <1>1 DEF IsAnswered, Answered
  <2>5. \A x \in Entry : IsSent(x)' <=> IsSent(x)
    BY <1>1 DEF IsSent
  <2>6. \A x \in Entry : Contains(q, x) => IsOutstanding(p, x)
    BY <1>3
  <2> HIDE DEF A
  <2> QED
    BY <1>4, <2>1, <2>2, <2>3, <2>4, <2>5, <2>6, PlacesMove
<1>11. GapIsFirst' /\ AnswersTrue'
  BY <1>1 DEF GapIsFirst, AnswersTrue, Answered
<1>12. TimerExact'
  BY <1>6, <1>7 DEF TimerExact
<1> QED
  BY <1>8, <1>9, <1>10, <1>11, <1>12

\* The receiver and the network touch the packets in flight only: what is left
\* of the answers, and what is added, reached the receiver.
LEMMA NetworkKeeps ==
    ASSUME IInv, UNCHANGED <<flowVars, pathVars>>, awake' \in BOOLEAN,
           data' \in [Path -> Seq(Entry)], acks' \in [Path -> Seq(Entry)],
           delivered' \in [Flow -> SUBSET Nat],
           \A f \in Flow : delivered[f] \subseteq delivered'[f] /\ delivered'[f] \subseteq Segment(f),
           \A p \in Path : \A e \in Entry :
               Contains(acks'[p], e) => Contains(acks[p], e) \/ e[2] \in delivered'[e[1]]
    PROVE  IInv'
<1> USE DEF IInv, flowVars, pathVars
<1>1. TypeOK'
  BY DEF TypeOK
<1>2. ListsDistinct' /\ GapIsFirst' /\ TimerExact'
  BY DEF ListsDistinct, GapIsFirst, TimerExact
<1>3. OnePlace'
  BY DEF OnePlace, IsOutstanding, IsLossy, IsAnswered, Answered, IsSent
<1>4. AnswersTrue'
  <2>1. \A f \in Flow : Answered(f)' \subseteq delivered'[f]
    BY DEF AnswersTrue, Answered
  <2>2. \A p \in Path : \A e \in Entry : Contains(acks'[p], e) => e[2] \in delivered'[e[1]]
    BY EntryFacts DEF AnswersTrue
  <2>3. \A f \in Flow : finished'[f] => snd_una'[f] = Size[f]
    BY DEF AnswersTrue
  <2> QED
    BY <2>1, <2>2, <2>3 DEF AnswersTrue
<1> QED
  BY <1>1, <1>2, <1>3, <1>4

\* A data packet reaches the receiver.
LEMMA DataKeeps ==
    ASSUME IInv, NEW p \in Path, ReceiveUdp(p)
    PROVE  IInv'
<1> DEFINE f == Head(data[p])[1]
           s == Head(data[p])[2]
<1>1. /\ data \in [Path -> Seq(Entry)] /\ acks \in [Path -> Seq(Entry)]
      /\ delivered \in [Flow -> SUBSET Nat] /\ awake \in BOOLEAN
      /\ \A g \in Flow : delivered[g] \subseteq Segment(g)
  BY DEF IInv, TypeOK
<1>2. /\ Head(data[p]) \in Entry /\ Tail(data[p]) \in Seq(Entry)
      /\ data' = [data EXCEPT ![p] = Tail(@)]
      /\ UNCHANGED <<flowVars, pathVars, awake>>
  BY <1>1, HeadTailFacts DEF ReceiveUdp
<1>3. f \in Flow /\ s \in Segment(f) /\ s \in Nat /\ <<f, s>> \in Entry
  BY <1>2, EntryFacts
<1>4. data' \in [Path -> Seq(Entry)]
  BY <1>1, <1>2
<1>5. CASE finished[f]
  <2>1. acks' = acks /\ delivered' = delivered
    BY <1>5 DEF ReceiveUdp
  <2> QED
    BY <1>1, <1>2, <1>4, <2>1, NetworkKeeps
<1>6. CASE ~finished[f]
  <2> HIDE DEF f, s
  <2>1. /\ delivered' = [delivered EXCEPT ![f] = @ \cup {s}]
        /\ acks' = [acks EXCEPT ![p] = Append(@, <<f, s>>)]
    <3>1. /\ delivered' = [delivered EXCEPT ![f] = @ \cup {s}]
          /\ acks' = [acks EXCEPT ![p] = @ \o <<<<f, s>>>>]
      BY <1>6 DEF ReceiveUdp, AnswerTo, f, s
    <3>2. acks[p] \o <<<<f, s>>>> = Append(acks[p], <<f, s>>)
      BY <1>1, <1>3, AppendIsConcat
    <3> QED
      BY <3>1, <3>2
  <2>2. /\ Append(acks[p], <<f, s>>) \in Seq(Entry)
        /\ \A x : Contains(Append(acks[p], <<f, s>>), x) <=> Contains(acks[p], x) \/ x = <<f, s>>
    <3>1. acks[p] \in Seq(Entry)
      BY <1>1
    <3> DEFINE e == <<f, s>>
    <3>2. e \in Entry
      BY <1>3
    <3> HIDE DEF e
    <3>3. /\ Append(acks[p], e) \in Seq(Entry)
          /\ \A x : Contains(Append(acks[p], e), x) <=> Contains(acks[p], x) \/ x = e
      BY <3>1, <3>2, AppendFacts
    <3> QED
      BY <3>3 DEF e
  <2>3. acks' \in [Path -> Seq(Entry)]
    BY <1>1, <2>1, <2>2
  <2>4. /\ delivered' \in [Flow -> SUBSET Nat]
        /\ \A g \in Flow : delivered[g] \subseteq delivered'[g] /\ delivered'[g] \subseteq Segment(g)
        /\ s \in delivered'[f]
    BY <1>1, <1>3, <2>1
  <2>5. ASSUME NEW q \in Path, NEW e \in Entry, Contains(acks'[q], e)
        PROVE  Contains(acks[q], e) \/ e[2] \in delivered'[e[1]]
    <3>1. CASE q = p
      <4>1. acks'[q] = Append(acks[p], <<f, s>>)
        BY <1>1, <2>1, <3>1
      <4>2. Contains(acks[q], e) \/ (e[1] = f /\ e[2] = s)
        <5> DEFINE t == <<f, s>>
        <5>1. t[1] = f /\ t[2] = s
          OBVIOUS
        <5>2. \A x : Contains(Append(acks[p], t), x) <=> Contains(acks[p], x) \/ x = t
          BY <2>2
        <5>3. acks'[q] = Append(acks[p], t) /\ acks[q] = acks[p]
          BY <3>1, <4>1
        <5> HIDE DEF t
        <5> QED
          BY <2>5, <5>1, <5>2, <5>3
      <4> QED
        BY <2>4, <4>2
    <3>2. CASE q # p
      BY <1>1, <2>1, <2>5, <3>2
    <3> QED
      BY <3>1, <3>2
  <2> QED
    BY <1>1, <1>2, <1>4, <2>3, <2>4, <2>5, NetworkKeeps
<1> QED
  BY <1>5, <1>6

\* The network loses a packet or an answer, or an answer finds its flow over.
LEMMA LossKeeps ==
    ASSUME IInv, NEW p \in Path, UNCHANGED <<flowVars, pathVars, awake, delivered>>,
           \/ data[p] # <<>> /\ data' = [data EXCEPT ![p] = Tail(@)] /\ acks' = acks
           \/ acks[p] # <<>> /\ acks' = [acks EXCEPT ![p] = Tail(@)] /\ data' = data
    PROVE  IInv'
<1>1. /\ data \in [Path -> Seq(Entry)] /\ acks \in [Path -> Seq(Entry)]
      /\ delivered \in [Flow -> SUBSET Nat] /\ awake \in BOOLEAN
      /\ \A g \in Flow : delivered[g] \subseteq Segment(g)
  BY DEF IInv, TypeOK
<1>2. CASE data[p] # <<>> /\ data' = [data EXCEPT ![p] = Tail(@)] /\ acks' = acks
  <2>1. Tail(data[p]) \in Seq(Entry)
    BY <1>1, <1>2, HeadTailFacts
  <2>2. data' \in [Path -> Seq(Entry)]
    BY <1>1, <1>2, <2>1
  <2> QED
    BY <1>1, <1>2, <2>2, NetworkKeeps
<1>3. CASE acks[p] # <<>> /\ acks' = [acks EXCEPT ![p] = Tail(@)] /\ data' = data
  <2>1. /\ Tail(acks[p]) \in Seq(Entry)
        /\ \A x : Contains(Tail(acks[p]), x) => Contains(acks[p], x)
    BY <1>1, <1>3, HeadTailFacts
  <2>2. /\ acks' \in [Path -> Seq(Entry)]
        /\ \A q \in Path : \A x \in Entry : Contains(acks'[q], x) => Contains(acks[q], x)
    BY <1>1, <1>3, <2>1
  <2> QED
    BY <1>1, <1>3, <2>2, NetworkKeeps
<1> QED
  BY <1>2, <1>3

\* The states the transport starts in.
LEMMA IInvInit == Init => IInv
<1> SUFFICES ASSUME Init PROVE IInv
  OBVIOUS
<1> USE DEF Init
<1>1. /\ \A S : <<>> \in Seq(S) /\ ToSet(<<>>) = {}
      /\ Distinct(<<>>) /\ \A x : ~Contains(<<>>, x)
  BY DEF Distinct, Contains, ToSet
<1>2. /\ \A f \in Flow : /\ snd_una[f] = 0 /\ max_next_seq[f] = 0 /\ sacked[f] = {}
                         /\ lossy[f] = <<>> /\ ~finished[f] /\ delivered[f] = {}
                         /\ Size[f] \in Nat
      /\ \A p \in Path : outstanding[p] = <<>> /\ acks[p] = <<>> /\ ~rto[p]
  BY EntryFacts
<1>3. TypeOK
  <2>1. /\ snd_una \in [Flow -> Nat] /\ max_next_seq \in [Flow -> Nat]
        /\ sacked \in [Flow -> SUBSET Nat] /\ delivered \in [Flow -> SUBSET Nat]
        /\ finished \in [Flow -> BOOLEAN] /\ rto \in [Path -> BOOLEAN] /\ awake \in BOOLEAN
    OBVIOUS
  <2>2. /\ lossy \in [Flow -> Seq(Nat)] /\ outstanding \in [Path -> Seq(Entry)]
        /\ data \in [Path -> Seq(Entry)] /\ acks \in [Path -> Seq(Entry)]
    BY <1>1
  <2>3. win \in [Flow -> 1 .. MaxWin]
    BY LapsAssumption
  <2>4. \A f \in Flow :
        /\ snd_una[f] <= Size[f] /\ max_next_seq[f] <= Size[f]
        /\ sacked[f] \cup delivered[f] \cup ToSet(lossy[f]) \subseteq Segment(f)
    BY <1>1, <1>2
  <2> QED
    BY <2>1, <2>2, <2>3, <2>4 DEF TypeOK
<1>4. ListsDistinct
  BY <1>1, <1>2 DEF ListsDistinct
<1>5. OnePlace
  <2> SUFFICES ASSUME NEW e \in Entry
               PROVE  /\ \A p \in Path : ~IsOutstanding(p, e)
                      /\ ~IsLossy(e) /\ ~IsAnswered(e) /\ ~IsSent(e)
    BY DEF OnePlace
  <2>1. e[1] \in Flow /\ e[2] \in Nat
    BY EntryFacts
  <2>2. ~(e[2] < 0)
    BY <2>1
  <2> QED
    BY <1>1, <1>2, <2>1, <2>2 DEF IsOutstanding, IsLossy, IsAnswered, Answered, IsSent
<1>6. GapIsFirst /\ TimerExact
  BY <1>2 DEF GapIsFirst, TimerExact
<1>7. AnswersTrue
  <2>1. \A f \in Flow : Answered(f) = {}
    <3> SUFFICES ASSUME NEW f \in Flow, NEW s \in Answered(f) PROVE FALSE
      OBVIOUS
    <3>1. s \in Nat /\ s < 0
      BY <1>2, EntryFacts DEF Answered
    <3> QED
      BY <3>1
  <2> QED
    BY <1>1, <1>2, <2>1 DEF AnswersTrue
<1> QED
  BY <1>3, <1>4, <1>5, <1>6, <1>7 DEF IInv

\* The steps preserve the invariant.
LEMMA IInvInductive == IInv /\ [Next]_vars => IInv'
<1> SUFFICES ASSUME IInv, [Next]_vars PROVE IInv'
  OBVIOUS
<1>1. ASSUME NEW f \in Flow, NEW p \in Path, Send(f, p) PROVE IInv'
  BY <1>1, SendKeeps
<1>2. ASSUME NEW p \in Path, ReceiveUdp(p) PROVE IInv'
  BY <1>2, DataKeeps
<1>3. ASSUME NEW p \in Path, ReceiveAck(p) PROVE IInv'
  <2> DEFINE f == Head(acks[p])[1]
             s == Head(acks[p])[2]
  <2>1. Head(acks[p]) \in Entry
    BY <1>3, Typed, HeadTailFacts DEF IInv, ReceiveAck
  <2>2. f \in Flow /\ s \in Segment(f) /\ Head(acks[p]) = <<f, s>>
    BY <2>1, EntryFacts
  <2>3. CASE finished[f]
    BY <1>3, <2>3, LossKeeps DEF ReceiveAck
  <2>4. CASE ~finished[f]
    <3>1. acks[p] # <<>> /\ ReceiveAckLive(p, f, s)
      BY <1>3, <2>4 DEF ReceiveAck
    <3> HIDE DEF f, s
    <3> QED
      BY <2>2, <2>4, <3>1, AnswerKeeps
  <2> QED
    BY <2>3, <2>4
<1>4. ASSUME NEW p \in Path, HandleTimeout(p) PROVE IInv'
  BY <1>4, TimeoutKeeps
<1>5. ASSUME NEW p \in Path, LoseData(p) \/ LoseAck(p) PROVE IInv'
  BY <1>5, LossKeeps DEF LoseData, LoseAck
<1>6. CASE Rest \/ ReceiveOther \/ Quiet \/ UNCHANGED vars
  <2>1. /\ UNCHANGED <<flowVars, pathVars, data, acks, delivered>> /\ awake' \in BOOLEAN
    BY <1>6 DEF Rest, ReceiveOther, TriggerTransmit, Quiet, vars, netVars, IInv, TypeOK
  <2>2. /\ data' \in [Path -> Seq(Entry)] /\ acks' \in [Path -> Seq(Entry)]
        /\ delivered' \in [Flow -> SUBSET Nat]
        /\ \A f \in Flow : delivered[f] \subseteq delivered'[f] /\ delivered'[f] \subseteq Segment(f)
        /\ \A p \in Path : \A e \in Entry : Contains(acks'[p], e) => Contains(acks[p], e)
    BY <2>1 DEF IInv, TypeOK
  <2> QED
    BY <2>1, <2>2, NetworkKeeps
<1> QED
  BY <1>1, <1>2, <1>3, <1>4, <1>5, <1>6 DEF Next

LEMMA IInvHolds == Spec => []IInv
  BY IInvInit, IInvInductive, PTL DEF Spec

-----------------------------------------------------------------------------
(* The theorems that need no assumption on the timer.                      *)

\* Sequence numbers stay within their flow, and the lists hold entries of
\* flows, whatever is lost and whenever the timer fires.
THEOREM LapsTypeCorrect == Spec => []TypeOK
  BY IInvHolds, PTL DEF IInv

\* A path's timer runs while something is outstanding on the path.
THEOREM TimerAlwaysRuns == Spec => []TimerRuns
<1>1. IInv => TimerRuns
  BY DEF IInv, TimerExact, TimerRuns
<1> QED
  BY <1>1, IInvHolds, PTL

\* A set of at most one element has as many elements as it says.
LEMMA AtMostOne ==
    ASSUME NEW S, \A x, y \in S : x = y
    PROVE  Cardinality(S) = IF S = {} THEN 0 ELSE 1
<1>1. CASE S = {}
  BY <1>1, FS_EmptySet
<1>2. CASE S # {}
  <2>1. PICK x \in S : TRUE
    BY <1>2
  <2>2. S = {x}
    BY <2>1
  <2>3. Cardinality({x}) = 1
    BY FS_Singleton
  <2> QED
    BY <1>2, <2>2, <2>3
<1> QED
  BY <1>1, <1>2

\* Exclusive places and lists without repetition are exactly what the counting
\* in EachSegmentOnce says.
LEMMA CountsPlaces == IInv => EachSegmentOnce
<1> SUFFICES ASSUME IInv, NEW f \in Flow, NEW s \in Segment(f)
             PROVE  Cardinality(OutstandingAt(f, s)) + Cardinality(LossyAt(f, s))
                        + (IF s \in Answered(f) THEN 1 ELSE 0)
                      = (IF s < max_next_seq[f] THEN 1 ELSE 0)
  BY DEF EachSegmentOnce
<1> USE DEF IInv
<1> DEFINE e == <<f, s>>
<1>1. e \in Entry /\ e[1] = f /\ e[2] = s
  BY EntryFacts
<1>2. /\ \A p, q \in Path : IsOutstanding(p, e) /\ IsOutstanding(q, e) => p = q
      /\ \A p \in Path : IsOutstanding(p, e) => ~IsLossy(e) /\ ~IsAnswered(e)
      /\ IsLossy(e) => ~IsAnswered(e)
      /\ IsSent(e) <=> IsLossy(e) \/ IsAnswered(e) \/ \E p \in Path : IsOutstanding(p, e)
  BY <1>1 DEF OnePlace
<1>3. Cardinality(OutstandingAt(f, s)) = IF \E p \in Path : IsOutstanding(p, e) THEN 1 ELSE 0
  <2>1. \A x : x \in OutstandingAt(f, s)
                 <=> \E p \in Path : \E i \in 1 .. Len(outstanding[p]) :
                        outstanding[p][i] = e /\ x = <<p, i>>
    BY DEF OutstandingAt
  <2>2. OutstandingAt(f, s) = {} <=> ~\E p \in Path : IsOutstanding(p, e)
    BY <2>1 DEF IsOutstanding, Contains
  <2>3. \A x, y \in OutstandingAt(f, s) : x = y
    <3> SUFFICES ASSUME NEW x \in OutstandingAt(f, s), NEW y \in OutstandingAt(f, s)
                 PROVE  x = y
      OBVIOUS
    <3>1. PICK p, i : /\ p \in Path /\ i \in 1 .. Len(outstanding[p])
                       /\ outstanding[p][i] = e /\ x = <<p, i>>
      BY <2>1
    <3>2. PICK q, j : /\ q \in Path /\ j \in 1 .. Len(outstanding[q])
                       /\ outstanding[q][j] = e /\ y = <<q, j>>
      BY <2>1
    <3>3. p = q
      BY <1>2, <3>1, <3>2 DEF IsOutstanding, Contains
    <3>4. i = j
      BY <3>1, <3>2, <3>3 DEF ListsDistinct, Distinct
    <3> QED
      BY <3>1, <3>2, <3>3, <3>4
  <2> QED
    BY <2>2, <2>3, AtMostOne
<1>4. Cardinality(LossyAt(f, s)) = IF IsLossy(e) THEN 1 ELSE 0
  <2>1. LossyAt(f, s) = {} <=> ~IsLossy(e)
    BY <1>1 DEF LossyAt, IsLossy, Contains
  <2>2. \A x, y \in LossyAt(f, s) : x = y
    BY DEF LossyAt, ListsDistinct, Distinct
  <2> QED
    BY <2>1, <2>2, AtMostOne
<1>5. /\ IsAnswered(e) <=> s \in Answered(f)
      /\ IsSent(e) <=> s < max_next_seq[f]
  BY <1>1 DEF IsAnswered, IsSent
<1> QED
  BY <1>2, <1>3, <1>4, <1>5

\* Whatever is lost, and whoever finds out, no segment is forgotten and none
\* is in two places.
THEOREM NoSegmentForgotten == Spec => []EachSegmentOnce
  BY CountsPlaces, IInvHolds, PTL

-----------------------------------------------------------------------------
(* The window.                                                             *)

\* The segments of a flow that are in some list.
OutstandingOf(f) == {s \in Segment(f) : \E p \in Path : IsOutstanding(p, <<f, s>>)}

LEMMA IntervalSizes ==
    ASSUME NEW n \in Nat
    PROVE  /\ IsFiniteSet(1 .. n) /\ Cardinality(1 .. n) = n
           /\ IsFiniteSet(0 .. (n - 1)) /\ Cardinality(0 .. (n - 1)) = n
<1>1. IsFiniteSet(1 .. n) /\ Cardinality(1 .. n) = IF 1 > n THEN 0 ELSE n - 1 + 1
  BY FS_Interval
<1>2. /\ IsFiniteSet(0 .. (n - 1))
      /\ Cardinality(0 .. (n - 1)) = IF 0 > n - 1 THEN 0 ELSE (n - 1) - 0 + 1
  BY FS_Interval
<1> QED
  BY <1>1, <1>2

\* A list without repetition is as long as the set of its elements.
LEMMA LengthIsSize ==
    ASSUME NEW S, NEW q \in Seq(S), Distinct(q)
    PROVE  /\ IsFiniteSet({x \in S : Contains(q, x)})
           /\ Cardinality({x \in S : Contains(q, x)}) = Len(q)
<1> DEFINE T == {x \in S : Contains(q, x)}
<1>1. Len(q) \in Nat /\ DOMAIN q = 1 .. Len(q) /\ \A i \in 1 .. Len(q) : q[i] \in S
  BY LenProperties, ElementOfSeq
<1>2. q = [i \in 1 .. Len(q) |-> q[i]]
  BY <1>1, SeqDef
<1>3. q \in [1 .. Len(q) -> T]
  BY <1>1, <1>2 DEF Contains
<1>4. q \in Injection(1 .. Len(q), T)
  BY <1>3, Fun_IsInj DEF Distinct
<1>5. \A x \in T : \E i \in 1 .. Len(q) : q[i] = x
  BY DEF Contains
<1>6. q \in Bijection(1 .. Len(q), T)
  BY <1>4, <1>5, <1>3, Fun_IsBij, Fun_IsSurj DEF Distinct
<1>7. IsFiniteSet(1 .. Len(q)) /\ Cardinality(1 .. Len(q)) = Len(q)
  BY <1>1, IntervalSizes
<1> QED
  BY <1>6, <1>7, FS_Bijection DEF ExistsBijection

\* The sizes of two finite sets without a common element add up.
LEMMA DisjointSizes ==
    ASSUME NEW S, NEW T, IsFiniteSet(S), IsFiniteSet(T), S \cap T = {}
    PROVE  /\ IsFiniteSet(S \cup T)
           /\ Cardinality(S \cup T) = Cardinality(S) + Cardinality(T)
<1>1. /\ IsFiniteSet(S \cup T)
      /\ Cardinality(S \cup T) = Cardinality(S) + Cardinality(T) - Cardinality(S \cap T)
  BY FS_Union
<1>2. Cardinality(S) \in Nat /\ Cardinality(T) \in Nat /\ Cardinality(S \cap T) = 0
  BY FS_CardinalityType, FS_EmptySet
<1> QED
  BY <1>1, <1>2

\* The code's formula for what is on the fly counts what is in the lists: the
\* segments sent so far are below snd_una, stored above it, lossy or listed.
LEMMA OnTheFlyIsOutstanding ==
    ASSUME IInv, NEW f \in Flow
    PROVE  /\ IsFiniteSet(OutstandingOf(f))
           /\ GetOnTheFly(f) = Cardinality(OutstandingOf(f))
<1> USE DEF IInv
<1> DEFINE Below == 0 .. (snd_una[f] - 1)
           Lost == {s \in Nat : Contains(lossy[f], s)}
           Sent == 0 .. (max_next_seq[f] - 1)
           Out == OutstandingOf(f)
           Got == sacked[f]
<1>1. /\ snd_una[f] \in Nat /\ max_next_seq[f] \in Nat /\ Size[f] \in Nat
      /\ snd_una[f] <= Size[f] /\ max_next_seq[f] <= Size[f]
      /\ Got \subseteq Segment(f) /\ Segment(f) \subseteq Nat
      /\ \A s : s \in Segment(f) <=> s \in Nat /\ s < Size[f]
      /\ lossy[f] \in Seq(Nat) /\ Distinct(lossy[f])
      /\ \A s : Contains(lossy[f], s) => s \in Segment(f)
  BY Typed, EntryFacts DEF ListsDistinct
<1>2. IsFiniteSet(Segment(f))
  BY <1>1, IntervalSizes DEF Segment
<1>3. IsFiniteSet(Got) /\ IsFiniteSet(Out)
  BY <1>1, <1>2, FS_Subset DEF OutstandingOf
<1>4. IsFiniteSet(Lost) /\ Cardinality(Lost) = Len(lossy[f]) /\ Len(lossy[f]) \in Nat
  BY <1>1, LengthIsSize, LenProperties
<1>5. /\ IsFiniteSet(Below) /\ Cardinality(Below) = snd_una[f]
      /\ IsFiniteSet(Sent) /\ Cardinality(Sent) = max_next_seq[f]
  BY <1>1, IntervalSizes
<1>6. \A s \in Got : s > snd_una[f]
  BY DEF GapIsFirst
<1>7. ASSUME NEW s \in Segment(f)
      PROVE  /\ s \in Below <=> s < snd_una[f]
             /\ s \in Sent <=> s < max_next_seq[f]
             /\ s \in Lost => ~(s < snd_una[f]) /\ s \notin Got /\ s \notin Out
             /\ s \in Out => ~(s < snd_una[f]) /\ s \notin Got
             /\ s < max_next_seq[f] <=> s < snd_una[f] \/ s \in Got \/ s \in Lost \/ s \in Out
  <2> DEFINE e == <<f, s>>
  <2>1. e \in Entry /\ e[1] = f /\ e[2] = s /\ s \in Nat
    BY EntryFacts
  <2>2. /\ IsLossy(e) <=> s \in Lost
        /\ IsSent(e) <=> s < max_next_seq[f]
        /\ IsAnswered(e) <=> s < snd_una[f] \/ s \in Got
        /\ s \in Out <=> \E p \in Path : IsOutstanding(p, e)
    BY <2>1 DEF IsLossy, IsSent, IsAnswered, Answered, OutstandingOf
  <2>3. /\ \A p \in Path : IsOutstanding(p, e) => ~IsLossy(e) /\ ~IsAnswered(e)
        /\ IsLossy(e) => ~IsAnswered(e)
        /\ IsSent(e) <=> IsLossy(e) \/ IsAnswered(e) \/ \E p \in Path : IsOutstanding(p, e)
    BY <2>1 DEF OnePlace
  <2>4. s \in Below <=> s < snd_una[f]
    BY <1>1, <2>1
  <2>5. s \in Sent <=> s < max_next_seq[f]
    BY <1>1, <2>1
  <2> QED
    BY <2>2, <2>3, <2>4, <2>5
<1>8. Below \subseteq Segment(f) /\ Sent \subseteq Segment(f)
  BY <1>1
<1>9. Lost \subseteq Segment(f) /\ Out \subseteq Segment(f)
  BY <1>1 DEF OutstandingOf
<1>10. \A s \in Got : ~(s < snd_una[f])
  BY <1>1, <1>6
<1> HIDE DEF Below, Lost, Sent, Out, Got
<1>11. /\ Below \cap Got = {} /\ (Below \cup Got) \cap Lost = {}
       /\ ((Below \cup Got) \cup Lost) \cap Out = {}
  BY <1>1, <1>7, <1>8, <1>9, <1>10
<1>12. Sent = ((Below \cup Got) \cup Lost) \cup Out
  BY <1>1, <1>7, <1>8, <1>9
<1>13. /\ IsFiniteSet(Below \cup Got)
       /\ Cardinality(Below \cup Got) = Cardinality(Below) + Cardinality(Got)
  BY <1>3, <1>5, <1>11, DisjointSizes
<1>14. /\ IsFiniteSet((Below \cup Got) \cup Lost)
       /\ Cardinality((Below \cup Got) \cup Lost) = Cardinality(Below \cup Got) + Cardinality(Lost)
  BY <1>4, <1>11, <1>13, DisjointSizes
<1>15. Cardinality(Sent) = Cardinality((Below \cup Got) \cup Lost) + Cardinality(Out)
  BY <1>3, <1>11, <1>12, <1>14, DisjointSizes
<1>16. Cardinality(Got) \in Nat /\ Cardinality(Out) \in Nat
  BY <1>3, FS_CardinalityType
<1>17. Cardinality(Out) = (max_next_seq[f] - snd_una[f]) - Len(lossy[f]) - Cardinality(Got)
  <2>1. max_next_seq[f] = snd_una[f] + Cardinality(Got) + Len(lossy[f]) + Cardinality(Out)
    BY <1>4, <1>5, <1>13, <1>14, <1>15
  <2>2. /\ max_next_seq[f] \in Nat /\ snd_una[f] \in Nat /\ Len(lossy[f]) \in Nat
        /\ Cardinality(Got) \in Nat /\ Cardinality(Out) \in Nat
    BY <1>1, <1>4, <1>16
  <2> DEFINE out == Cardinality(Out)  got == Cardinality(Got)  lost == Len(lossy[f])
             una == snd_una[f]  next == max_next_seq[f]
  <2> HIDE DEF out, got, lost, una, next
  <2>3. next = una + got + lost + out
    BY <2>1 DEF out, got, lost, una, next
  <2>4. next \in Nat /\ una \in Nat /\ lost \in Nat /\ got \in Nat /\ out \in Nat
    BY <2>2 DEF out, got, lost, una, next
  <2>5. out = (next - una) - lost - got
    BY <2>3, <2>4
  <2> QED
    BY <2>5 DEF out, got, lost, una, next
<1> QED
  BY <1>3, <1>17 DEF GetOnTheFly, Out, Got

\* InFlightWithinWindow counts places in lists; each holds a segment of its own.
LEMMA PlacesAreSegments ==
    ASSUME IInv, NEW f \in Flow
    PROVE  Cardinality(UNION {OutstandingAt(f, s) : s \in Segment(f)})
             = Cardinality(OutstandingOf(f))
<1> USE DEF IInv
<1> DEFINE Places == UNION {OutstandingAt(f, s) : s \in Segment(f)}
           Out == OutstandingOf(f)
           At(s) == CHOOSE x \in Places : x \in OutstandingAt(f, s)
           at == [s \in Out |-> At(s)]
<1>1. \A s \in Segment(f) : \A x :
        x \in OutstandingAt(f, s)
          <=> \E p \in Path : \E i \in 1 .. Len(outstanding[p]) :
                 outstanding[p][i] = <<f, s>> /\ x = <<p, i>>
  BY DEF OutstandingAt
<1>2. \A s \in Segment(f) : OutstandingAt(f, s) \subseteq Places
  OBVIOUS
<1>3. \A x \in Places : \E s \in Segment(f) : x \in OutstandingAt(f, s)
  OBVIOUS
<1> HIDE DEF Places
<1>0. \A s : s \in Out <=> /\ s \in Segment(f)
                         /\ \E p \in Path : \E i \in 1 .. Len(outstanding[p]) :
                               outstanding[p][i] = <<f, s>>
  BY DEF OutstandingOf, IsOutstanding, Contains
<1> HIDE DEF Out
<1>4. \A s \in Out : s \in Segment(f) /\ OutstandingAt(f, s) # {}
  <2> SUFFICES ASSUME NEW s \in Out
               PROVE  s \in Segment(f) /\ OutstandingAt(f, s) # {}
    OBVIOUS
  <2>1. PICK p \in Path : \E i \in 1 .. Len(outstanding[p]) : outstanding[p][i] = <<f, s>>
    BY <1>0
  <2>2. PICK i \in 1 .. Len(outstanding[p]) : outstanding[p][i] = <<f, s>>
    BY <2>1
  <2>3. s \in Segment(f)
    BY <1>0
  <2>4. <<p, i>> \in OutstandingAt(f, s)
    BY <1>1, <2>2, <2>3
  <2> QED
    BY <2>3, <2>4
<1>5. \A s \in Segment(f) : OutstandingAt(f, s) # {} => s \in Out
  BY <1>0, <1>1
<1>6. \A s \in Out : at[s] \in Places /\ at[s] \in OutstandingAt(f, s)
  BY <1>2, <1>4
<1>7. ASSUME NEW s \in Segment(f), NEW x \in OutstandingAt(f, s), NEW y \in OutstandingAt(f, s)
      PROVE  x = y
  <2> DEFINE e == <<f, s>>
  <2>0. \A z : z \in OutstandingAt(f, s)
                 <=> \E p \in Path : \E i \in 1 .. Len(outstanding[p]) :
                        outstanding[p][i] = e /\ z = <<p, i>>
    BY <1>1
  <2> HIDE DEF e
  <2>1. PICK p, i : /\ p \in Path /\ i \in 1 .. Len(outstanding[p])
                    /\ outstanding[p][i] = e /\ x = <<p, i>>
    BY <2>0
  <2>2. PICK q, j : /\ q \in Path /\ j \in 1 .. Len(outstanding[q])
                    /\ outstanding[q][j] = e /\ y = <<q, j>>
    BY <2>0
  <2>3. e \in Entry
    BY EntryFacts DEF e
  <2>4. p = q
    BY <2>1, <2>2, <2>3 DEF OnePlace, IsOutstanding, Contains
  <2>5. i = j
    BY <2>1, <2>2, <2>4 DEF ListsDistinct, Distinct
  <2> QED
    BY <2>1, <2>2, <2>4, <2>5
<1>8. \A s, t \in Segment(f) : \A x \in OutstandingAt(f, s) \cap OutstandingAt(f, t) : s = t
  <2> SUFFICES ASSUME NEW s \in Segment(f), NEW t \in Segment(f),
                      NEW x \in OutstandingAt(f, s) \cap OutstandingAt(f, t)
               PROVE  s = t
    OBVIOUS
  <2>1. x \in OutstandingAt(f, s) /\ x \in OutstandingAt(f, t)
    OBVIOUS
  <2>2. PICK p, i : outstanding[p][i] = <<f, s>> /\ x = <<p, i>>
    BY <2>1 DEF OutstandingAt
  <2>3. PICK q, j : outstanding[q][j] = <<f, t>> /\ x = <<q, j>>
    BY <2>1 DEF OutstandingAt
  <2> QED
    BY <2>2, <2>3
<1> HIDE DEF At
<1>9. at \in [Out -> Places]
  BY <1>6
<1>10. \A s, t \in Out : at[s] = at[t] => s = t
  BY <1>4, <1>6, <1>8
<1>11. \A x \in Places : \E s \in Out : at[s] = x
  BY <1>3, <1>4, <1>5, <1>6, <1>7
<1> HIDE DEF at, Out
<1>12. at \in Bijection(Out, Places)
  BY <1>9, <1>10, <1>11, Fun_IsBij
<1>13. IsFiniteSet(Out)
  BY OnTheFlyIsOutstanding DEF Out
<1>14. Cardinality(Places) = Cardinality(Out)
  BY <1>12, <1>13, FS_Bijection DEF ExistsBijection
<1> QED
  BY <1>14 DEF Places, Out

\* Every step but Send only takes entries out of the lists.
LEMMA ListsShrink ==
    ASSUME IInv, [Next]_vars, ~\E f \in Flow, p \in Path : Send(f, p)
    PROVE  \A p \in Path : \A x \in Entry : IsOutstanding(p, x)' => IsOutstanding(p, x)
<1>1. ASSUME UNCHANGED outstanding
      PROVE  \A p \in Path : \A x \in Entry : IsOutstanding(p, x)' => IsOutstanding(p, x)
  BY <1>1 DEF IsOutstanding
<1>2. ASSUME NEW p \in Path, NEW rest, outstanding' = [outstanding EXCEPT ![p] = rest],
             \A x \in Entry : Contains(rest, x) => IsOutstanding(p, x)
      PROVE  \A q \in Path : \A x \in Entry : IsOutstanding(q, x)' => IsOutstanding(q, x)
  <2>1. outstanding \in [Path -> Seq(Entry)]
    BY DEF IInv, TypeOK
  <2>2. outstanding'[p] = rest /\ \A q \in Path \ {p} : outstanding'[q] = outstanding[q]
    BY <1>2, <2>1
  <2> QED
    BY <1>2, <2>2 DEF IsOutstanding
<1>3. ASSUME NEW p \in Path, ReceiveAck(p)
      PROVE  \A q \in Path : \A x \in Entry : IsOutstanding(q, x)' => IsOutstanding(q, x)
  <2> DEFINE f == Head(acks[p])[1]
             s == Head(acks[p])[2]
             e == <<f, s>>
  <2>1. Head(acks[p]) \in Entry /\ e \in Entry
    <3>1. acks[p] \in Seq(Entry) /\ acks[p] # <<>>
      BY <1>3, Typed DEF IInv, ReceiveAck
    <3>2. Head(acks[p]) \in Entry
      BY <3>1, HeadTailFacts
    <3> QED
      BY <3>2, EntryFacts
  <2>2. CASE finished[f]
    BY <1>1, <1>3, <2>2 DEF ReceiveAck, pathVars
  <2>3. CASE ~finished[f]
    <3>1. checkOutstandingDataAndUpdateLossyData(p, e)
      BY <1>3, <2>3 DEF ReceiveAck, ReceiveAckLive
    <3> HIDE DEF e
    <3> DEFINE restAt(i) == SubSeq(outstanding[p], i + 1, Len(outstanding[p]))
    <3>2. PICK i \in 1 .. Len(outstanding[p]) :
            /\ outstanding' = [outstanding EXCEPT ![p] = restAt(i)]
            /\ \A x : Contains(restAt(i), x) => Contains(outstanding[p], x)
      <4>1. e \in Entry
        BY <2>1 DEF e
      <4>2. PICK j \in 1 .. Len(outstanding[p]) :
              LET rest == SubSeq(outstanding[p], j + 1, Len(outstanding[p]))
              IN  /\ outstanding' = [outstanding EXCEPT ![p] = rest]
                  /\ \A x : Contains(rest, x) => Contains(outstanding[p], x)
        BY <3>1, <4>1, DetectorDoes, Zenon
      <4> QED
        BY <4>2
    <3> DEFINE rest == restAt(i)
    <3> HIDE DEF restAt
    <3>3. /\ outstanding' = [outstanding EXCEPT ![p] = rest]
          /\ \A x \in Entry : Contains(rest, x) => IsOutstanding(p, x)
      BY <3>2 DEF IsOutstanding
    <3> HIDE DEF rest
    <3> QED
      BY <3>3, <1>2
  <2> QED
    BY <2>2, <2>3
<1>4. ASSUME NEW p \in Path, HandleTimeout(p)
      PROVE  \A q \in Path : \A x \in Entry : IsOutstanding(q, x)' => IsOutstanding(q, x)
  <2> DEFINE rest == <<>>
  <2>1. /\ outstanding' = [outstanding EXCEPT ![p] = rest]
        /\ \A x \in Entry : Contains(rest, x) => IsOutstanding(p, x)
    BY <1>4 DEF HandleTimeout, Contains
  <2> HIDE DEF rest
  <2> QED
    BY <2>1, <1>2
<1>5. ASSUME NEW p \in Path, ReceiveUdp(p) \/ LoseData(p) \/ LoseAck(p)
      PROVE  UNCHANGED outstanding
  BY <1>5 DEF ReceiveUdp, LoseData, LoseAck, pathVars
<1>6. CASE Rest \/ ReceiveOther \/ Quiet \/ UNCHANGED vars
  BY <1>1, <1>6 DEF Rest, ReceiveOther, Quiet, vars, pathVars
<1> QED
  BY <1>1, <1>3, <1>4, <1>5, <1>6 DEF Next

\* No flow has more than its window in the lists.
WindowKept == \A f \in Flow : Cardinality(OutstandingOf(f)) <= MaxWin

LEMMA WindowInit == Init => WindowKept
<1> SUFFICES ASSUME Init, NEW f \in Flow PROVE Cardinality(OutstandingOf(f)) <= MaxWin
  BY DEF WindowKept
<1>1. \A p \in Path : \A x : ~IsOutstanding(p, x)
  BY DEF Init, IsOutstanding, Contains
<1>2. OutstandingOf(f) = {}
  BY <1>1 DEF OutstandingOf
<1> QED
  BY <1>2, FS_EmptySet, LapsAssumption

\* Send adds one segment, under the window; the other steps add none.
LEMMA WindowInductive == IInv /\ WindowKept /\ [Next]_vars => WindowKept'
<1> SUFFICES ASSUME IInv, WindowKept, [Next]_vars, NEW g \in Flow
             PROVE  Cardinality(OutstandingOf(g)') <= MaxWin
  BY DEF WindowKept
<1>1. /\ IsFiniteSet(OutstandingOf(g)) /\ Cardinality(OutstandingOf(g)) \in Nat
      /\ GetOnTheFly(g) = Cardinality(OutstandingOf(g))
      /\ Cardinality(OutstandingOf(g)) <= MaxWin /\ MaxWin \in Nat
  BY OnTheFlyIsOutstanding, FS_CardinalityType, LapsAssumption DEF WindowKept
<1>2. ASSUME OutstandingOf(g)' \subseteq OutstandingOf(g)
      PROVE  Cardinality(OutstandingOf(g)') <= MaxWin
  <2>1. /\ Cardinality(OutstandingOf(g)') <= Cardinality(OutstandingOf(g))
        /\ IsFiniteSet(OutstandingOf(g)')
    BY <1>1, <1>2, FS_Subset
  <2>2. Cardinality(OutstandingOf(g)') \in Nat
    BY <2>1, FS_CardinalityType
  <2> QED
    BY <1>1, <2>1, <2>2
<1>3. ASSUME NEW f \in Flow, NEW p \in Path, Send(f, p)
      PROVE  Cardinality(OutstandingOf(g)') <= MaxWin
  <2> DEFINE s == NextSegment(f)
             e == <<f, s>>
  <2>1. /\ MaySend(f) /\ outstanding' = [outstanding EXCEPT ![p] = Append(@, e)]
    BY <1>3 DEF Send, AppendOutStandingDataPerPath
  <2>2. e \in Entry
    BY <1>3, SegmentTaken DEF Send
  <2>3. outstanding[p] \in Seq(Entry) /\ outstanding \in [Path -> Seq(Entry)]
    BY DEF IInv, TypeOK
  <2> HIDE DEF e
  <2>4. \A x : Contains(Append(outstanding[p], e), x) <=> Contains(outstanding[p], x) \/ x = e
    BY <2>2, <2>3, AppendFacts
  <2>5. \A q \in Path : \A x : IsOutstanding(q, x)' => IsOutstanding(q, x) \/ x = e
    BY <2>1, <2>3, <2>4 DEF IsOutstanding
  <2>6. CASE g # f
    <3>1. OutstandingOf(g)' \subseteq OutstandingOf(g)
      BY <2>5, <2>6 DEF OutstandingOf, e
    <3> QED
      BY <3>1, <1>2
  <2>7. CASE g = f
    <3>1. OutstandingOf(g)' \subseteq OutstandingOf(g) \cup {s}
      BY <2>5, <2>7 DEF OutstandingOf, e
    <3> HIDE DEF s
    <3>2. /\ IsFiniteSet(OutstandingOf(g) \cup {s})
          /\ Cardinality(OutstandingOf(g) \cup {s}) <= Cardinality(OutstandingOf(g)) + 1
      <4>1. /\ IsFiniteSet(OutstandingOf(g) \cup {s})
            /\ Cardinality(OutstandingOf(g) \cup {s})
                 = IF s \in OutstandingOf(g) THEN Cardinality(OutstandingOf(g))
                                             ELSE Cardinality(OutstandingOf(g)) + 1
        BY <1>1, FS_AddElement
      <4> QED
        BY <1>1, <4>1
    <3>3. /\ IsFiniteSet(OutstandingOf(g)')
          /\ Cardinality(OutstandingOf(g)') <= Cardinality(OutstandingOf(g) \cup {s})
      BY <3>1, <3>2, FS_Subset
    <3>4. /\ Cardinality(OutstandingOf(g)') \in Nat
          /\ Cardinality(OutstandingOf(g) \cup {s}) \in Nat
      BY <3>2, <3>3, FS_CardinalityType
    <3>5. GetOnTheFly(g) + 1 <= win[g] /\ win[g] \in 1 .. MaxWin
      BY <2>1, <2>7, Typed DEF MaySend, WindowOpen, IInv
    <3> QED
      BY <1>1, <3>2, <3>3, <3>4, <3>5
  <2> QED
    BY <2>6, <2>7
<1>4. CASE ~\E f \in Flow, p \in Path : Send(f, p)
  <2>1. \A p \in Path : \A x \in Entry : IsOutstanding(p, x)' => IsOutstanding(p, x)
    BY <1>4, ListsShrink
  <2>2. \A s \in Segment(g) : <<g, s>> \in Entry
    BY EntryFacts
  <2>3. OutstandingOf(g)' \subseteq OutstandingOf(g)
    BY <2>1, <2>2 DEF OutstandingOf
  <2> QED
    BY <2>3, <1>2
<1> QED
  BY <1>3, <1>4

\* The window bounds what a flow has in all lists together, for any window the
\* rate leaves, although the code only subtracts other quantities.
THEOREM WindowBoundsFlight == Spec => []InFlightWithinWindow
<1>1. IInv /\ WindowKept => InFlightWithinWindow
  BY PlacesAreSegments DEF WindowKept, InFlightWithinWindow
<1> QED
  BY <1>1, IInvInit, IInvInductive, WindowInit, WindowInductive, PTL DEF Spec

-----------------------------------------------------------------------------
(* Completion.                                                             *)

\* A step either tells the application nothing, or is one of its steps.
LEMMA StepImplements == IInv /\ [Next]_vars => [RD!Next]_(RD!rdVars)
<1> SUFFICES ASSUME IInv, [Next]_vars PROVE RD!Next \/ UNCHANGED RD!rdVars
  OBVIOUS
<1> USE DEF RD!rdVars
<1>1. ASSUME NEW p \in Path, ReceiveUdp(p) PROVE RD!Next \/ UNCHANGED RD!rdVars
  <2> DEFINE f == Head(data[p])[1]
             s == Head(data[p])[2]
  <2>1. data[p] \in Seq(Entry) /\ data[p] # <<>>
    BY <1>1, Typed DEF IInv, ReceiveUdp
  <2>2. Head(data[p]) \in Entry
    BY <2>1, HeadTailFacts
  <2>3. f \in Flow /\ s \in RD!Segments(f)
    BY <2>2, EntryFacts DEF RD!Segments, Segment
  <2>4. finished' = finished
    BY <1>1 DEF ReceiveUdp, flowVars
  <2>5. CASE finished[f]
    BY <1>1, <2>4, <2>5 DEF ReceiveUdp
  <2>6. CASE ~finished[f]
    <3>1. delivered' = [delivered EXCEPT ![f] = @ \cup {s}]
      BY <1>1, <2>6 DEF ReceiveUdp
    <3> HIDE DEF f, s
    <3>2. RD!Deliver(f)
      BY <2>3, <2>4, <2>6, <3>1 DEF RD!Deliver
    <3> QED
      BY <2>3, <3>2 DEF RD!Next
  <2> QED
    BY <2>5, <2>6
<1>2. ASSUME NEW p \in Path, ReceiveAck(p) PROVE RD!Next \/ UNCHANGED RD!rdVars
  <2> DEFINE f == Head(acks[p])[1]
             s == Head(acks[p])[2]
  <2>1. acks[p] \in Seq(Entry) /\ acks[p] # <<>>
    BY <1>2, Typed DEF IInv, ReceiveAck
  <2>2. Head(acks[p]) \in Entry
    BY <2>1, HeadTailFacts
  <2>3. f \in Flow
    BY <2>2, EntryFacts
  <2>4. delivered' = delivered
    BY <1>2 DEF ReceiveAck, ReceiveAckLive
  <2>5. CASE finished[f]
    BY <1>2, <2>4, <2>5 DEF ReceiveAck, flowVars
  <2>6. CASE ~finished[f]
    <3>1. QpComplete(f) \/ HandleAckLaps(f)
      BY <1>2, <2>6 DEF ReceiveAck, ReceiveAckLive
    <3> HIDE DEF f
    <3>2. CASE HandleAckLaps(f)
      BY <2>4, <3>2 DEF HandleAckLaps
    <3>3. CASE QpComplete(f)
      <4>1. finished' = [finished EXCEPT ![f] = TRUE] /\ snd_una'[f] >= Size[f]
        BY <3>3 DEF QpComplete
      <4>2. IInv'
        BY IInvInductive
      <4>3. snd_una'[f] \in Nat /\ Size[f] \in Nat /\ delivered[f] \subseteq Segment(f)
        BY <2>3, <4>2, EntryFacts, Typed DEF IInv, TypeOK
      <4>4. \A m \in Segment(f) : m < snd_una'[f]
        BY <2>3, <4>1, <4>3, EntryFacts
      <4>5. Segment(f) \subseteq delivered'[f]
        BY <2>3, <4>2, <4>4 DEF IInv, AnswersTrue, Answered
      <4>6. delivered[f] = RD!Segments(f)
        BY <2>4, <4>3, <4>5 DEF RD!Segments, Segment
      <4>7. RD!Complete(f)
        BY <2>4, <2>6, <4>1, <4>6 DEF RD!Complete, f
      <4> QED
        BY <2>3, <4>7 DEF RD!Next
    <3> QED
      BY <3>1, <3>2, <3>3
  <2> QED
    BY <2>5, <2>6
<1>3. ASSUME NEW f \in Flow, NEW p \in Path, Send(f, p) PROVE UNCHANGED RD!rdVars
  BY <1>3 DEF Send
<1>4. ASSUME NEW p \in Path, HandleTimeout(p) \/ LoseData(p) \/ LoseAck(p)
      PROVE  UNCHANGED RD!rdVars
  BY <1>4 DEF HandleTimeout, LoseData, LoseAck, flowVars
<1>5. CASE Rest \/ ReceiveOther \/ Quiet \/ UNCHANGED vars
  BY <1>5 DEF Rest, ReceiveOther, Quiet, vars, flowVars
<1> QED
  BY <1>1, <1>2, <1>3, <1>4, <1>5 DEF Next

\* For every number of flows and paths, size and window, whatever is lost and
\* whenever timers fire: QpComplete is called once per flow, after the receiver
\* got every segment, and nothing of a flow that is over is taken again.
THEOREM LapsRefinesReliableDelivery == Spec => ImplementsReliableDelivery
<1>1. Init => RD!Init
  BY DEF Init, RD!Init
<1> QED
  BY <1>1, IInvHolds, StepImplements, PTL DEF Spec, ImplementsReliableDelivery, RD!Spec

-----------------------------------------------------------------------------
(* The acknowledgements.                                                   *)

\* The acknowledgement of a segment is a step of AckSet for its flow, and of
\* no other.
LEMMA AcknowledgeIsAckFlow ==
    ASSUME IInv, NEW f \in Flow, NEW s \in Segment(f), AcknowledgeForLaps(f, s)
    PROVE  /\ AckFlow(f)
           /\ \A g \in Flow \ {f} : UNCHANGED <<snd_una[g], sacked[g]>>
<1> DEFINE got == sacked[f] \cup {s}
           una == FirstGap(got, snd_una[f])
<1>1. /\ s >= snd_una[f]
      /\ snd_una' = [snd_una EXCEPT ![f] = una]
      /\ sacked' = [sacked EXCEPT ![f] = {m \in got : m >= una}]
  BY DEF AcknowledgeForLaps
<1>2. /\ snd_una[f] \in Nat /\ Size[f] \in Nat /\ s \in Nat
      /\ sacked[f] \subseteq Segment(f) /\ Segment(f) \subseteq Nat
      /\ snd_una \in [Flow -> Nat] /\ sacked \in [Flow -> SUBSET Nat]
  BY Typed, EntryFacts DEF IInv, TypeOK
<1>3. got \subseteq Segment(f) /\ got \subseteq Nat /\ IsFiniteSet(got)
  <2>1. 0 \in Int /\ Size[f] - 1 \in Int
    BY <1>2
  <2>2. IsFiniteSet(Segment(f))
    BY <2>1, FS_Interval DEF Segment
  <2> QED
    BY <1>2, <2>2, FS_Subset
<1>4. got = sacked[f] \cup (s .. ((s + 1) - 1))
  BY <1>2
<1> HIDE DEF got
<1>5. /\ una \in Nat /\ una >= snd_una[f] /\ una \notin got
      /\ \A m \in snd_una[f] .. (una - 1) : m \in got
  BY <1>2, <1>3, FirstGapIs
<1> HIDE DEF una
<1>6. /\ snd_una'[f] = una /\ sacked'[f] = {m \in got : m >= una}
      /\ \A g \in Flow \ {f} : snd_una'[g] = snd_una[g] /\ sacked'[g] = sacked[g]
  BY <1>1, <1>2
<1>7. una <= Size[f]
  <2>1. snd_una'[f] <= Size[f]
    BY AcknowledgeDoes
  <2> QED
    BY <1>6, <2>1
<1>8. sacked'[f] = got \ (0 .. (una - 1))
  <2>1. \A m \in got : m >= una <=> m \notin 0 .. (una - 1)
    BY <1>3, <1>5
  <2> QED
    BY <1>6, <2>1
<1>9. Acked(f)!Advance(s, s + 1)
  <2>1. una \in snd_una[f] .. Size[f]
    BY <1>2, <1>5, <1>7
  <2> QED
    BY <1>4, <1>5, <1>6, <1>8, <2>1 DEF Acked!Advance
<1>10. AckFlow(f)
  BY <1>1, <1>9 DEF AckFlow
<1> QED
  BY <1>6, <1>10

\* No other step touches what is acknowledged.
LEMMA StepKeepsAckSet ==
    ASSUME IInv, [Next]_vars
    PROVE  \A f \in Flow : AckFlow(f) \/ UNCHANGED <<snd_una[f], sacked[f]>>
<1> DEFINE Same == snd_una' = snd_una /\ sacked' = sacked
<1>1. ASSUME NEW p \in Path, ReceiveAck(p)
      PROVE  Same \/ \E f \in Flow : \E s \in Segment(f) : AcknowledgeForLaps(f, s)
  <2> DEFINE f == Head(acks[p])[1]
             s == Head(acks[p])[2]
  <2>1. acks[p] \in Seq(Entry) /\ acks[p] # <<>>
    BY <1>1, Typed DEF IInv, ReceiveAck
  <2>2. Head(acks[p]) \in Entry
    BY <2>1, HeadTailFacts
  <2>3. f \in Flow /\ s \in Segment(f)
    BY <2>2, EntryFacts
  <2>4. finished[f] => Same
    BY <1>1 DEF ReceiveAck, flowVars
  <2>5. ~finished[f] => AcknowledgeForLaps(f, s)
    BY <1>1 DEF ReceiveAck, ReceiveAckLive
  <2> QED
    BY <2>3, <2>4, <2>5
<1>2. ASSUME NEW f \in Flow, NEW p \in Path, Send(f, p) PROVE Same
  BY <1>2 DEF Send
<1>3. ASSUME NEW p \in Path,
             ReceiveUdp(p) \/ HandleTimeout(p) \/ LoseData(p) \/ LoseAck(p)
      PROVE  Same
  BY <1>3 DEF ReceiveUdp, HandleTimeout, LoseData, LoseAck, flowVars
<1>4. ASSUME Rest \/ ReceiveOther \/ Quiet \/ UNCHANGED vars PROVE Same
  BY <1>4 DEF Rest, ReceiveOther, Quiet, vars, flowVars
<1>5. Same \/ \E f \in Flow : \E s \in Segment(f) : AcknowledgeForLaps(f, s)
  BY <1>1, <1>2, <1>3, <1>4 DEF Next
<1>6. CASE Same
  BY <1>6
<1>7. ASSUME NEW f \in Flow, NEW s \in Segment(f), AcknowledgeForLaps(f, s),
             NEW g \in Flow
      PROVE  AckFlow(g) \/ UNCHANGED <<snd_una[g], sacked[g]>>
  BY <1>7, AcknowledgeIsAckFlow
<1> QED
  BY <1>5, <1>6, <1>7

\* For every flow, whichever of its segments come back, over whichever path and
\* in whatever order: snd_una stops at the first segment not answered, no answer
\* above it is lost from sacked, and neither a timeout, nor a transmission, nor
\* an answer to another flow changes them.
THEOREM LapsKeepsAckSet == Spec => EachFlowKeepsAckSet
<1> DEFINE AInit == \A f \in Flow : snd_una[f] = 0 /\ sacked[f] = {}
           ANext == \A f \in Flow : AckFlow(f) \/ UNCHANGED <<snd_una[f], sacked[f]>>
<1>1. Init => AInit
  BY DEF Init
<1>2. IInv /\ [Next]_vars => ANext
  BY StepKeepsAckSet
<1>3. EachFlowKeepsAckSet <=> AInit /\ [][ANext]_vars
  BY DEF EachFlowKeepsAckSet
<1> HIDE DEF AInit, ANext
<1>4. Spec => AInit /\ [][ANext]_vars
  BY <1>1, <1>2, IInvHolds, PTL DEF Spec
<1> QED
  BY <1>3, <1>4

-----------------------------------------------------------------------------
(* The NIC's rest.                                                         *)

\* The NIC rests over a segment that may be sent only once a flow is over, on
\* any host: the early return of the completion is the only handler without a
\* trigger.
THEOREM SleepNeedsCompletion == Spec => []SleepsOnlyAfterCompletion
<1>1. Init => SleepsOnlyAfterCompletion
  BY DEF Init, SleepsOnlyAfterCompletion
<1>2. IInv /\ SleepsOnlyAfterCompletion /\ [Next]_vars => SleepsOnlyAfterCompletion'
  <2> SUFFICES ASSUME IInv, SleepsOnlyAfterCompletion, [Next]_vars
               PROVE  SleepsOnlyAfterCompletion'
    OBVIOUS
  <2>1. ASSUME UNCHANGED <<flowVars, awake>> PROVE SleepsOnlyAfterCompletion'
    BY <2>1 DEF SleepsOnlyAfterCompletion, MaySend, GetBytesLeft, WindowOpen, GetOnTheFly,
                flowVars
  <2>2. ASSUME awake' PROVE SleepsOnlyAfterCompletion'
    BY <2>2 DEF SleepsOnlyAfterCompletion
  <2>3. ASSUME NEW f \in Flow, NEW p \in Path, Send(f, p) PROVE awake'
    BY <2>3 DEF Send
  <2>4. ASSUME NEW p \in Path, ReceiveAck(p) PROVE SleepsOnlyAfterCompletion'
    <3> DEFINE f == Head(acks[p])[1]
    <3>1. f \in Flow
      <4>1. acks[p] \in Seq(Entry) /\ acks[p] # <<>>
        BY <2>4, Typed DEF IInv, ReceiveAck
      <4>2. Head(acks[p]) \in Entry
        BY <4>1, HeadTailFacts
      <4> QED
        BY <4>2, EntryFacts
    <3>2. CASE finished[f]
      BY <2>1, <2>4, <3>2 DEF ReceiveAck
    <3>3. CASE ~finished[f]
      <4>1. QpComplete(f) \/ HandleAckLaps(f)
        BY <2>4, <3>3 DEF ReceiveAck, ReceiveAckLive
      <4> HIDE DEF f
      <4>2. CASE HandleAckLaps(f)
        BY <2>2, <4>2 DEF HandleAckLaps, TriggerTransmit
      <4>3. CASE QpComplete(f)
        <5>1. finished'[f]
          BY <3>1, <4>3 DEF QpComplete, IInv, TypeOK
        <5> QED
          BY <3>1, <5>1 DEF SleepsOnlyAfterCompletion
      <4> QED
        BY <4>1, <4>2, <4>3
    <3> QED
      BY <3>2, <3>3
  <2>5. ASSUME NEW p \in Path, ReceiveUdp(p) \/ LoseData(p) \/ LoseAck(p)
        PROVE  UNCHANGED <<flowVars, awake>>
    BY <2>5 DEF ReceiveUdp, LoseData, LoseAck
  <2>6. ASSUME NEW p \in Path, HandleTimeout(p) PROVE awake'
    BY <2>6 DEF HandleTimeout, TriggerTransmit
  <2>7. CASE Rest
    <3>1. UNCHANGED flowVars /\ \A f \in Flow : ~MaySend(f)
      BY <2>7 DEF Rest
    <3>2. \A f \in Flow : ~MaySend(f)'
      BY <3>1 DEF MaySend, GetBytesLeft, WindowOpen, GetOnTheFly, flowVars
    <3> QED
      BY <3>2 DEF SleepsOnlyAfterCompletion
  <2>8. CASE ReceiveOther
    BY <2>2, <2>8 DEF ReceiveOther, TriggerTransmit
  <2>9. CASE Quiet \/ UNCHANGED vars
    BY <2>1, <2>9 DEF Quiet, vars
  <2> QED
    BY <2>1, <2>2, <2>3, <2>4, <2>5, <2>6, <2>7, <2>8, <2>9 DEF Next
<1> QED
  BY <1>1, <1>2, IInvInit, IInvInductive, PTL DEF Spec

-----------------------------------------------------------------------------
(* With a timer that outlasts what is in flight on its path.               *)

\* List n holds elements of list o, in the order of o.
InOrder(n, o) ==
    /\ \A i \in 1 .. Len(n) : Contains(o, n[i])
    /\ \A i, j \in 1 .. Len(n) : \A a, b \in 1 .. Len(o) :
           i < j /\ n[i] = o[a] /\ n[j] = o[b] => a < b

\* The answers and the packets of each path, those that are to arrive first at
\* the front, are entries of the path's list in the order of the list.
InFlight(p) == acks[p] \o data[p]
FifoOrder == \A p \in Path : InOrder(InFlight(p), outstanding[p])

\* An element less is still in order.
LEMMA RemovalKeepsOrder ==
    ASSUME NEW S, NEW n \in Seq(S), NEW m \in Seq(S), NEW o,
           NEW k \in 1 .. Len(n), Len(m) = Len(n) - 1,
           \A i \in 1 .. Len(m) : m[i] = n[IF i < k THEN i ELSE i + 1],
           InOrder(n, o)
    PROVE  InOrder(m, o)
<1> DEFINE g(i) == IF i < k THEN i ELSE i + 1
<1>1. Len(n) \in Nat /\ Len(m) \in Nat
  BY LenProperties
<1>2. \A i \in 1 .. Len(m) : g(i) \in 1 .. Len(n) /\ m[i] = n[g(i)]
  BY <1>1
<1>3. \A i, j \in 1 .. Len(m) : i < j => g(i) < g(j)
  BY <1>1
<1> HIDE DEF g
<1>4. \A i \in 1 .. Len(m) : Contains(o, m[i])
  BY <1>2 DEF InOrder
<1>5. ASSUME NEW i \in 1 .. Len(m), NEW j \in 1 .. Len(m),
             NEW a \in 1 .. Len(o), NEW b \in 1 .. Len(o),
             i < j, m[i] = o[a], m[j] = o[b]
      PROVE  a < b
  <2>1. g(i) \in 1 .. Len(n) /\ g(j) \in 1 .. Len(n) /\ g(i) < g(j)
    BY <1>2, <1>3, <1>5
  <2>2. n[g(i)] = o[a] /\ n[g(j)] = o[b]
    BY <1>2, <1>5
  <2> QED
    BY <2>1, <2>2 DEF InOrder
<1> QED
  BY <1>4, <1>5 DEF InOrder

\* What is sent comes last on both.
LEMMA AppendKeepsOrder ==
    ASSUME NEW S, NEW n \in Seq(S), NEW o \in Seq(S), NEW e \in S,
           InOrder(n, o), ~Contains(o, e)
    PROVE  InOrder(Append(n, e), Append(o, e))
<1>1. /\ Len(n) \in Nat /\ Len(o) \in Nat
      /\ Len(Append(n, e)) = Len(n) + 1 /\ Len(Append(o, e)) = Len(o) + 1
      /\ \A i \in 1 .. Len(n) : Append(n, e)[i] = n[i]
      /\ \A i \in 1 .. Len(o) : Append(o, e)[i] = o[i]
      /\ Append(n, e)[Len(n) + 1] = e /\ Append(o, e)[Len(o) + 1] = e
  BY AppendProperties, LenProperties
<1>2. \A x : Contains(Append(o, e), x) <=> Contains(o, x) \/ x = e
  BY AppendFacts
<1>3. \A i \in 1 .. Len(n) + 1 : i \in 1 .. Len(n) \/ i = Len(n) + 1
  BY <1>1
<1>4. \A a \in 1 .. Len(o) + 1 : a \in 1 .. Len(o) \/ a = Len(o) + 1
  BY <1>1
<1>5. \A i \in 1 .. Len(n) + 1 : Contains(Append(o, e), Append(n, e)[i])
  BY <1>1, <1>2, <1>3 DEF InOrder
<1>6. ASSUME NEW i \in 1 .. Len(n) + 1, NEW j \in 1 .. Len(n) + 1,
             NEW a \in 1 .. Len(o) + 1, NEW b \in 1 .. Len(o) + 1,
             i < j, Append(n, e)[i] = Append(o, e)[a], Append(n, e)[j] = Append(o, e)[b]
      PROVE  a < b
  <2>1. i \in 1 .. Len(n) /\ Append(n, e)[i] = n[i] /\ Contains(o, n[i])
    BY <1>1, <1>6 DEF InOrder
  <2>2. n[i] # e
    BY <2>1
  <2>3. a \in 1 .. Len(o) /\ Append(o, e)[a] = o[a]
    BY <1>1, <1>4, <1>6, <2>1, <2>2
  <2>4. CASE b = Len(o) + 1
    BY <1>1, <2>3, <2>4
  <2>5. CASE b \in 1 .. Len(o)
    <3>1. Append(o, e)[b] = o[b] /\ o[b] # e
      BY <1>1, <2>5 DEF Contains
    <3>2. j \in 1 .. Len(n) /\ Append(n, e)[j] = n[j]
      BY <1>1, <1>3, <1>6, <3>1
    <3> QED
      BY <1>6, <2>1, <2>3, <2>5, <3>1, <3>2 DEF InOrder
  <2> QED
    BY <1>4, <2>4, <2>5
<1> QED
  BY <1>1, <1>5, <1>6 DEF InOrder

\* The first is answered, at place k of the list: what is behind it in flight is
\* behind it in the list.
LEMMA AnswerKeepsOrder ==
    ASSUME NEW S, NEW n \in Seq(S), NEW o \in Seq(S), n # <<>>, InOrder(n, o),
           NEW k \in 1 .. Len(o), o[k] = Head(n)
    PROVE  InOrder(Tail(n), SubSeq(o, k + 1, Len(o)))
<1> DEFINE r == SubSeq(o, k + 1, Len(o))
           m == Tail(n)
<1>1. /\ Len(n) \in Nat \ {0} /\ Len(o) \in Nat /\ n[1] = o[k] /\ 1 \in 1 .. Len(n)
      /\ Len(m) = Len(n) - 1
      /\ \A i \in 1 .. Len(n) - 1 : m[i] = n[i + 1]
  BY HeadTailFacts, LenProperties
<1>2. Len(r) = Len(o) - k /\ \A a \in 1 .. Len(o) - k : r[a] = o[k + a]
  <2>1. k + 1 \in 1 .. (Len(o) + 1) /\ Len(o) \in 0 .. Len(o) /\ k + 1 <= Len(o) + 1
    BY <1>1
  <2>2. /\ Len(r) = Len(o) - (k + 1) + 1
        /\ \A a \in 1 .. Len(o) - (k + 1) + 1 : r[a] = o[k + 1 + a - 1]
    BY <2>1, SubSeqFacts
  <2>3. Len(o) - (k + 1) + 1 = Len(o) - k /\ \A a \in 1 .. Len(o) - k : k + 1 + a - 1 = k + a
    BY <1>1
  <2> QED
    BY <2>2, <2>3
<1> HIDE DEF r, m
<1>3. ASSUME NEW i \in 1 .. Len(n) - 1
      PROVE  /\ i + 1 \in 1 .. Len(n) /\ m[i] = n[i + 1]
             /\ \E a \in 1 .. Len(o) - k : r[a] = m[i]
  <2>1. i + 1 \in 1 .. Len(n) /\ 1 < i + 1 /\ m[i] = n[i + 1]
    BY <1>1
  <2>2. PICK b \in 1 .. Len(o) : o[b] = n[i + 1]
    BY <2>1 DEF InOrder, Contains
  <2>3. k < b
    BY <1>1, <2>1, <2>2 DEF InOrder
  <2>4. b - k \in 1 .. Len(o) - k /\ k + (b - k) = b
    BY <1>1, <2>3
  <2> QED
    BY <1>2, <2>1, <2>2, <2>4
<1>4. ASSUME NEW i \in 1 .. Len(n) - 1, NEW j \in 1 .. Len(n) - 1,
             NEW a \in 1 .. Len(o) - k, NEW b \in 1 .. Len(o) - k,
             i < j, m[i] = r[a], m[j] = r[b]
      PROVE  a < b
  <2>1. i + 1 \in 1 .. Len(n) /\ j + 1 \in 1 .. Len(n) /\ i + 1 < j + 1
    BY <1>1, <1>4
  <2>2. k + a \in 1 .. Len(o) /\ k + b \in 1 .. Len(o)
    BY <1>1
  <2>3. n[i + 1] = o[k + a] /\ n[j + 1] = o[k + b]
    BY <1>1, <1>2, <1>4
  <2>4. k + a < k + b
    BY <2>1, <2>2, <2>3 DEF InOrder
  <2> QED
    BY <1>1, <2>4
<1>5. InOrder(m, r)
  <2>1. Len(m) = Len(n) - 1 /\ Len(r) = Len(o) - k
    BY <1>1, <1>2
  <2>2. \A i \in 1 .. Len(m) : \E a \in 1 .. Len(r) : r[a] = m[i]
    BY <2>1, <1>3
  <2>3. \A i, j \in 1 .. Len(m) : \A a, b \in 1 .. Len(r) :
            i < j /\ m[i] = r[a] /\ m[j] = r[b] => a < b
    BY <2>1, <1>4
  <2> QED
    BY <2>2, <2>3 DEF InOrder, Contains
<1> QED
  BY <1>5 DEF m, r

\* What is in flight on a path after a packet or an answer is lost, and after
\* the front packet was turned into an answer.
LEMMA InFlightAfter ==
    ASSUME NEW S, NEW x \in Seq(S), NEW d \in Seq(S), NEW o, InOrder(x \o d, o)
    PROVE  /\ d # <<>> => InOrder(x \o Tail(d), o)
           /\ x # <<>> => InOrder(Tail(x) \o d, o)
           /\ x # <<>> => Head(x \o d) = Head(x) /\ Tail(x \o d) = Tail(x) \o d
           /\ d # <<>> => InOrder(Append(x, Head(d)) \o Tail(d), o)
           /\ \A e \in S : x \o Append(d, e) = Append(x \o d, e)
<1>1. /\ Len(x) \in Nat /\ Len(d) \in Nat /\ x \o d \in Seq(S)
      /\ Len(x \o d) = Len(x) + Len(d)
      /\ \A i \in 1 .. Len(x) + Len(d) : (x \o d)[i] = IF i <= Len(x) THEN x[i] ELSE d[i - Len(x)]
  BY ConcatProperties, LenProperties
<1>2. ASSUME d # <<>> PROVE InOrder(x \o Tail(d), o)
  <2> DEFINE m == x \o Tail(d)
             k == Len(x) + 1
  <2>1. /\ Len(d) \in Nat \ {0} /\ Tail(d) \in Seq(S) /\ Len(Tail(d)) = Len(d) - 1
        /\ \A i \in 1 .. Len(d) - 1 : Tail(d)[i] = d[i + 1]
    BY <1>2, HeadTailFacts
  <2>2. /\ m \in Seq(S) /\ Len(m) = Len(x) + (Len(d) - 1)
        /\ \A i \in 1 .. Len(x) + (Len(d) - 1) :
               m[i] = IF i <= Len(x) THEN x[i] ELSE Tail(d)[i - Len(x)]
    BY <2>1, ConcatProperties
  <2> HIDE DEF m
  <2>3. k \in 1 .. Len(x \o d) /\ Len(m) = Len(x \o d) - 1
    BY <1>1, <2>1, <2>2
  <2>4. ASSUME NEW i \in 1 .. Len(m)
        PROVE  m[i] = (x \o d)[IF i < k THEN i ELSE i + 1]
    <3>1. CASE i <= Len(x)
      BY <1>1, <2>1, <2>2, <3>1
    <3>2. CASE ~(i <= Len(x))
      <4>1. /\ i - Len(x) \in 1 .. Len(d) - 1 /\ (i + 1) - Len(x) = (i - Len(x)) + 1
            /\ i + 1 \in 1 .. Len(x) + Len(d) /\ ~(i + 1 <= Len(x)) /\ ~(i < k)
        BY <1>1, <2>1, <2>2, <3>2
      <4>2. m[i] = d[(i - Len(x)) + 1]
        BY <2>1, <2>2, <3>2, <4>1
      <4>3. (x \o d)[i + 1] = d[(i + 1) - Len(x)]
        BY <1>1, <4>1
      <4> QED
        BY <4>1, <4>2, <4>3
    <3> QED
      BY <3>1, <3>2
  <2> HIDE DEF k
  <2>5. InOrder(m, o)
    BY <1>1, <2>2, <2>3, <2>4, RemovalKeepsOrder
  <2> QED
    BY <2>5 DEF m
<1>3. ASSUME x # <<>>
      PROVE  /\ Head(x \o d) = Head(x) /\ Tail(x \o d) = Tail(x) \o d
             /\ InOrder(Tail(x) \o d, o)
  <2> DEFINE n == x \o d
             m == Tail(x) \o d
  <2>1. /\ Len(x) \in Nat \ {0} /\ Tail(x) \in Seq(S) /\ Len(Tail(x)) = Len(x) - 1
        /\ \A i \in 1 .. Len(x) - 1 : Tail(x)[i] = x[i + 1]
        /\ Head(x) = x[1]
    BY <1>3, HeadTailFacts
  <2>2. /\ m \in Seq(S) /\ Len(m) = (Len(x) - 1) + Len(d)
        /\ \A i \in 1 .. (Len(x) - 1) + Len(d) :
               m[i] = IF i <= Len(x) - 1 THEN Tail(x)[i] ELSE d[i - (Len(x) - 1)]
    BY <2>1, ConcatProperties
  <2>3. n \in Seq(S) /\ n # <<>>
    <3>1. Len(n) # 0
      BY <1>1, <2>1
    <3> QED
      BY <1>1, <3>1
  <2>4. /\ Head(n) = n[1] /\ Tail(n) \in Seq(S) /\ Len(Tail(n)) = Len(n) - 1
        /\ \A i \in 1 .. Len(n) - 1 : Tail(n)[i] = n[i + 1]
    BY <2>3, HeadTailFacts
  <2> HIDE DEF m
  <2>5. Head(n) = Head(x)
    BY <1>1, <2>1, <2>4
  <2>6. Len(m) = Len(Tail(n)) /\ Len(m) = Len(n) - 1
    BY <1>1, <2>1, <2>2, <2>4
  <2>7. ASSUME NEW i \in 1 .. Len(m) PROVE m[i] = n[i + 1]
    <3>1. i \in Nat /\ i + 1 \in 1 .. Len(x) + Len(d) /\ i \in 1 .. (Len(x) - 1) + Len(d)
      BY <1>1, <2>1, <2>2
    <3>2. CASE i <= Len(x) - 1
      BY <1>1, <2>1, <2>2, <3>1, <3>2
    <3>3. CASE ~(i <= Len(x) - 1)
      <4>1. ~(i + 1 <= Len(x)) /\ i - (Len(x) - 1) = (i + 1) - Len(x)
        BY <1>1, <2>1, <3>1, <3>3
      <4> QED
        BY <1>1, <2>2, <3>1, <3>3, <4>1
    <3> QED
      BY <3>2, <3>3
  <2>8. Tail(n) = m
    <3>1. Len(m) = Len(Tail(n)) /\ \A i \in 1 .. Len(m) : m[i] = Tail(n)[i]
      BY <2>4, <2>6, <2>7
    <3> QED
      BY <2>2, <2>4, <3>1, SeqEqual
  <2>9. \A i \in 1 .. Len(m) : m[i] = n[IF i < 1 THEN i ELSE i + 1]
    <3>1. \A i \in 1 .. Len(m) : ~(i < 1)
      BY <2>2, LenProperties
    <3> QED
      BY <2>7, <3>1
  <2>10. 1 \in 1 .. Len(n)
    BY <1>1, <2>1
  <2> HIDE DEF n
  <2>11. InOrder(n, o)
    BY DEF n
  <2>12. InOrder(m, o)
    BY <2>2, <2>3, <2>6, <2>9, <2>10, <2>11, RemovalKeepsOrder
  <2> QED
    BY <2>5, <2>8, <2>12 DEF m, n
<1>4. ASSUME d # <<>> PROVE InOrder(Append(x, Head(d)) \o Tail(d), o)
  <2>1. Head(d) \in S /\ Tail(d) \in Seq(S) /\ d = <<Head(d)>> \o Tail(d)
    BY <1>4, HeadTailFacts, HeadTailAppend, ConcatFacts
  <2>2. Append(x, Head(d)) = x \o <<Head(d)>>
    BY <2>1, AppendIsConcat
  <2>3. <<Head(d)>> \in Seq(S)
    BY <2>1
  <2>4. (x \o <<Head(d)>>) \o Tail(d) = x \o (<<Head(d)>> \o Tail(d))
    BY <2>1, <2>3, ConcatAssociative
  <2> QED
    BY <2>1, <2>2, <2>4
<1>5. ASSUME NEW e \in S PROVE x \o Append(d, e) = Append(x \o d, e)
  <2>1. Append(d, e) = d \o <<e>> /\ <<e>> \in Seq(S)
    BY AppendIsConcat
  <2>2. Append(x \o d, e) = (x \o d) \o <<e>>
    BY <1>1, AppendIsConcat
  <2>3. (x \o d) \o <<e>> = x \o (d \o <<e>>)
    BY <2>1, ConcatAssociative
  <2> QED
    BY <2>1, <2>2, <2>3
<1> QED
  BY <1>2, <1>3, <1>4, <1>5

LEMMA FifoInit == Init => FifoOrder
<1> SUFFICES ASSUME Init, NEW p \in Path PROVE InOrder(InFlight(p), outstanding[p])
  BY DEF FifoOrder
<1>1. InFlight(p) = <<>> \o <<>>
  BY DEF Init, InFlight
<1>2. Len(<<>> \o <<>>) = 0
  OBVIOUS
<1> QED
  BY <1>1, <1>2 DEF InOrder

\* Every step keeps the paths in order, if a timer fires only over an empty path.
LEMMA FifoInductive == SafeRto /\ IInv /\ FifoOrder /\ [Next]_vars => FifoOrder'
<1> SUFFICES ASSUME SafeRto, IInv, FifoOrder, [Next]_vars PROVE FifoOrder'
  OBVIOUS
<1>1. /\ outstanding \in [Path -> Seq(Entry)]
      /\ data \in [Path -> Seq(Entry)] /\ acks \in [Path -> Seq(Entry)]
  BY DEF IInv, TypeOK
<1>2. \A p \in Path : InOrder(acks[p] \o data[p], outstanding[p])
  BY DEF FifoOrder, InFlight
<1>3. ASSUME NEW p \in Path,
             \A q \in Path \ {p} : /\ outstanding'[q] = outstanding[q]
                                   /\ data'[q] = data[q] /\ acks'[q] = acks[q],
             InOrder(acks'[p] \o data'[p], outstanding'[p])
      PROVE  FifoOrder'
  BY <1>2, <1>3 DEF FifoOrder, InFlight
<1>4. ASSUME UNCHANGED <<outstanding, data, acks>> PROVE FifoOrder'
  BY <1>2, <1>4 DEF FifoOrder, InFlight
<1>5. ASSUME NEW f \in Flow, NEW p \in Path, Send(f, p) PROVE FifoOrder'
  <2> DEFINE e == <<f, NextSegment(f)>>
  <2>1. /\ outstanding' = [outstanding EXCEPT ![p] = Append(@, e)]
        /\ data' = [data EXCEPT ![p] = Append(@, e)] /\ acks' = acks
    BY <1>5 DEF Send, AppendOutStandingDataPerPath
  <2>2. e \in Entry /\ ~Contains(outstanding[p], e)
    BY <1>5, SegmentTaken DEF Send, IsOutstanding
  <2> HIDE DEF e
  <2>3. acks[p] \o Append(data[p], e) = Append(acks[p] \o data[p], e)
    BY <1>1, <1>2, <2>2, InFlightAfter
  <2>4. acks[p] \o data[p] \in Seq(Entry) /\ outstanding[p] \in Seq(Entry)
    BY <1>1, ConcatProperties
  <2>5. InOrder(Append(acks[p] \o data[p], e), Append(outstanding[p], e))
    BY <1>2, <2>2, <2>4, AppendKeepsOrder
  <2> QED
    BY <1>1, <1>3, <2>1, <2>3, <2>5
<1>6. ASSUME NEW p \in Path, acks[p] # <<>>, acks' = [acks EXCEPT ![p] = Tail(@)],
             UNCHANGED <<outstanding, data>>
      PROVE  FifoOrder'
  <2>1. acks[p] \in Seq(Entry) /\ data[p] \in Seq(Entry)
    BY <1>1
  <2>2. InOrder(Tail(acks[p]) \o data[p], outstanding[p])
    BY <1>2, <1>6, <2>1, InFlightAfter
  <2> QED
    BY <1>1, <1>3, <1>6, <2>2
<1>7. ASSUME NEW p \in Path, data[p] # <<>>, data' = [data EXCEPT ![p] = Tail(@)],
             UNCHANGED <<outstanding, acks>>
      PROVE  FifoOrder'
  <2>1. acks[p] \in Seq(Entry) /\ data[p] \in Seq(Entry)
    BY <1>1
  <2>2. InOrder(acks[p] \o Tail(data[p]), outstanding[p])
    BY <1>2, <1>7, <2>1, InFlightAfter
  <2> QED
    BY <1>1, <1>3, <1>7, <2>2
<1>8. ASSUME NEW p \in Path, ReceiveUdp(p) PROVE FifoOrder'
  <2> DEFINE h == Head(data[p])
  <2>1. /\ data[p] # <<>> /\ data' = [data EXCEPT ![p] = Tail(@)] /\ outstanding' = outstanding
    BY <1>8 DEF ReceiveUdp, pathVars
  <2>2. CASE finished[h[1]]
    <3>1. acks' = acks
      BY <1>8, <2>2 DEF ReceiveUdp
    <3> QED
      BY <1>7, <2>1, <3>1
  <2>3. CASE ~finished[h[1]]
    <3>1. acks' = [acks EXCEPT ![p] = @ \o <<<<h[1], h[2]>>>>]
      BY <1>8, <2>3 DEF ReceiveUdp, AnswerTo
    <3>2. acks[p] \in Seq(Entry) /\ data[p] \in Seq(Entry)
      BY <1>1
    <3>3. h \in Entry
      BY <2>1, <3>2, HeadTailFacts
    <3>4. h = <<h[1], h[2]>>
      BY <3>3, EntryFacts
    <3> HIDE DEF h
    <3>5. Append(acks[p], h) = acks[p] \o <<h>>
      BY <3>2, <3>3, AppendIsConcat
    <3>6. acks'[p] = Append(acks[p], h)
      BY <1>1, <3>1, <3>4, <3>5
    <3>7. InOrder(Append(acks[p], h) \o Tail(data[p]), outstanding[p])
      BY <1>2, <2>1, <3>2, InFlightAfter DEF h
    <3>8. \A q \in Path \ {p} : acks'[q] = acks[q] /\ data'[q] = data[q]
      BY <1>1, <2>1, <3>1
    <3>9. data'[p] = Tail(data[p])
      BY <1>1, <2>1
    <3> QED
      BY <1>3, <2>1, <3>6, <3>7, <3>8, <3>9
  <2> QED
    BY <2>2, <2>3
<1>9. ASSUME NEW p \in Path, ReceiveAck(p) PROVE FifoOrder'
  <2> DEFINE h == Head(acks[p])
  <2>1. acks[p] # <<>> /\ acks' = [acks EXCEPT ![p] = Tail(@)] /\ data' = data
    BY <1>9 DEF ReceiveAck, ReceiveAckLive
  <2>2. CASE finished[h[1]]
    <3>1. outstanding' = outstanding
      BY <1>9, <2>2 DEF ReceiveAck, pathVars
    <3> QED
      BY <1>6, <2>1, <3>1
  <2>3. CASE ~finished[h[1]]
    <3>1. checkOutstandingDataAndUpdateLossyData(p, <<h[1], h[2]>>)
      BY <1>9, <2>3 DEF ReceiveAck, ReceiveAckLive
    <3>2. acks[p] \in Seq(Entry) /\ data[p] \in Seq(Entry) /\ outstanding[p] \in Seq(Entry)
      BY <1>1
    <3>3. h \in Entry
      BY <2>1, <3>2, HeadTailFacts
    <3>4. h = <<h[1], h[2]>>
      BY <3>3, EntryFacts
    <3> HIDE DEF h
    <3>5. checkOutstandingDataAndUpdateLossyData(p, h)
      BY <3>1, <3>4
    <3> DEFINE restAt(i) == SubSeq(outstanding[p], i + 1, Len(outstanding[p]))
    <3>6. PICK i \in 1 .. Len(outstanding[p]) :
            outstanding[p][i] = h /\ outstanding' = [outstanding EXCEPT ![p] = restAt(i)]
      BY <3>3, <3>5, DetectorDoes
    <3> DEFINE n == acks[p] \o data[p]
    <3>7. /\ n \in Seq(Entry) /\ InOrder(n, outstanding[p])
          /\ Head(n) = h /\ Tail(n) = Tail(acks[p]) \o data[p] /\ n # <<>>
      <4>1. Head(n) = h /\ Tail(n) = Tail(acks[p]) \o data[p]
        BY <1>2, <2>1, <3>2, InFlightAfter DEF h
      <4>2. n \in Seq(Entry) /\ Len(n) = Len(acks[p]) + Len(data[p])
        BY <3>2, ConcatProperties
      <4>3. Len(acks[p]) \in Nat \ {0} /\ Len(data[p]) \in Nat
        BY <2>1, <3>2, HeadTailFacts, LenProperties
      <4>4. n # <<>>
        BY <4>2, <4>3
      <4> QED
        BY <1>2, <4>1, <4>2, <4>4
    <3> HIDE DEF n
    <3>8. InOrder(Tail(n), restAt(i))
      BY <3>2, <3>6, <3>7, AnswerKeepsOrder
    <3> HIDE DEF restAt
    <3>9. /\ outstanding'[p] = restAt(i) /\ acks'[p] \o data'[p] = Tail(n)
          /\ \A q \in Path \ {p} : /\ outstanding'[q] = outstanding[q]
                                   /\ data'[q] = data[q] /\ acks'[q] = acks[q]
      BY <1>1, <2>1, <3>6, <3>7
    <3> QED
      BY <1>3, <3>8, <3>9
  <2> QED
    BY <2>2, <2>3
<1>10. ASSUME NEW p \in Path, HandleTimeout(p) PROVE FifoOrder'
  <2>1. /\ data[p] = <<>> /\ acks[p] = <<>> /\ data' = data /\ acks' = acks
        /\ outstanding' = [outstanding EXCEPT ![p] = <<>>]
    BY <1>10 DEF HandleTimeout, netVars
  <2>2. acks'[p] \o data'[p] = <<>> \o <<>> /\ Len(<<>> \o <<>>) = 0
    BY <2>1
  <2>3. InOrder(acks'[p] \o data'[p], outstanding'[p])
    BY <2>2 DEF InOrder
  <2> QED
    BY <1>1, <1>3, <2>1, <2>3
<1>11. ASSUME NEW p \in Path, LoseData(p) PROVE FifoOrder'
  BY <1>7, <1>11 DEF LoseData, pathVars
<1>12. ASSUME NEW p \in Path, LoseAck(p) PROVE FifoOrder'
  BY <1>6, <1>12 DEF LoseAck, pathVars
<1>13. CASE Rest \/ ReceiveOther \/ Quiet \/ UNCHANGED vars
  BY <1>4, <1>13 DEF Rest, ReceiveOther, Quiet, vars, pathVars, netVars
<1> QED
  BY <1>5, <1>8, <1>9, <1>10, <1>11, <1>12, <1>13 DEF Next

LEMMA FifoHolds == ASSUME SafeRto PROVE Spec => [](IInv /\ FifoOrder)
<1>1. IInv /\ FifoOrder /\ [Next]_vars => FifoOrder'
  BY FifoInductive
<1> QED
  BY <1>1, IInvInit, IInvInductive, FifoInit, PTL DEF Spec

\* What is in flight is outstanding.
LEMMA InFlightOutstanding ==
    ASSUME IInv, FifoOrder, NEW p \in Path, NEW e,
           Contains(acks[p], e) \/ Contains(data[p], e)
    PROVE  IsOutstanding(p, e)
<1>1. acks[p] \in Seq(Entry) /\ data[p] \in Seq(Entry)
  BY Typed DEF IInv
<1>2. Contains(acks[p] \o data[p], e)
  BY <1>1, ConcatFacts
<1>3. InOrder(acks[p] \o data[p], outstanding[p])
  BY DEF FifoOrder, InFlight
<1> DEFINE n == acks[p] \o data[p]
<1> HIDE DEF n
<1>4. PICK i \in 1 .. Len(n) : n[i] = e
  BY <1>2 DEF Contains, n
<1>5. Contains(outstanding[p], n[i])
  BY <1>3 DEF InOrder, n
<1> QED
  BY <1>4, <1>5 DEF IsOutstanding

\* When the timer outlasts what is in flight on its path, a segment is declared
\* lost, by the order of answers or by the timer, only when it is: for any
\* number of flows that share any paths, whatever the network drops.
THEOREM LossIsReal == ASSUME SafeRto PROVE Spec => []NoSpuriousLoss
<1>1. IInv /\ FifoOrder => NoSpuriousLoss
  <2> SUFFICES ASSUME IInv, FifoOrder, NEW p \in Path,
                      NEW e \in ToSet(data[p]) \cup ToSet(acks[p])
               PROVE  e \in ToSet(outstanding[p])
    BY DEF NoSpuriousLoss
  <2>1. /\ acks[p] \in Seq(Entry) /\ data[p] \in Seq(Entry) /\ outstanding[p] \in Seq(Entry)
    BY Typed DEF IInv
  <2>2. Contains(acks[p], e) \/ Contains(data[p], e)
    BY <2>1, LenProperties DEF ToSet, Contains
  <2>3. IsOutstanding(p, e)
    BY <2>2, InFlightOutstanding
  <2> QED
    BY <2>1, <2>3, LenProperties DEF IsOutstanding, ToSet, Contains
<1> QED
  BY <1>1, FifoHolds, PTL

\* With such a timer none of the sender's NS_ASSERTs fails.
THEOREM LapsAssertsHold == ASSUME SafeRto PROVE Spec => []AssertsHold
<1>1. IInv /\ FifoOrder => AssertsHold
  <2> SUFFICES ASSUME IInv, FifoOrder PROVE AssertsHold
    OBVIOUS
  <2> USE DEF IInv
  <2>1. ASSUME NEW p \in Path, acks[p] # <<>>, ~finished[Head(acks[p])[1]]
        PROVE  /\ IsOutstanding(p, Head(acks[p]))
               /\ Head(acks[p])[2] >= snd_una[Head(acks[p])[1]]
    <3> DEFINE e == Head(acks[p])
    <3>1. acks[p] \in Seq(Entry)
      BY Typed
    <3>2. e \in Entry /\ Contains(acks[p], e)
      BY <2>1, <3>1, HeadTailFacts
    <3>3. IsOutstanding(p, e)
      BY <3>2, InFlightOutstanding
    <3>4. ~IsAnswered(e)
      BY <3>2, <3>3 DEF OnePlace
    <3>5. e[1] \in Flow /\ e[2] \in Segment(e[1]) /\ e[2] \in Nat
      BY <3>2, EntryFacts
    <3> HIDE DEF e
    <3>6. ~(e[2] < snd_una[e[1]]) /\ snd_una[e[1]] \in Nat
      BY <3>4, <3>5, Typed DEF IsAnswered, Answered
    <3>7. e[2] >= snd_una[e[1]]
      BY <3>5, <3>6
    <3> QED
      BY <3>3, <3>7 DEF e
  <2>2. ASSUME NEW f \in Flow PROVE GetOnTheFly(f) >= 0
    <3>1. GetOnTheFly(f) \in Nat
      BY OnTheFlyIsOutstanding, FS_CardinalityType
    <3> QED
      BY <3>1
  <2>3. ASSUME NEW f \in Flow, MaySend(f) PROVE NextSegment(f) >= snd_una[f]
    <3>1. /\ snd_una[f] \in Nat /\ max_next_seq[f] \in Nat /\ Size[f] \in Nat
          /\ snd_una[f] <= Size[f] /\ max_next_seq[f] <= Size[f]
          /\ lossy[f] \in Seq(Nat) /\ \A s : Contains(lossy[f], s) => s \in Segment(f)
      BY Typed, EntryFacts
    <3>2. CASE lossy[f] = <<>>
      <4>1. ASSUME max_next_seq[f] < snd_una[f] PROVE FALSE
        <5> DEFINE s == max_next_seq[f]
                   e == <<f, s>>
        <5>1. s \in Segment(f) /\ s < snd_una[f]
          BY <3>1, <4>1, EntryFacts
        <5>2. e \in Entry /\ e[1] = f /\ e[2] = s
          BY <5>1, EntryFacts
        <5>3. IsAnswered(e)
          BY <5>1, <5>2 DEF IsAnswered, Answered
        <5>4. IsSent(e)
          BY <5>2, <5>3 DEF OnePlace
        <5> QED
          BY <3>1, <5>2, <5>4 DEF IsSent
      <4> QED
        BY <3>1, <3>2, <4>1 DEF NextSegment
    <3>3. CASE lossy[f] # <<>>
      <4> DEFINE s == Head(lossy[f])
                 e == <<f, s>>
      <4>1. Contains(lossy[f], s)
        BY <3>1, <3>3, HeadTailFacts
      <4>2. s \in Segment(f) /\ e \in Entry /\ e[1] = f /\ e[2] = s /\ s \in Nat
        BY <3>1, <4>1, EntryFacts
      <4>3. IsLossy(e)
        BY <4>1, <4>2 DEF IsLossy
      <4>4. ~IsAnswered(e)
        BY <4>2, <4>3 DEF OnePlace
      <4> HIDE DEF s, e
      <4>5. ~(s < snd_una[f])
        BY <4>2, <4>4 DEF IsAnswered, Answered
      <4>6. s >= snd_una[f]
        BY <3>1, <4>2, <4>5
      <4> QED
        BY <3>3, <4>6 DEF NextSegment, s
    <3> QED
      BY <3>2, <3>3
  <2>4. \A p \in Path : rto[p] => outstanding[p] # <<>>
    BY DEF TimerExact
  <2> QED
    BY <2>1, <2>2, <2>3, <2>4 DEF AssertsHold, AnswerFindsEntry
<1> QED
  BY <1>1, FifoHolds, PTL
=============================================================================
