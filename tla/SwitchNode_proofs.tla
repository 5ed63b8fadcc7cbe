-------------------------- MODULE SwitchNode_proofs --------------------------
(***************************************************************************)
(* Proofs about SwitchNode, for any ports, priorities, sizes and routes:   *)
(* the switch implements the memory management unit, whose counters say    *)
(* what is in the buffer; the buffer is not overcommitted; no wake-up is   *)
(* lost; the PFC frames tell the sender the truth.                         *)
(***************************************************************************)
EXTENDS SwitchNode, FunctionTheorems, FiniteSetTheorems, NaturalsInduction,
        TLAPS

-----------------------------------------------------------------------------
(***************************************************************************)
(* What the sums of module Totals obey: they change with one value by as   *)
(* much as that value, do not depend on how the arguments are named, and   *)
(* are monotonic.  No induction is needed: a sum is a number of bytes.     *)
(***************************************************************************)

LEMMA BytesAre ==
    ASSUME NEW S, NEW f \in [S -> Nat]
    PROVE  /\ \A a \in S : \A b \in 1 .. f[a] : <<a, b>> \in Bytes(f)
           /\ \A x \in Bytes(f) : /\ x = <<x[1], x[2]>> /\ x[1] \in S
                                  /\ x[2] \in 1 .. f[x[1]]
<1>1. DOMAIN f = S
  OBVIOUS
<1>2. ASSUME NEW a \in S, NEW b \in 1 .. f[a]
      PROVE  <<a, b>> \in Bytes(f)
  <2>1. <<a, b>> \in {a} \X (1 .. f[a])
    OBVIOUS
  <2> QED
    BY <1>1, <2>1 DEF Bytes
<1>3. ASSUME NEW x \in Bytes(f)
      PROVE  x = <<x[1], x[2]>> /\ x[1] \in S /\ x[2] \in 1 .. f[x[1]]
  <2>1. PICK a \in S : x \in {a} \X (1 .. f[a])
    BY <1>1 DEF Bytes
  <2> QED
    BY <2>1
<1> QED
  BY <1>2, <1>3

LEMMA RowSize ==
    ASSUME NEW n \in Nat
    PROVE  IsFiniteSet(1 .. n) /\ Cardinality(1 .. n) = n
<1>1. /\ IsFiniteSet(1 .. n)
      /\ Cardinality(1 .. n) = IF 1 > n THEN 0 ELSE n - 1 + 1
  BY FS_Interval
<1> QED
  BY <1>1

LEMMA TotalType ==
    ASSUME NEW S, IsFiniteSet(S), NEW f \in [S -> Nat]
    PROVE  IsFiniteSet(Bytes(f)) /\ Total(f) \in Nat
<1> DEFINE row == [a \in S |-> {a} \X (1 .. f[a])]
           rows == {{a} \X (1 .. f[a]) : a \in S}
<1>1. IsFiniteSet(rows)
  <2>1. row \in Surjection(S, rows)
    <3>1. row \in [S -> rows] /\ \A t \in rows : \E a \in S : row[a] = t
      OBVIOUS
    <3> HIDE DEF row, rows
    <3> QED
      BY <3>1, Fun_IsSurj
  <2> HIDE DEF row, rows
  <2> QED
    BY <2>1, FS_Surjection
<1>2. \A T \in rows : IsFiniteSet(T)
  <2> SUFFICES ASSUME NEW a \in S PROVE IsFiniteSet({a} \X (1 .. f[a]))
    OBVIOUS
  <2>1. IsFiniteSet({a}) /\ IsFiniteSet(1 .. f[a])
    BY FS_Singleton, RowSize
  <2> QED
    BY <2>1, FS_Product
<1>3. Bytes(f) = UNION rows
  BY DEF Bytes
<1>4. IsFiniteSet(Bytes(f))
  <2> HIDE DEF rows
  <2> QED
    BY <1>1, <1>2, <1>3, FS_UNION
<1> QED
  BY <1>4, FS_CardinalityType DEF Total

\* One value, and the sum of the others.
LEMMA TotalSplit ==
    ASSUME NEW S, IsFiniteSet(S), NEW f \in [S -> Nat], NEW a \in S
    PROVE  Total(f) = f[a] + Total([x \in S \ {a} |-> f[x]])
<1> DEFINE g == [x \in S \ {a} |-> f[x]]
           one == {a} \X (1 .. f[a])
<1>1. IsFiniteSet(S \ {a}) /\ g \in [S \ {a} -> Nat]
  BY FS_RemoveElement
<1>2. IsFiniteSet(Bytes(g)) /\ Total(g) \in Nat
  <2> HIDE DEF g
  <2> QED
    BY <1>1, TotalType
<1>3. IsFiniteSet(one) /\ Cardinality(one) = f[a]
  <2>1. /\ IsFiniteSet({a}) /\ Cardinality({a}) = 1
        /\ IsFiniteSet(1 .. f[a]) /\ Cardinality(1 .. f[a]) = f[a]
    BY FS_Singleton, RowSize
  <2>2. IsFiniteSet(one) /\ Cardinality(one) = Cardinality({a}) * Cardinality(1 .. f[a])
    BY <2>1, FS_Product
  <2>3. Cardinality(one) = 1 * f[a]
    BY <2>1, <2>2
  <2> QED
    BY <2>2, <2>3
<1>4. Bytes(f) = one \cup Bytes(g)
  <2>1. ASSUME NEW x \in Bytes(f) PROVE x \in one \cup Bytes(g)
    <3>1. x = <<x[1], x[2]>> /\ x[1] \in S /\ x[2] \in 1 .. f[x[1]]
      BY BytesAre
    <3>2. CASE x[1] = a
      BY <3>1, <3>2
    <3>3. CASE x[1] # a
      <4>1. x[1] \in S \ {a} /\ x[2] \in 1 .. g[x[1]]
        BY <3>1, <3>3
      <4> HIDE DEF g
      <4> QED
        BY <1>1, <3>1, <4>1, BytesAre
    <3> QED
      BY <3>2, <3>3
  <2>2. ASSUME NEW x \in one PROVE x \in Bytes(f)
    BY BytesAre
  <2>3. ASSUME NEW x \in Bytes(g) PROVE x \in Bytes(f)
    <3>1. x = <<x[1], x[2]>> /\ x[1] \in S \ {a} /\ x[2] \in 1 .. g[x[1]]
      <4> HIDE DEF g
      <4> QED
        BY <1>1, BytesAre
    <3>2. x[1] \in S /\ x[2] \in 1 .. f[x[1]]
      BY <3>1
    <3> HIDE DEF g
    <3> QED
      BY <3>1, <3>2, BytesAre
  <2> HIDE DEF one, g
  <2> QED
    BY <2>1, <2>2, <2>3
<1>5. one \cap Bytes(g) = {}
  <2> SUFFICES ASSUME NEW x \in Bytes(g) PROVE x \notin one
    OBVIOUS
  <2>1. x[1] \in S \ {a}
    <3> HIDE DEF g
    <3> QED
      BY <1>1, BytesAre
  <2> QED
    BY <2>1
<1> HIDE DEF one, g
<1>6. Cardinality(Bytes(f)) = f[a] + Total(g)
  <2>1. Cardinality(one \cap Bytes(g)) = 0
    BY <1>5, FS_EmptySet
  <2>2. Cardinality(one \cup Bytes(g))
            = Cardinality(one) + Cardinality(Bytes(g)) - Cardinality(one \cap Bytes(g))
    BY <1>2, <1>3, FS_Union
  <2> QED
    BY <1>2, <1>3, <1>4, <2>1, <2>2 DEF Total
<1> QED
  BY <1>6 DEF Total, g

\* The same, g being f without a.
Without(f, a, g, S) ==
    /\ IsFiniteSet(S) /\ f \in [S -> Nat] /\ a \in S
    /\ g \in [S \ {a} -> Nat] /\ \A x \in S \ {a} : g[x] = f[x]

LEMMA TotalWithout ==
    ASSUME NEW S, NEW f, NEW a, NEW g, Without(f, a, g, S)
    PROVE  Total(f) = f[a] + Total(g) /\ f[a] \in Nat
<1>1. [x \in S \ {a} |-> f[x]] = g /\ f[a] \in Nat
  BY DEF Without
<1>2. Total(f) = f[a] + Total([x \in S \ {a} |-> f[x]])
  BY TotalSplit DEF Without
<1> QED
  BY <1>1, <1>2

\* Changing one value.
LEMMA TotalChange ==
    ASSUME NEW S, IsFiniteSet(S), NEW f \in [S -> Nat], NEW g \in [S -> Nat],
           NEW a \in S, \A x \in S \ {a} : g[x] = f[x]
    PROVE  Total(g) = Total(f) - f[a] + g[a]
<1> DEFINE restf == [x \in S \ {a} |-> f[x]]
           restg == [x \in S \ {a} |-> g[x]]
<1>1. restf = restg
  OBVIOUS
<1>2. Total(f) = f[a] + Total(restf) /\ Total(g) = g[a] + Total(restg)
  BY TotalSplit
<1>3. Total(restf) \in Nat /\ f[a] \in Nat /\ g[a] \in Nat
  <2>1. IsFiniteSet(S \ {a}) /\ restf \in [S \ {a} -> Nat]
    BY FS_RemoveElement
  <2> HIDE DEF restf
  <2> QED
    BY <2>1, TotalType
<1> HIDE DEF restf, restg
<1> QED
  BY <1>1, <1>2, <1>3

LEMMA TotalAtLeast ==
    ASSUME NEW S, IsFiniteSet(S), NEW f \in [S -> Nat], NEW a \in S
    PROVE  f[a] <= Total(f)
<1> DEFINE rest == [x \in S \ {a} |-> f[x]]
<1>1. Total(f) = f[a] + Total(rest)
  BY TotalSplit
<1>2. Total(rest) \in Nat /\ f[a] \in Nat
  <2>1. IsFiniteSet(S \ {a}) /\ rest \in [S \ {a} -> Nat]
    BY FS_RemoveElement
  <2> HIDE DEF rest
  <2> QED
    BY <2>1, TotalType
<1> HIDE DEF rest
<1> QED
  BY <1>1, <1>2

LEMMA TotalMonotone ==
    ASSUME NEW S, IsFiniteSet(S), NEW f \in [S -> Nat], NEW g \in [S -> Nat],
           \A a \in S : f[a] <= g[a]
    PROVE  Total(f) <= Total(g)
<1>1. Bytes(f) \subseteq Bytes(g)
  <2> SUFFICES ASSUME NEW x \in Bytes(f) PROVE x \in Bytes(g)
    OBVIOUS
  <2>1. x = <<x[1], x[2]>> /\ x[1] \in S /\ x[2] \in 1 .. f[x[1]]
    BY BytesAre
  <2>2. f[x[1]] \in Nat /\ g[x[1]] \in Nat /\ f[x[1]] <= g[x[1]]
    BY <2>1
  <2>3. x[2] \in 1 .. g[x[1]]
    BY <2>1, <2>2
  <2> QED
    BY <2>1, <2>3, BytesAre
<1>2. IsFiniteSet(Bytes(g))
  BY TotalType
<1>3. Bytes(f) \in SUBSET Bytes(g)
  BY <1>1
<1> QED
  BY <1>2, <1>3, FS_Subset DEF Total

LEMMA TotalZero ==
    ASSUME NEW S, NEW f \in [S -> Nat], \A a \in S : f[a] = 0
    PROVE  Total(f) = 0
<1>1. Bytes(f) = {}
  <2> SUFFICES ASSUME NEW x \in Bytes(f) PROVE FALSE
    OBVIOUS
  <2>1. x[1] \in S /\ x[2] \in 1 .. f[x[1]]
    BY BytesAre
  <2>2. f[x[1]] = 0
    BY <2>1
  <2> QED
    BY <2>1, <2>2
<1> QED
  BY <1>1, FS_EmptySet DEF Total

\* The same values under other names.
LEMMA TotalRename ==
    ASSUME NEW S, IsFiniteSet(S), NEW T, NEW f \in [S -> Nat], NEW g \in [T -> Nat],
           NEW h \in Bijection(S, T), \A a \in S : g[h[a]] = f[a]
    PROVE  Total(g) = Total(f)
<1>1. /\ h \in [S -> T]
      /\ \A a, b \in S : h[a] = h[b] => a = b
      /\ \A t \in T : \E a \in S : h[a] = t
  BY DEF Bijection, Injection, Surjection, IsInjective
<1> DEFINE k == [x \in Bytes(f) |-> <<h[x[1]], x[2]>>]
<1>2. \A x \in Bytes(f) : x = <<x[1], x[2]>> /\ x[1] \in S /\ x[2] \in 1 .. f[x[1]]
  BY BytesAre
<1>3. k \in [Bytes(f) -> Bytes(g)]
  <2> SUFFICES ASSUME NEW x \in Bytes(f) PROVE <<h[x[1]], x[2]>> \in Bytes(g)
    OBVIOUS
  <2>1. h[x[1]] \in T /\ x[2] \in 1 .. g[h[x[1]]]
    BY <1>1, <1>2
  <2> QED
    BY <2>1, BytesAre
<1>4. ASSUME NEW x \in Bytes(f), NEW y \in Bytes(f), k[x] = k[y]
      PROVE  x = y
  <2>1. h[x[1]] = h[y[1]] /\ x[2] = y[2]
    BY <1>4
  <2> QED
    BY <1>1, <1>2, <2>1
<1>5. ASSUME NEW y \in Bytes(g)
      PROVE  \E x \in Bytes(f) : k[x] = y
  <2>1. y = <<y[1], y[2]>> /\ y[1] \in T /\ y[2] \in 1 .. g[y[1]]
    BY BytesAre
  <2>2. PICK a \in S : h[a] = y[1]
    BY <1>1, <2>1
  <2>3. y[2] \in 1 .. f[a]
    BY <2>1, <2>2
  <2>4. <<a, y[2]>> \in Bytes(f)
    BY <2>3, BytesAre
  <2>5. k[<<a, y[2]>>] = y
    BY <2>1, <2>2, <2>4
  <2> QED
    BY <2>4, <2>5
<1> HIDE DEF k
<1>6. k \in Bijection(Bytes(f), Bytes(g))
  BY <1>3, <1>4, <1>5, Fun_IsBij
<1>7. IsFiniteSet(Bytes(f))
  BY TotalType
<1>8. ExistsBijection(Bytes(f), Bytes(g))
  BY <1>6 DEF ExistsBijection
<1> QED
  BY <1>7, <1>8, FS_Bijection DEF Total

\* A share of c for each, and something more.
LEMMA TotalShare ==
    ASSUME NEW S, IsFiniteSet(S), NEW f \in [S -> Nat], NEW g \in [S -> Nat],
           NEW c \in Nat, \A a \in S : g[a] = c + f[a]
    PROVE  Total(g) = Cardinality(S) * c + Total(f)
<1> DEFINE share == S \X (1 .. c)
           more == Bytes(g) \ share
<1>1. IsFiniteSet(share) /\ Cardinality(share) = Cardinality(S) * c
  <2>1. IsFiniteSet(1 .. c) /\ Cardinality(1 .. c) = c
    BY RowSize
  <2>2. IsFiniteSet(share) /\ Cardinality(share) = Cardinality(S) * Cardinality(1 .. c)
    BY <2>1, FS_Product
  <2> QED
    BY <2>1, <2>2
<1>2. \A x \in Bytes(g) : x = <<x[1], x[2]>> /\ x[1] \in S /\ x[2] \in 1 .. g[x[1]]
  BY BytesAre
<1>3. \A x \in Bytes(f) : x = <<x[1], x[2]>> /\ x[1] \in S /\ x[2] \in 1 .. f[x[1]]
  BY BytesAre
<1>4. share \subseteq Bytes(g)
  <2> SUFFICES ASSUME NEW a \in S, NEW b \in 1 .. c PROVE <<a, b>> \in Bytes(g)
    OBVIOUS
  <2>1. f[a] \in Nat /\ g[a] = c + f[a]
    OBVIOUS
  <2>2. b \in 1 .. g[a]
    BY <2>1
  <2> QED
    BY <2>2, BytesAre
<1> DEFINE up == [x \in Bytes(f) |-> <<x[1], x[2] + c>>]
<1>5. up \in [Bytes(f) -> more]
  <2> SUFFICES ASSUME NEW x \in Bytes(f) PROVE <<x[1], x[2] + c>> \in more
    OBVIOUS
  <2>1. x[1] \in S /\ x[2] \in 1 .. f[x[1]] /\ f[x[1]] \in Nat /\ g[x[1]] = c + f[x[1]]
    BY <1>3
  <2>2. x[2] + c \in 1 .. g[x[1]] /\ x[2] + c \notin 1 .. c
    BY <2>1
  <2>3. <<x[1], x[2] + c>> \in Bytes(g)
    BY <2>1, <2>2, BytesAre
  <2> QED
    BY <2>2, <2>3
<1>6. ASSUME NEW x \in Bytes(f), NEW y \in Bytes(f), up[x] = up[y]
      PROVE  x = y
  <2>1. x[1] = y[1] /\ x[2] + c = y[2] + c
    BY <1>6
  <2>2. x[2] \in Int /\ y[2] \in Int
    BY <1>3
  <2>3. x[2] = y[2]
    BY <2>1, <2>2
  <2> QED
    BY <1>3, <2>1, <2>3
<1>7. ASSUME NEW y \in more
      PROVE  \E x \in Bytes(f) : up[x] = y
  <2>1. /\ y = <<y[1], y[2]>> /\ y[1] \in S /\ y[2] \in 1 .. g[y[1]]
        /\ g[y[1]] = c + f[y[1]] /\ f[y[1]] \in Nat
    BY <1>2
  <2>2. y[2] \notin 1 .. c
    BY <2>1
  <2>3. y[2] - c \in 1 .. f[y[1]] /\ y[2] - c + c = y[2]
    BY <2>1, <2>2
  <2>4. <<y[1], y[2] - c>> \in Bytes(f)
    BY <2>1, <2>3, BytesAre
  <2>5. up[<<y[1], y[2] - c>>] = y
    BY <2>1, <2>3, <2>4
  <2> QED
    BY <2>4, <2>5
<1>8. IsFiniteSet(Bytes(f)) /\ IsFiniteSet(Bytes(g)) /\ Total(f) \in Nat /\ Total(g) \in Nat
  BY TotalType
<1> HIDE DEF up
<1>9. IsFiniteSet(more) /\ Cardinality(more) = Total(f)
  <2> HIDE DEF more
  <2>1. up \in Bijection(Bytes(f), more)
    BY <1>5, <1>6, <1>7, Fun_IsBij
  <2>2. ExistsBijection(Bytes(f), more)
    BY <2>1 DEF ExistsBijection
  <2> QED
    BY <1>8, <2>2, FS_Bijection DEF Total
<1> HIDE DEF share
<1>10. Cardinality(more) = Total(g) - Cardinality(share)
  <2>1. Bytes(g) \cap share = share
    BY <1>4
  <2>2. Cardinality(Bytes(g) \ share)
            = Cardinality(Bytes(g)) - Cardinality(Bytes(g) \cap share)
    BY <1>8, FS_Difference
  <2> QED
    BY <2>1, <2>2 DEF Total
<1> HIDE DEF more
<1>11. Cardinality(share) \in Nat
  BY <1>1, FS_CardinalityType
<1> QED
  BY <1>1, <1>8, <1>9, <1>10, <1>11

\* At most c for each.
LEMMA TotalBounded ==
    ASSUME NEW S, IsFiniteSet(S), NEW f \in [S -> Nat], NEW c \in Nat,
           \A a \in S : f[a] <= c
    PROVE  Total(f) <= Cardinality(S) * c
<1>1. Bytes(f) \subseteq S \X (1 .. c)
  <2> SUFFICES ASSUME NEW x \in Bytes(f) PROVE x \in S \X (1 .. c)
    OBVIOUS
  <2>1. x = <<x[1], x[2]>> /\ x[1] \in S /\ x[2] \in 1 .. f[x[1]]
    BY BytesAre
  <2>2. f[x[1]] \in Nat /\ f[x[1]] <= c
    BY <2>1
  <2>3. x[2] \in 1 .. c
    BY <2>1, <2>2
  <2> QED
    BY <2>1, <2>3
<1>2. IsFiniteSet(1 .. c) /\ Cardinality(1 .. c) = c
  BY RowSize
<1>3. /\ IsFiniteSet(S \X (1 .. c))
      /\ Cardinality(S \X (1 .. c)) = Cardinality(S) * Cardinality(1 .. c)
  BY <1>2, FS_Product
<1>4. Cardinality(Bytes(f)) <= Cardinality(S \X (1 .. c))
  BY <1>1, <1>3, FS_Subset
<1> QED
  BY <1>2, <1>3, <1>4 DEF Total

-----------------------------------------------------------------------------
(* The switch.                                                             *)

\* The lemmas about the memory management unit.
MmuP == INSTANCE SwitchMmu_proofs

Packets == [in : Port, size : PSize]

LEMMA SwitchConstants ==
    /\ IsFiniteSet(Port) /\ Port # {} /\ IsFiniteSet(Queue)
    /\ qCnt \in Nat \ {0} /\ Queue \subseteq 1 .. (qCnt - 1)
    /\ Queue \subseteq QIndex /\ 0 \in QIndex /\ 0 \notin Queue /\ QIndex \subseteq Nat
    /\ PausePort \subseteq Port
    /\ PSize \subseteq Nat \ {0}
<1>1. Mmu!MmuAssumption
  BY SwitchAssumption
<1>2. PSize \subseteq Nat \ {0}
  BY <1>1 DEF Mmu!MmuAssumption
<1>3. qCnt \in Nat \ {0} /\ Queue \subseteq 1 .. (qCnt - 1)
  BY SwitchAssumption
<1>4. Queue \subseteq QIndex /\ 0 \in QIndex /\ 0 \notin Queue /\ QIndex \subseteq Nat
  BY <1>3 DEF QIndex
<1> QED
  BY <1>2, <1>3, <1>4, SwitchAssumption

-----------------------------------------------------------------------------
(* The bytes of a sequence of packets that came in at a port. *)

LEMMA BytesFromType ==
    ASSUME NEW i \in Port, NEW w \in Seq(Packets)
    PROVE  LET S == {m \in DOMAIN w : w[m].in = i}
           IN  /\ IsFiniteSet(S) /\ [n \in S |-> w[n].size] \in [S -> Nat]
               /\ BytesFrom(i, w) \in Nat
<1> DEFINE S == {m \in DOMAIN w : w[m].in = i}
           f == [n \in S |-> w[n].size]
<1>1. IsFiniteSet(S)
  <2>1. S \in SUBSET (1 .. Len(w)) /\ Len(w) \in Nat
    OBVIOUS
  <2>2. IsFiniteSet(1 .. Len(w))
    BY <2>1, RowSize
  <2> QED
    BY <2>1, <2>2, FS_Subset
<1>2. f \in [S -> Nat]
  <2>1. \A n \in S : w[n] \in Packets
    OBVIOUS
  <2>2. \A x \in Packets : x.size \in Nat
    BY SwitchConstants DEF Packets
  <2> QED
    BY <2>1, <2>2
<1>3. Total(f) \in Nat
  <2> HIDE DEF S, f
  <2> QED
    BY <1>1, <1>2, TotalType
<1> QED
  BY <1>1, <1>2, <1>3 DEF BytesFrom

LEMMA BytesFromEmpty ==
    ASSUME NEW i \in Port
    PROVE  BytesFrom(i, <<>>) = 0
<1> DEFINE S == {m \in DOMAIN <<>> : <<>>[m].in = i}
           f == [n \in S |-> <<>>[n].size]
<1>1. S = {}
  OBVIOUS
<1>2. f \in [S -> Nat] /\ \A a \in S : f[a] = 0
  BY <1>1
<1>3. Total(f) = 0
  <2> HIDE DEF S, f
  <2> QED
    BY <1>2, TotalZero
<1> QED
  BY <1>3 DEF BytesFrom

LEMMA BytesFromAppend ==
    ASSUME NEW i \in Port, NEW w \in Seq(Packets), NEW x \in Packets
    PROVE  BytesFrom(i, Append(w, x))
               = BytesFrom(i, w) + IF x.in = i THEN x.size ELSE 0
<1> DEFINE v == Append(w, x)
           last == Len(w) + 1
           S == {m \in DOMAIN w : w[m].in = i}
           T == {m \in DOMAIN v : v[m].in = i}
           f == [n \in S |-> w[n].size]
           g == [n \in T |-> v[n].size]
<1>1. /\ v \in Seq(Packets) /\ last \in DOMAIN v /\ v[last] = x
      /\ DOMAIN v = DOMAIN w \cup {last} /\ last \notin DOMAIN w
      /\ \A n \in DOMAIN w : v[n] = w[n]
  OBVIOUS
<1>2. IsFiniteSet(T) /\ g \in [T -> Nat]
  BY <1>1, BytesFromType
<1>3. BytesFrom(i, w) = Total(f) /\ BytesFrom(i, v) = Total(g)
  BY DEF BytesFrom
<1>4. BytesFrom(i, w) \in Nat
  BY BytesFromType
<1> HIDE DEF v
<1>5. CASE x.in = i
  <2>1. last \in T /\ g[last] = x.size /\ T \ {last} = S
    BY <1>1, <1>5
  <2>2. f \in [T \ {last} -> Nat] /\ \A n \in T \ {last} : f[n] = g[n]
    <3>1. f \in [S -> Nat]
      BY BytesFromType
    <3>2. \A n \in S : f[n] = g[n]
      BY <1>1, <2>1
    <3> HIDE DEF S, T, f, g
    <3> QED
      BY <2>1, <3>1, <3>2
  <2>3. Total(g) = g[last] + Total(f) /\ g[last] \in Nat
    <3>1. last \in T
      BY <2>1
    <3> HIDE DEF S, T, f, g, last
    <3>2. Without(g, last, f, T)
      BY <1>2, <2>2, <3>1 DEF Without
    <3> QED
      BY <3>2, TotalWithout
  <2> HIDE DEF S, T, f, g
  <2>5. BytesFrom(i, v) = x.size + BytesFrom(i, w) /\ x.size \in Nat
    BY <1>3, <2>1, <2>3
  <2> QED
    BY <1>4, <1>5, <2>5 DEF v
<1>6. CASE x.in # i
  <2>1. T = S
    BY <1>1, <1>6
  <2>2. g = f
    BY <1>1, <2>1
  <2>3. BytesFrom(i, v) = BytesFrom(i, w)
    BY <1>3, <2>2
  <2> QED
    BY <1>4, <1>6, <2>3 DEF v
<1> QED
  BY <1>5, <1>6

LEMMA BytesFromTail ==
    ASSUME NEW i \in Port, NEW w \in Seq(Packets), w # <<>>
    PROVE  /\ Head(w) \in Packets /\ Tail(w) \in Seq(Packets)
           /\ BytesFrom(i, w)
                  = BytesFrom(i, Tail(w)) + IF Head(w).in = i THEN Head(w).size ELSE 0
<1> DEFINE v == Tail(w)
           S == {m \in DOMAIN w : w[m].in = i}
           T == {m \in DOMAIN v : v[m].in = i}
           f == [n \in S |-> w[n].size]
           g == [n \in T |-> v[n].size]
           rest == S \ {1}
           frest == [n \in rest |-> f[n]]
           h == [n \in T |-> n + 1]
<1>1. /\ v \in Seq(Packets) /\ Head(w) \in Packets /\ Head(w) = w[1]
      /\ DOMAIN v = 1 .. (Len(w) - 1) /\ DOMAIN w = 1 .. Len(w) /\ 1 \in DOMAIN w
      /\ Len(w) \in Nat /\ \A n \in DOMAIN v : v[n] = w[n + 1]
  OBVIOUS
<1>2. IsFiniteSet(T) /\ g \in [T -> Nat] /\ BytesFrom(i, v) \in Nat
  BY <1>1, BytesFromType
<1>3. IsFiniteSet(S) /\ f \in [S -> Nat]
  BY BytesFromType
<1>4. BytesFrom(i, w) = Total(f) /\ BytesFrom(i, v) = Total(g)
  BY DEF BytesFrom
<1> HIDE DEF v
<1>5. frest \in [rest -> Nat]
  <2>1. \A n \in rest : f[n] \in Nat
    BY <1>3
  <2> QED
    BY <2>1
<1>6. h \in Bijection(T, rest)
  <2>1. h \in [T -> rest]
    <3> SUFFICES ASSUME NEW n \in T PROVE n + 1 \in rest
      OBVIOUS
    <3>1. n \in 1 .. (Len(w) - 1) /\ w[n + 1].in = i
      BY <1>1
    <3>2. n + 1 \in 1 .. Len(w) /\ n + 1 # 1
      BY <1>1, <3>1
    <3> QED
      BY <1>1, <3>1, <3>2
  <2>2. \A a, b \in T : h[a] = h[b] => a = b
    <3> SUFFICES ASSUME NEW a \in T, NEW b \in T, a + 1 = b + 1 PROVE a = b
      OBVIOUS
    <3>1. a \in Int /\ b \in Int
      BY <1>1
    <3> QED
      BY <3>1
  <2>3. \A n \in rest : \E a \in T : h[a] = n
    <3> SUFFICES ASSUME NEW n \in rest PROVE \E a \in T : a + 1 = n
      OBVIOUS
    <3>1. n \in 1 .. Len(w) /\ n # 1 /\ w[n].in = i
      BY <1>1
    <3>2. n - 1 \in 1 .. (Len(w) - 1) /\ n - 1 + 1 = n
      BY <1>1, <3>1
    <3>3. n - 1 \in T
      BY <1>1, <3>1, <3>2
    <3> QED
      BY <3>2, <3>3
  <2> HIDE DEF h, T, rest
  <2> QED
    BY <2>1, <2>2, <2>3, Fun_IsBij
<1>7. \A n \in T : frest[h[n]] = g[n]
  <2> SUFFICES ASSUME NEW n \in T PROVE frest[n + 1] = g[n]
    OBVIOUS
  <2>1. n + 1 \in rest
    <3>1. n \in 1 .. (Len(w) - 1) /\ w[n + 1].in = i
      BY <1>1
    <3>2. n + 1 \in 1 .. Len(w) /\ n + 1 # 1
      BY <1>1, <3>1
    <3> QED
      BY <1>1, <3>1, <3>2
  <2> QED
    BY <1>1, <2>1
<1>8. Total(frest) = Total(g)
  <2> HIDE DEF T, rest, g, frest, h
  <2> QED
    BY <1>2, <1>5, <1>6, <1>7, TotalRename
<1>9. CASE Head(w).in = i
  <2>1. 1 \in S /\ f[1] = Head(w).size
    BY <1>1, <1>9
  <2>2. Total(f) = f[1] + Total(frest) /\ f[1] \in Nat
    <3>1. 1 \in S
      BY <2>1
    <3>2. rest = S \ {1} /\ \A n \in rest : frest[n] = f[n]
      OBVIOUS
    <3> HIDE DEF S, f, frest, rest
    <3>3. frest \in [S \ {1} -> Nat] /\ \A n \in S \ {1} : frest[n] = f[n]
      BY <1>5, <3>2
    <3>4. Without(f, 1, frest, S)
      BY <1>3, <3>1, <3>3 DEF Without
    <3> QED
      BY <3>4, TotalWithout
  <2> HIDE DEF S, f, frest, g
  <2>3. BytesFrom(i, w) = Head(w).size + BytesFrom(i, v) /\ Head(w).size \in Nat
    BY <1>4, <1>8, <2>1, <2>2
  <2> QED
    BY <1>1, <1>2, <1>9, <2>3 DEF v
<1>10. CASE Head(w).in # i
  <2>1. rest = S
    BY <1>1, <1>10
  <2>2. frest = f
    BY <2>1
  <2>3. BytesFrom(i, w) = BytesFrom(i, v)
    BY <1>4, <1>8, <2>2
  <2> QED
    BY <1>1, <1>2, <1>10, <2>3 DEF v
<1> QED
  BY <1>9, <1>10

-----------------------------------------------------------------------------
(* The queues of one priority, w[o] at each port o: their bytes per input    *)
(* port and per output port.                                                *)

CameIn(j, w) == Total([o \in Port |-> BytesFrom(j, w[o])])
GoesOut(v) == Total([j \in Port |-> BytesFrom(j, v)])

LEMMA CameInType ==
    ASSUME NEW j \in Port, NEW w \in [Port -> Seq(Packets)]
    PROVE  /\ [o \in Port |-> BytesFrom(j, w[o])] \in [Port -> Nat]
           /\ CameIn(j, w) \in Nat
           /\ \A o \in Port : BytesFrom(j, w[o]) <= CameIn(j, w)
<1> DEFINE f == [o \in Port |-> BytesFrom(j, w[o])]
<1>1. f \in [Port -> Nat]
  BY BytesFromType
<1>2. \A o \in Port : f[o] = BytesFrom(j, w[o])
  OBVIOUS
<1> HIDE DEF f
<1>3. Total(f) \in Nat /\ \A o \in Port : f[o] <= Total(f)
  BY <1>1, SwitchConstants, TotalType, TotalAtLeast
<1> QED
  BY <1>1, <1>2, <1>3 DEF CameIn, f

LEMMA GoesOutType ==
    ASSUME NEW v \in Seq(Packets)
    PROVE  /\ [j \in Port |-> BytesFrom(j, v)] \in [Port -> Nat]
           /\ GoesOut(v) \in Nat
           /\ \A j \in Port : BytesFrom(j, v) <= GoesOut(v)
<1> DEFINE f == [j \in Port |-> BytesFrom(j, v)]
<1>1. f \in [Port -> Nat]
  BY BytesFromType
<1>2. \A j \in Port : f[j] = BytesFrom(j, v)
  OBVIOUS
<1> HIDE DEF f
<1>3. Total(f) \in Nat /\ \A j \in Port : f[j] <= Total(f)
  BY <1>1, SwitchConstants, TotalType, TotalAtLeast
<1> QED
  BY <1>1, <1>2, <1>3 DEF GoesOut, f

LEMMA PortTotal ==
    ASSUME NEW f \in [Port -> Nat], NEW g \in [Port -> Nat], NEW o \in Port, NEW d \in Int,
           \A a \in Port \ {o} : g[a] = f[a], g[o] = f[o] + d
    PROVE  Total(g) = Total(f) + d
<1>1. IsFiniteSet(Port)
  BY SwitchConstants
<1>2. Total(g) = Total(f) - f[o] + g[o]
  BY <1>1, TotalChange
<1>3. Total(f) \in Nat /\ f[o] \in Nat
  BY <1>1, TotalType
<1> QED
  BY <1>2, <1>3

\* d bytes of port i enter (or, if negative, leave) the queue of port o.
Moved(w, v, i, o, d) ==
    /\ w \in [Port -> Seq(Packets)] /\ v \in [Port -> Seq(Packets)]
    /\ \A a \in Port \ {o} : v[a] = w[a]
    /\ \A j \in Port \ {i} : BytesFrom(j, v[o]) = BytesFrom(j, w[o])
    /\ BytesFrom(i, v[o]) = BytesFrom(i, w[o]) + d

\* Then so much more came in at i and goes out at o, and nothing else changes.
LEMMA ColumnMoves ==
    ASSUME NEW i \in Port, NEW o \in Port, NEW d \in Int, NEW w, NEW v,
           Moved(w, v, i, o, d)
    PROVE  /\ \A j \in Port \ {i} : CameIn(j, v) = CameIn(j, w)
           /\ CameIn(i, v) = CameIn(i, w) + d
           /\ GoesOut(v[o]) = GoesOut(w[o]) + d
<1>1. ASSUME NEW j \in Port \ {i}
      PROVE  CameIn(j, v) = CameIn(j, w)
  <2>1. \A a \in Port : BytesFrom(j, v[a]) = BytesFrom(j, w[a])
    BY DEF Moved
  <2>2. [a \in Port |-> BytesFrom(j, v[a])] = [a \in Port |-> BytesFrom(j, w[a])]
    BY <2>1
  <2> QED
    BY <2>2 DEF CameIn
<1>2. CameIn(i, v) = CameIn(i, w) + d
  <2> DEFINE f == [a \in Port |-> BytesFrom(i, w[a])]
             g == [a \in Port |-> BytesFrom(i, v[a])]
  <2>1. f \in [Port -> Nat] /\ g \in [Port -> Nat]
    BY CameInType DEF Moved
  <2>2. \A a \in Port \ {o} : g[a] = f[a]
    BY DEF Moved
  <2>3. g[o] = f[o] + d
    BY DEF Moved
  <2>4. CameIn(i, w) = Total(f) /\ CameIn(i, v) = Total(g)
    BY DEF CameIn
  <2> HIDE DEF f, g
  <2>5. Total(g) = Total(f) + d
    BY <2>1, <2>2, <2>3, PortTotal
  <2> QED
    BY <2>4, <2>5
<1>3. GoesOut(v[o]) = GoesOut(w[o]) + d
  <2> DEFINE f == [j \in Port |-> BytesFrom(j, w[o])]
             g == [j \in Port |-> BytesFrom(j, v[o])]
  <2>1. f \in [Port -> Nat] /\ g \in [Port -> Nat]
    <3>1. w[o] \in Seq(Packets) /\ v[o] \in Seq(Packets)
      BY DEF Moved
    <3> QED
      BY <3>1, GoesOutType
  <2>2. \A j \in Port \ {i} : g[j] = f[j]
    BY DEF Moved
  <2>3. g[i] = f[i] + d
    BY DEF Moved
  <2>4. GoesOut(w[o]) = Total(f) /\ GoesOut(v[o]) = Total(g)
    BY DEF GoesOut
  <2> HIDE DEF f, g
  <2>5. Total(g) = Total(f) + d
    BY <2>1, <2>2, <2>3, PortTotal
  <2> QED
    BY <2>4, <2>5
<1> QED
  BY <1>1, <1>2, <1>3

\* What goes out at one port came in somewhere.
LEMMA GoesOutCameIn ==
    ASSUME NEW w \in [Port -> Seq(Packets)], NEW ing \in [Port -> Nat],
           \A j \in Port : ing[j] = CameIn(j, w), NEW o \in Port
    PROVE  GoesOut(w[o]) <= Total(ing)
<1> DEFINE f == [j \in Port |-> BytesFrom(j, w[o])]
<1>1. f \in [Port -> Nat]
  BY GoesOutType
<1>2. \A j \in Port : f[j] <= ing[j]
  BY CameInType
<1> HIDE DEF f
<1>3. Total(f) <= Total(ing)
  BY <1>1, <1>2, SwitchConstants, TotalMonotone
<1> QED
  BY <1>3 DEF GoesOut, f

-----------------------------------------------------------------------------
(* ConfigNPort hands out no more than there is. *)

LEMMA ShareOfBuffer ==
    /\ shared_bytes \in Nat \ {0} /\ reserve \in Nat /\ buffer_size \in Nat
    /\ headroom \in [Port -> Nat] /\ Total(headroom) \in Nat
    /\ Cardinality(Port) \in Nat \ {0}
    /\ Cardinality(Port) * (reserve + shared_bytes) + Total(headroom) <= buffer_size
    /\ Cardinality(Port) * shared_bytes <= buffer_size
<1> DEFINE n == Cardinality(Port)
           rest == buffer_size - Total(headroom) - n * reserve
<1>1. Mmu!MmuAssumption
  BY SwitchAssumption
<1>2. /\ shared_bytes \in Nat \ {0} /\ reserve \in Nat /\ buffer_size \in Nat
      /\ headroom \in [Port -> Nat]
  BY <1>1, SwitchAssumption DEF Mmu!MmuAssumption
<1>3. n \in Nat \ {0}
  BY SwitchConstants, FS_CardinalityType, FS_EmptySet
<1>4. Total(headroom) \in Nat
  BY <1>2, SwitchConstants, TotalType
<1>5. shared_bytes = rest \div n
  BY SwitchAssumption DEF ConfigNPort
<1>6. n * reserve \in Nat /\ n * shared_bytes \in Nat
  BY <1>2, <1>3
<1>7. rest \in Int
  BY <1>2, <1>4, <1>6
<1> HIDE DEF n
<1>8. n * shared_bytes <= rest
  <2> HIDE DEF rest
  <2> QED
    BY <1>3, <1>5, <1>7
<1>9. n * (reserve + shared_bytes) = n * reserve + n * shared_bytes
  BY <1>2, <1>3
<1>10. /\ n * (reserve + shared_bytes) + Total(headroom) <= buffer_size
       /\ n * shared_bytes <= buffer_size
  BY <1>2, <1>4, <1>6, <1>8, <1>9
<1> QED
  BY <1>2, <1>3, <1>4, <1>10 DEF n

\* Queues within their shares fill at most the buffer.
LEMMA SharesFit ==
    ASSUME NEW ing \in [Port -> Nat],
           \A p \in Port : ing[p] <= reserve + shared_bytes + headroom[p]
    PROVE  Total(ing) \in Nat /\ Total(ing) <= buffer_size
<1> DEFINE full == [p \in Port |-> (reserve + shared_bytes) + headroom[p]]
<1>1. /\ reserve + shared_bytes \in Nat /\ headroom \in [Port -> Nat]
      /\ \A p \in Port : headroom[p] \in Nat
  BY ShareOfBuffer
<1>2. full \in [Port -> Nat] /\ \A p \in Port : full[p] = (reserve + shared_bytes) + headroom[p]
  BY <1>1
<1>3. \A p \in Port : ing[p] <= full[p]
  BY <1>2
<1> HIDE DEF full
<1>4. Total(full) = Cardinality(Port) * (reserve + shared_bytes) + Total(headroom)
  BY <1>1, <1>2, SwitchConstants, TotalShare
<1>5. /\ Total(ing) <= Total(full)
      /\ Total(ing) \in Nat /\ Total(full) \in Nat
  BY <1>2, <1>3, SwitchConstants, TotalMonotone, TotalType
<1> QED
  BY <1>4, <1>5, ShareOfBuffer

-----------------------------------------------------------------------------
(* What may wait in a queue, and the PFC frames in it. *)

LEMMA WaitingIs ==
    /\ \A q \in Queue : Waiting(q) = Packets
    /\ \A q \in QIndex : Waiting(q) \subseteq Waiting(0)
    /\ Packets \subseteq Waiting(0)
    /\ \A q \in Queue, b \in BOOLEAN :
          PfcFrame(q, b) \in Waiting(0) /\ IsPfc(PfcFrame(q, b))
    /\ \A x \in Packets : ~IsPfc(x)
    /\ \A x \in Waiting(0) : IsPfc(x) => x.pfc \in Queue /\ x.pause \in BOOLEAN
    /\ \A x \in Waiting(0) : ~IsPfc(x) => x \in Packets
    /\ \A q \in QIndex : q # 0 /\ q \notin Queue => Waiting(q) = {}
<1>1. /\ \A q \in Queue : Waiting(q) = Packets
      /\ \A q \in QIndex : Waiting(q) \subseteq Waiting(0)
      /\ Packets \subseteq Waiting(0)
      /\ \A q \in QIndex : q # 0 /\ q \notin Queue => Waiting(q) = {}
  BY SwitchConstants DEF Waiting, Packets
<1>2. \A x \in Packets : ~IsPfc(x)
  <2> SUFFICES ASSUME NEW x \in Packets PROVE ~IsPfc(x)
    OBVIOUS
  <2>1. DOMAIN x = {"in", "size"}
    BY DEF Packets
  <2> QED
    BY <2>1 DEF IsPfc
<1>3. \A x \in [pfc : Queue, pause : BOOLEAN] : IsPfc(x)
  <2> SUFFICES ASSUME NEW x \in [pfc : Queue, pause : BOOLEAN] PROVE IsPfc(x)
    OBVIOUS
  <2>1. DOMAIN x = {"pfc", "pause"}
    OBVIOUS
  <2> QED
    BY <2>1 DEF IsPfc
<1>4. ASSUME NEW q \in Queue, NEW b \in BOOLEAN
      PROVE  PfcFrame(q, b) \in [pfc : Queue, pause : BOOLEAN]
  BY DEF PfcFrame
<1>5. Waiting(0) = [pfc : Queue, pause : BOOLEAN] \cup Packets
  BY DEF Waiting, Packets
<1>6. \A x \in Waiting(0) : IsPfc(x) => x.pfc \in Queue /\ x.pause \in BOOLEAN
  <2> SUFFICES ASSUME NEW x \in Waiting(0), IsPfc(x)
               PROVE  x.pfc \in Queue /\ x.pause \in BOOLEAN
    OBVIOUS
  <2>1. x \in [pfc : Queue, pause : BOOLEAN]
    BY <1>2, <1>5
  <2> QED
    BY <2>1
<1>7. \A x \in Waiting(0) : ~IsPfc(x) => x \in Packets
  BY <1>3, <1>5
<1>8. \A q \in Queue, b \in BOOLEAN :
          PfcFrame(q, b) \in Waiting(0) /\ IsPfc(PfcFrame(q, b))
  BY <1>3, <1>4, <1>5
<1> QED
  BY <1>1, <1>2, <1>6, <1>7, <1>8

\* Frames that correspond in order and content, except perhaps at the front.
LEMMA AlternateMoves ==
    ASSUME NEW w \in Seq(Waiting(0)), NEW v \in Seq(Waiting(0)), NEW q \in Queue,
           NEW last, NEW lastv, NEW flag, Alternate(w, q, last, flag),
           NEW s \in [Frames(v, q) -> Frames(w, q)],
           \A n, m \in Frames(v, q) : n < m <=> s[n] < s[m],
           \A k \in Frames(w, q) : (\E n \in Frames(v, q) : s[n] = k)
                                       \/ (\A n \in Frames(v, q) : k <= s[n]),
           \A n \in Frames(v, q) : Said(v, lastv, n) = Said(w, last, s[n])
    PROVE  Alternate(v, q, lastv, flag)
<1>1. Frames(v, q) \subseteq Nat /\ Frames(w, q) \subseteq Nat
  BY DEF Frames
<1>2. \A n, m \in Frames(v, q) : n <= m <=> s[n] <= s[m]
  <2> SUFFICES ASSUME NEW n \in Frames(v, q), NEW m \in Frames(v, q)
               PROVE  n <= m <=> s[n] <= s[m]
    OBVIOUS
  <2>1. n \in Nat /\ m \in Nat /\ s[n] \in Nat /\ s[m] \in Nat
    BY <1>1
  <2>2. m < n <=> s[m] < s[n]
    OBVIOUS
  <2> QED
    BY <2>1, <2>2
<1>3. ASSUME NEW n \in Frames(v, q), NEW m \in Frames(v, q), n < m,
             \A k \in Frames(v, q) : k <= n \/ m <= k
      PROVE  Said(v, lastv, n) # Said(v, lastv, m)
  <2>1. s[n] < s[m]
    BY <1>3
  <2>2. ASSUME NEW k \in Frames(w, q) PROVE k <= s[n] \/ s[m] <= k
    <3>1. CASE \E j \in Frames(v, q) : s[j] = k
      <4>1. PICK j \in Frames(v, q) : s[j] = k
        BY <3>1
      <4> QED
        BY <1>2, <1>3, <4>1
    <3>2. CASE \A j \in Frames(v, q) : k <= s[j]
      BY <3>2
    <3> QED
      BY <3>1, <3>2
  <2>3. Said(w, last, s[n]) # Said(w, last, s[m])
    <3>1. s[n] \in Frames(w, q) /\ s[m] \in Frames(w, q)
      OBVIOUS
    <3> QED
      BY <2>1, <2>2, <3>1 DEF Alternate
  <2> QED
    BY <2>3
<1>4. ASSUME NEW n \in Frames(v, q), \A m \in Frames(v, q) : m <= n
      PROVE  Said(v, lastv, n) = flag
  <2>1. ASSUME NEW k \in Frames(w, q) PROVE k <= s[n]
    <3>1. CASE \E j \in Frames(v, q) : s[j] = k
      <4>1. PICK j \in Frames(v, q) : s[j] = k
        BY <3>1
      <4> QED
        BY <1>2, <1>4, <4>1
    <3>2. CASE \A j \in Frames(v, q) : k <= s[j]
      BY <3>2
    <3> QED
      BY <3>1, <3>2
  <2>2. Said(w, last, s[n]) = flag
    <3>1. s[n] \in Frames(w, q)
      OBVIOUS
    <3> QED
      BY <2>1, <3>1 DEF Alternate
  <2> QED
    BY <2>2
<1> QED
  BY <1>3, <1>4 DEF Alternate

\* A new frame for q says that the flag changed; anything else says nothing.
LEMMA AlternateAppend ==
    ASSUME NEW w \in Seq(Waiting(0)), NEW q \in Queue, NEW last \in BOOLEAN,
           NEW flag \in BOOLEAN, Alternate(w, q, last, flag), NEW x \in Waiting(0)
    PROVE  /\ x = PfcFrame(q, ~flag) => Alternate(Append(w, x), q, last, ~flag)
           /\ ~(IsPfc(x) /\ x.pfc = q) => Alternate(Append(w, x), q, last, flag)
<1> DEFINE v == Append(w, x)
           end == Len(w) + 1
<1>1. /\ v \in Seq(Waiting(0)) /\ DOMAIN w = 1 .. Len(w) /\ DOMAIN v = 1 .. end
      /\ v[end] = x /\ end \in Nat /\ Len(w) \in Nat
      /\ \A n \in DOMAIN w : v[n] = w[n] /\ n \in DOMAIN v /\ n # end
      /\ DOMAIN v = DOMAIN w \cup {end} /\ end # 0
  OBVIOUS
<1> HIDE DEF v, end
<1>2. Frames(w, q) \subseteq Nat /\ \A n \in Frames(w, q) : n < end
  <2>1. \A n \in Frames(w, q) : n = 0 \/ n \in 1 .. Len(w)
    BY <1>1 DEF Frames
  <2> QED
    BY <1>1, <2>1 DEF end
<1>3. \A n \in Frames(w, q) : Said(v, last, n) = Said(w, last, n)
  BY <1>1 DEF Frames, Said
<1>4. ASSUME x = PfcFrame(q, ~flag)
      PROVE  Alternate(v, q, last, ~flag)
  <2>1. IsPfc(x) /\ x.pfc = q /\ x.pause = ~flag
    BY <1>4, WaitingIs DEF PfcFrame
  <2>2. Frames(v, q) = Frames(w, q) \cup {end}
    BY <1>1, <2>1 DEF Frames
  <2>3. Said(v, last, end) = ~flag
    BY <1>1, <2>1 DEF Said
  <2>4. ASSUME NEW n \in Frames(v, q), NEW m \in Frames(v, q), n < m,
               \A k \in Frames(v, q) : k <= n \/ m <= k
        PROVE  Said(v, last, n) # Said(v, last, m)
    <3>1. n \in Frames(w, q)
      BY <1>1, <1>2, <2>2, <2>4
    <3>2. CASE m = end
      <4>1. \A k \in Frames(w, q) : k <= n
        <5> SUFFICES ASSUME NEW k \in Frames(w, q) PROVE k <= n
          OBVIOUS
        <5>1. k <= n \/ end <= k
          BY <2>2, <2>4, <3>2
        <5>2. k < end /\ k \in Nat /\ end \in Nat
          BY <1>1, <1>2
        <5> QED
          BY <5>1, <5>2
      <4>2. Said(w, last, n) = flag
        BY <3>1, <4>1 DEF Alternate
      <4> QED
        BY <1>3, <2>3, <3>1, <3>2, <4>2
    <3>3. CASE m \in Frames(w, q)
      <4>1. Said(w, last, n) # Said(w, last, m)
        BY <2>2, <2>4, <3>1, <3>3 DEF Alternate
      <4> QED
        BY <1>3, <3>1, <3>3, <4>1
    <3> QED
      BY <2>2, <3>2, <3>3
  <2>5. ASSUME NEW n \in Frames(v, q), \A m \in Frames(v, q) : m <= n
        PROVE  Said(v, last, n) = ~flag
    <3>1. end <= n
      BY <2>2, <2>5
    <3>2. n \notin Frames(w, q)
      <4> SUFFICES ASSUME n \in Frames(w, q) PROVE FALSE
        OBVIOUS
      <4>1. n < end /\ n \in Nat /\ end \in Nat
        BY <1>1, <1>2
      <4> QED
        BY <3>1, <4>1
    <3> QED
      BY <2>2, <2>3, <3>2
  <2> QED
    BY <2>4, <2>5 DEF Alternate
<1>5. ASSUME ~(IsPfc(x) /\ x.pfc = q)
      PROVE  Alternate(v, q, last, flag)
  <2>1. Frames(v, q) = Frames(w, q)
    <3>1. ASSUME NEW n \in Frames(v, q) PROVE n \in Frames(w, q)
      BY <1>1, <1>5 DEF Frames
    <3>2. ASSUME NEW n \in Frames(w, q) PROVE n \in Frames(v, q)
      BY <1>1 DEF Frames
    <3> QED
      BY <3>1, <3>2
  <2> QED
    BY <1>3, <2>1 DEF Alternate
<1> QED
  BY <1>4, <1>5 DEF v

\* The first entry leaves; if it is a frame for q, it is now the last one said.
LEMMA AlternateTail ==
    ASSUME NEW w \in Seq(Waiting(0)), w # <<>>, NEW q \in Queue, NEW last \in BOOLEAN,
           NEW flag \in BOOLEAN, Alternate(w, q, last, flag)
    PROVE  Alternate(Tail(w), q,
                     IF IsPfc(Head(w)) /\ Head(w).pfc = q THEN Head(w).pause ELSE last,
                     flag)
<1> DEFINE v == Tail(w)
           first == IsPfc(Head(w)) /\ Head(w).pfc = q
           lastv == IF first THEN Head(w).pause ELSE last
           s == [n \in Frames(v, q) |-> IF n = 0 /\ ~first THEN 0 ELSE n + 1]
<1>1. /\ v \in Seq(Waiting(0)) /\ Head(w) = w[1] /\ Len(w) \in Nat /\ 1 \in DOMAIN w
      /\ DOMAIN w = 1 .. Len(w) /\ DOMAIN v = 1 .. (Len(w) - 1)
      /\ \A n \in DOMAIN v : v[n] = w[n + 1]
  OBVIOUS
<1> HIDE DEF v
<1>2. Frames(v, q) \subseteq Nat /\ Frames(w, q) \subseteq Nat
  BY <1>1 DEF Frames
<1>3. ASSUME NEW n \in Nat \ {0}
      PROVE  n \in Frames(v, q) <=> n + 1 \in Frames(w, q)
  <2>1. n \in DOMAIN v <=> n + 1 \in DOMAIN w
    BY <1>1
  <2>2. n + 1 # 0 /\ n # 0
    OBVIOUS
  <2> QED
    BY <1>1, <2>1, <2>2 DEF Frames
<1>4. (1 \in Frames(w, q)) <=> first
  BY <1>1 DEF Frames
<1>5. 0 \in Frames(v, q) /\ 0 \in Frames(w, q)
  BY DEF Frames
<1>6. ASSUME NEW n \in Frames(v, q)
      PROVE  /\ s[n] \in Frames(w, q)
             /\ Said(v, lastv, n) = Said(w, last, s[n])
  <2>1. CASE n = 0 /\ ~first
    BY <1>5, <2>1 DEF Said
  <2>2. CASE n = 0 /\ first
    <3>1. s[n] = 1
      BY <2>2
    <3>2. Said(v, lastv, n) = Head(w).pause /\ Said(w, last, 1) = w[1].pause
      BY <2>2 DEF Said
    <3> QED
      BY <1>1, <1>4, <2>2, <3>1, <3>2
  <2>3. CASE n # 0
    <3>1. n \in Nat \ {0} /\ n \in DOMAIN v /\ s[n] = n + 1
      BY <1>2, <2>3 DEF Frames
    <3>2. n + 1 # 0
      BY <3>1
    <3>3. Said(v, lastv, n) = v[n].pause /\ Said(w, last, n + 1) = w[n + 1].pause
      BY <2>3, <3>2 DEF Said
    <3> QED
      BY <1>1, <1>3, <3>1, <3>3
  <2> QED
    BY <2>1, <2>2, <2>3
<1>7. \A n, m \in Frames(v, q) : n < m <=> s[n] < s[m]
  <2> SUFFICES ASSUME NEW n \in Frames(v, q), NEW m \in Frames(v, q)
               PROVE  n < m <=> s[n] < s[m]
    OBVIOUS
  <2>1. n \in Nat /\ m \in Nat
    BY <1>2
  <2> QED
    BY <2>1
<1>8. ASSUME NEW k \in Frames(w, q)
      PROVE  (\E n \in Frames(v, q) : s[n] = k) \/ (\A n \in Frames(v, q) : k <= s[n])
  <2>1. CASE k = 0
    <3>1. \A n \in Frames(v, q) : s[n] \in Nat
      BY <1>2, <1>6
    <3> QED
      BY <2>1, <3>1
  <2>2. CASE k = 1
    <3>1. s[0] = 1
      BY <1>4, <1>5, <2>2
    <3> QED
      BY <1>5, <2>2, <3>1
  <2>3. CASE k # 0 /\ k # 1
    <3>1. k - 1 \in Nat \ {0} /\ (k - 1) + 1 = k
      BY <1>2, <2>3
    <3>2. k - 1 \in Frames(v, q)
      BY <1>3, <3>1
    <3>3. s[k - 1] = k
      BY <3>1, <3>2
    <3> QED
      BY <3>2, <3>3
  <2> QED
    BY <2>1, <2>2, <2>3
<1>9. s \in [Frames(v, q) -> Frames(w, q)]
  <2>1. \A n \in Frames(v, q) : s[n] \in Frames(w, q)
    BY <1>6
  <2> QED
    BY <2>1
<1>10. \A n \in Frames(v, q) : Said(v, lastv, n) = Said(w, last, s[n])
  BY <1>6
<1> HIDE DEF s, lastv
<1>11. Alternate(v, q, lastv, flag)
  BY <1>1, <1>7, <1>8, <1>9, <1>10, AlternateMoves
<1> QED
  BY <1>11 DEF v, lastv

-----------------------------------------------------------------------------
(* The memory management unit, whose lemmas are about the same operators. *)

LEMMA MmuAssumed == MmuP!MmuAssumption /\ Mmu!MmuAssumption
BY SwitchAssumption DEF Mmu!MmuAssumption, MmuP!MmuAssumption

LEMMA SameInit == (Mmu!Init <=> MmuP!Init) /\ (Mmu!TypeOK <=> MmuP!TypeOK)
BY DEF Mmu!Init, MmuP!Init, Mmu!TypeOK, MmuP!TypeOK

LEMMA SameShared == ASSUME NEW b PROVE Mmu!GetSharedUsed(b) = MmuP!GetSharedUsed(b)
BY DEF Mmu!GetSharedUsed, MmuP!GetSharedUsed, Mmu!Least, MmuP!Least

LEMMA SameEnter ==
    ASSUME NEW p, NEW o, NEW q, NEW s
    PROVE  /\ Mmu!CheckIngressAdmission(p, q, s) <=> MmuP!CheckIngressAdmission(p, q, s)
           /\ Mmu!Admit(p, o, q, s) <=> MmuP!Admit(p, o, q, s)
BY DEF Mmu!CheckIngressAdmission, MmuP!CheckIngressAdmission,
   Mmu!Admit, MmuP!Admit,
   Mmu!UpdateIngressAdmission, MmuP!UpdateIngressAdmission,
   Mmu!UpdateEgressAdmission, MmuP!UpdateEgressAdmission,
   Mmu!CheckAndSendPfc, MmuP!CheckAndSendPfc,
   Mmu!CheckShouldPause, MmuP!CheckShouldPause,
   Mmu!GetSharedUsed, MmuP!GetSharedUsed, Mmu!GetPfcThreshold, MmuP!GetPfcThreshold,
   Mmu!HdrmInc, MmuP!HdrmInc, Mmu!SharedInc, MmuP!SharedInc,
   Mmu!OverThreshold, MmuP!OverThreshold, Mmu!U32, MmuP!U32, Mmu!Least, MmuP!Least

LEMMA SameRelease ==
    ASSUME NEW p, NEW o, NEW q, NEW s
    PROVE  Mmu!Release(p, o, q, s) <=> MmuP!Release(p, o, q, s)
BY DEF Mmu!Release, MmuP!Release,
   Mmu!RemoveFromIngressAdmission, MmuP!RemoveFromIngressAdmission,
   Mmu!RemoveFromEgressAdmission, MmuP!RemoveFromEgressAdmission,
   Mmu!CheckAndSendResume, MmuP!CheckAndSendResume,
   Mmu!CheckShouldResume, MmuP!CheckShouldResume,
   Mmu!GetSharedUsed, MmuP!GetSharedUsed, Mmu!GetPfcThreshold, MmuP!GetPfcThreshold,
   Mmu!FromHdrm, MmuP!FromHdrm, Mmu!FromShared, MmuP!FromShared,
   Mmu!U32, MmuP!U32, Mmu!Least, MmuP!Least

\* What the invariant of the memory management unit says of one queue.
LEMMA MmuQueue ==
    ASSUME MmuP!IInv, NEW p \in Port, NEW q \in Queue
    PROVE  /\ ingress_bytes[p][q] \in Nat
           /\ ingress_bytes[p][q] <= reserve + shared_bytes + headroom[p]
           /\ hdrm_bytes[p][q] = MmuP!Excess(ingress_bytes[p][q])
           /\ paused[p][q] \in BOOLEAN
           /\ Mmu!GetSharedUsed(ingress_bytes[p][q]) \in 0 .. shared_bytes
<1>1. /\ ingress_bytes[p][q] \in Nat
      /\ ingress_bytes[p][q] <= reserve + shared_bytes + headroom[p]
      /\ hdrm_bytes[p][q] = MmuP!Excess(ingress_bytes[p][q])
      /\ paused[p][q] \in BOOLEAN
  BY MmuAssumed, MmuP!QueueInv
<1>2. Mmu!GetSharedUsed(ingress_bytes[p][q]) \in 0 .. shared_bytes
  <2>1. shared_bytes \in Nat /\ reserve \in Nat
    BY ShareOfBuffer
  <2> QED
    BY <1>1, <2>1 DEF Mmu!GetSharedUsed, Mmu!Least
<1> QED
  BY <1>1, <1>2

\* An admission: an Enter of the unit, with no counter of the queue wrapping.
LEMMA MmuAdmits ==
    ASSUME MmuP!IInv, NEW p \in Port, NEW o \in Port, NEW q \in Queue, NEW s \in PSize,
           Mmu!CheckIngressAdmission(p, q, s), Mmu!Admit(p, o, q, s)
    PROVE  LET ing == ingress_bytes[p][q]
           IN  /\ MmuP!IInv'
               /\ ing + s <= reserve + shared_bytes + headroom[p]
               /\ ingress_bytes' = [ingress_bytes EXCEPT ![p][q] = ing + s]
               /\ egress_bytes' = [egress_bytes EXCEPT ![o][q] = Mmu!U32(@ + s)]
               /\ shared_used_bytes' = Mmu!U32(shared_used_bytes
                      + (Mmu!GetSharedUsed(ing + s) - Mmu!GetSharedUsed(ing)))
               /\ \A a \in Port, b \in Queue :
                     <<a, b>> # <<p, q>> => paused'[a][b] = paused[a][b]
               /\ paused[p][q] \in BOOLEAN /\ paused'[p][q] \in BOOLEAN
<1> DEFINE ing == ingress_bytes[p][q]
<1>1. MmuP!Enter(p, o, q, s)
  BY SameEnter DEF MmuP!Enter
<1>2. MmuP!IInv'
  BY <1>1, MmuAssumed, MmuP!EnterIInv
<1>3. /\ ing + s <= reserve + shared_bytes + headroom[p]
      /\ ingress_bytes' = [ingress_bytes EXCEPT ![p][q] = ing + s]
  BY <1>1, MmuAssumed, MmuP!EnterEffect
<1>4. ing \in Nat /\ ing <= reserve + shared_bytes + headroom[p]
  BY MmuQueue
<1>5. MmuP!SharedInc(ing, s) = MmuP!GetSharedUsed(ing + s) - MmuP!GetSharedUsed(ing)
  BY <1>3, <1>4, MmuAssumed, MmuP!SharedFollows
<1>6. shared_used_bytes' = Mmu!U32(shared_used_bytes
          + (Mmu!GetSharedUsed(ing + s) - Mmu!GetSharedUsed(ing)))
  <2>1. shared_used_bytes' = MmuP!U32(shared_used_bytes + MmuP!SharedInc(ing, s))
    BY <1>1 DEF MmuP!Enter, MmuP!Admit, MmuP!UpdateIngressAdmission
  <2> QED
    BY <1>5, <2>1, SameShared DEF Mmu!U32, MmuP!U32
<1>7. egress_bytes' = [egress_bytes EXCEPT ![o][q] = Mmu!U32(@ + s)]
  BY DEF Mmu!Admit, Mmu!UpdateEgressAdmission
<1>8. paused \in [Port -> [Queue -> BOOLEAN]] /\ paused' \in [Port -> [Queue -> BOOLEAN]]
  BY <1>2 DEF MmuP!IInv, MmuP!TypeOK
<1>9. \E b : paused' = [paused EXCEPT ![p][q] = b]
  BY DEF Mmu!Admit, Mmu!CheckAndSendPfc
<1>10. \A a \in Port, b \in Queue :
           <<a, b>> # <<p, q>> => paused'[a][b] = paused[a][b]
  BY <1>8, <1>9
<1> QED
  BY <1>2, <1>3, <1>6, <1>7, <1>8, <1>10

\* A departure of bytes that are there is a Leave of the unit.
LEMMA MmuReleases ==
    ASSUME MmuP!IInv, NEW p \in Port, NEW o \in Port, NEW q \in Queue, NEW s \in PSize,
           s <= ingress_bytes[p][q], s <= egress_bytes[o][q], Mmu!Release(p, o, q, s)
    PROVE  LET ing == ingress_bytes[p][q]
           IN  /\ MmuP!IInv'
               /\ ing - s \in Nat
               /\ ingress_bytes' = [ingress_bytes EXCEPT ![p][q] = ing - s]
               /\ egress_bytes' = [egress_bytes EXCEPT ![o][q] = Mmu!U32(@ - s)]
               /\ shared_used_bytes' = Mmu!U32(shared_used_bytes
                      - (Mmu!GetSharedUsed(ing) - Mmu!GetSharedUsed(ing - s)))
               /\ \A a \in Port, b \in Queue :
                     <<a, b>> # <<p, q>> => paused'[a][b] = paused[a][b]
               /\ paused[p][q] \in BOOLEAN /\ paused'[p][q] \in BOOLEAN
<1> DEFINE ing == ingress_bytes[p][q]
<1>1. MmuP!Leave(p, o, q, s)
  BY SameRelease DEF MmuP!Leave
<1>2. MmuP!IInv'
  BY <1>1, MmuAssumed, MmuP!LeaveIInv
<1>3. /\ ing - s \in Nat
      /\ ingress_bytes' = [ingress_bytes EXCEPT ![p][q] = ing - s]
  BY <1>1, MmuAssumed, MmuP!LeaveEffect
<1>4. /\ ing \in Nat /\ ing <= reserve + shared_bytes + headroom[p]
      /\ hdrm_bytes[p][q] = MmuP!Excess(ing)
  BY MmuQueue
<1>5. MmuP!FromShared(ing, hdrm_bytes[p][q], s)
          = MmuP!GetSharedUsed(ing) - MmuP!GetSharedUsed(ing - s)
  BY <1>4, MmuAssumed, MmuP!SharedFollows
<1>6. shared_used_bytes' = Mmu!U32(shared_used_bytes
          - (Mmu!GetSharedUsed(ing) - Mmu!GetSharedUsed(ing - s)))
  <2>1. shared_used_bytes'
          = MmuP!U32(shared_used_bytes - MmuP!FromShared(ing, hdrm_bytes[p][q], s))
    BY <1>1 DEF MmuP!Leave, MmuP!Release, MmuP!RemoveFromIngressAdmission
  <2> QED
    BY <1>5, <2>1, SameShared DEF Mmu!U32, MmuP!U32
<1>7. egress_bytes' = [egress_bytes EXCEPT ![o][q] = Mmu!U32(@ - s)]
  BY DEF Mmu!Release, Mmu!RemoveFromEgressAdmission
<1>8. paused \in [Port -> [Queue -> BOOLEAN]] /\ paused' \in [Port -> [Queue -> BOOLEAN]]
  BY <1>2 DEF MmuP!IInv, MmuP!TypeOK
<1>9. \E b : paused' = [paused EXCEPT ![p][q] = b]
  BY DEF Mmu!Release, Mmu!CheckAndSendResume
<1>10. \A a \in Port, b \in Queue :
           <<a, b>> # <<p, q>> => paused'[a][b] = paused[a][b]
  BY <1>8, <1>9
<1> QED
  BY <1>2, <1>3, <1>6, <1>7, <1>8, <1>10

-----------------------------------------------------------------------------
(* The invariant, in parts: types of the ports, the unit, the counters, the *)
(* calls of DequeueAndTransmit that are due, and the PFC frames.             *)

PortsOK ==
    /\ queue \in [Port -> [QIndex -> Seq(Waiting(0))]]
    /\ \A p \in Port, q \in QIndex : queue[p][q] \in Seq(Waiting(q))
    /\ m_rrlast \in [Port -> {0} \cup Queue]
    /\ m_paused \in [Port -> [QIndex -> BOOLEAN]]
    /\ busy \in [Port -> BOOLEAN]
    /\ todo \in Seq(Port)
    /\ told \in [Port -> [Queue -> BOOLEAN]]

\* A port that could send and does not is about to be looked at.
Awake ==
    \A o \in Port : busy[o] \/ Eligible(o) = {} \/ \E n \in DOMAIN todo : todo[n] = o

IInv ==
    /\ PortsOK
    /\ MmuP!IInv
    /\ CountersMatchBuffer
    /\ Awake
    /\ PfcFramesAlternate

LEMMA ColumnIs ==
    ASSUME NEW Q, NEW b, NEW a
    PROVE  CameIn(a, [o \in Port |-> Q[o][b]]) = Total([o \in Port |-> BytesFrom(a, Q[o][b])])
<1>1. [o \in Port |-> BytesFrom(a, [p \in Port |-> Q[p][b]][o])]
        = [o \in Port |-> BytesFrom(a, Q[o][b])]
  OBVIOUS
<1> QED
  BY <1>1 DEF CameIn

\* The counters of one queue, and the packets of one priority.
LEMMA Matched ==
    ASSUME PortsOK, CountersMatchBuffer, NEW q \in Queue
    PROVE  /\ [o \in Port |-> queue[o][q]] \in [Port -> Seq(Packets)]
           /\ \A o \in Port : queue[o][q] \in Seq(Packets)
           /\ \A i \in Port : ingress_bytes[i][q] = CameIn(i, [o \in Port |-> queue[o][q]])
           /\ \A o \in Port : egress_bytes[o][q] = GoesOut(queue[o][q])
<1>1. \A o \in Port : queue[o][q] \in Seq(Packets)
  BY SwitchConstants, WaitingIs DEF PortsOK
<1>2. \A i \in Port : ingress_bytes[i][q] = CameIn(i, [o \in Port |-> queue[o][q]])
  <2> SUFFICES ASSUME NEW i \in Port
               PROVE  ingress_bytes[i][q] = CameIn(i, [o \in Port |-> queue[o][q]])
    OBVIOUS
  <2>1. CameIn(i, [o \in Port |-> queue[o][q]])
          = Total([o \in Port |-> BytesFrom(i, queue[o][q])])
    BY ColumnIs
  <2> QED
    BY <2>1 DEF CountersMatchBuffer
<1>3. \A o \in Port : egress_bytes[o][q] = GoesOut(queue[o][q])
  BY DEF CountersMatchBuffer, GoesOut
<1> QED
  BY <1>1, <1>2, <1>3

LEMMA BufferIsWord == ASSUME NEW q \in Queue PROVE buffer_size < Word /\ Word \in Nat
<1> DEFINE c == Cardinality(Queue)
<1>1. c \in Nat \ {0}
  BY SwitchConstants, FS_CardinalityType, FS_EmptySet
<1>2. buffer_size \in Nat /\ Word \in Nat
  BY ShareOfBuffer, MmuAssumed DEF Mmu!MmuAssumption
<1>3. c * buffer_size < Word
  BY SwitchAssumption
<1> HIDE DEF c
<1>4. buffer_size <= c * buffer_size /\ c * buffer_size \in Nat
  BY <1>1, <1>2
<1> QED
  BY <1>2, <1>3, <1>4

\* The shares of all queues in the shared pool do not overflow the counter.
LEMMA SharedBounded ==
    ASSUME NEW f \in [Port \X Queue -> Nat], \A x \in Port \X Queue : f[x] <= shared_bytes
    PROVE  Total(f) \in Nat /\ Total(f) < Word
<1> DEFINE n == Cardinality(Port)
           c == Cardinality(Queue)
<1>1. n \in Nat /\ c \in Nat
  BY SwitchConstants, FS_CardinalityType
<1>2. IsFiniteSet(Port \X Queue) /\ Cardinality(Port \X Queue) = n * c
  BY SwitchConstants, FS_Product
<1>3. /\ shared_bytes \in Nat /\ buffer_size \in Nat /\ n * shared_bytes <= buffer_size
      /\ Word \in Nat /\ c * buffer_size < Word
  BY ShareOfBuffer, MmuAssumed, SwitchAssumption DEF Mmu!MmuAssumption
<1>4. Total(f) \in Nat /\ Total(f) <= Cardinality(Port \X Queue) * shared_bytes
  BY <1>2, <1>3, TotalType, TotalBounded
<1> HIDE DEF n, c
<1>5. (n * c) * shared_bytes = c * (n * shared_bytes)
  BY <1>1, <1>3
<1> DEFINE r == n * shared_bytes
<1>6. r \in Nat /\ r <= buffer_size
  BY <1>1, <1>3
<1> HIDE DEF r
<1>7. c * r <= c * buffer_size /\ c * r \in Nat /\ c * buffer_size \in Nat
  BY <1>1, <1>3, <1>6
<1> QED
  BY <1>2, <1>3, <1>4, <1>5, <1>7 DEF r

LEMMA SharedChanges ==
    ASSUME NEW f \in [Port \X Queue -> Nat], NEW g \in [Port \X Queue -> Nat],
           NEW a \in Port \X Queue, \A x \in (Port \X Queue) \ {a} : g[x] = f[x]
    PROVE  Total(g) = Total(f) - f[a] + g[a]
<1>1. IsFiniteSet(Port \X Queue)
  BY SwitchConstants, FS_Product
<1> QED
  BY <1>1, TotalChange

LEMMA WordExact ==
    ASSUME NEW x \in Nat, x < Word
    PROVE  Mmu!U32(x) = x
BY MmuAssumed DEF Mmu!U32, Mmu!MmuAssumption

(***************************************************************************)
(* d bytes of port i enter (or leave) queue q of port o, where ing are     *)
(* then left of the port's bytes, and the counters move by as much.        *)
(***************************************************************************)
BytesMove(i, o, q, d, ing) ==
    /\ ing = ingress_bytes[i][q] + d
    /\ ingress_bytes' = [ingress_bytes EXCEPT ![i][q] = ing]
    /\ egress_bytes' = [egress_bytes EXCEPT ![o][q] = Mmu!U32(egress_bytes[o][q] + d)]
    /\ shared_used_bytes' = Mmu!U32(shared_used_bytes
           + (Mmu!GetSharedUsed(ing) - Mmu!GetSharedUsed(ingress_bytes[i][q])))
    /\ \A a \in Port, b \in Queue : <<a, b>> # <<o, q>> => queue'[a][b] = queue[a][b]
    /\ \A j \in Port \ {i} : BytesFrom(j, queue'[o][q]) = BytesFrom(j, queue[o][q])
    /\ BytesFrom(i, queue'[o][q]) = BytesFrom(i, queue[o][q]) + d

\* They still match: none of them wraps.
LEMMA MatchMoves ==
    ASSUME PortsOK, PortsOK', MmuP!IInv, MmuP!IInv', CountersMatchBuffer,
           NEW i \in Port, NEW o \in Port, NEW q \in Queue, NEW d \in Int, NEW ing \in Nat,
           BytesMove(i, o, q, d, ing)
    PROVE  CountersMatchBuffer'
<1>a. /\ \A a \in Port, b \in Queue : <<a, b>> # <<o, q>> => queue'[a][b] = queue[a][b]
      /\ \A j \in Port \ {i} : BytesFrom(j, queue'[o][q]) = BytesFrom(j, queue[o][q])
      /\ BytesFrom(i, queue'[o][q]) = BytesFrom(i, queue[o][q]) + d
  BY DEF BytesMove
<1>b. /\ ing = ingress_bytes[i][q] + d
      /\ ingress_bytes' = [ingress_bytes EXCEPT ![i][q] = ing]
  BY DEF BytesMove
<1>c. egress_bytes' = [egress_bytes EXCEPT ![o][q] = Mmu!U32(egress_bytes[o][q] + d)]
  BY DEF BytesMove
<1>d. shared_used_bytes' = Mmu!U32(shared_used_bytes
          + (Mmu!GetSharedUsed(ing) - Mmu!GetSharedUsed(ingress_bytes[i][q])))
  BY DEF BytesMove
<1> DEFINE w == [a \in Port |-> queue[a][q]]
           v == [a \in Port |-> queue'[a][q]]
<1>1. /\ w \in [Port -> Seq(Packets)] /\ v \in [Port -> Seq(Packets)]
      /\ \A b \in Queue, a \in Port : queue'[a][b] \in Seq(Packets)
  <2>1. \A a \in Port, b \in Queue : /\ queue[a][b] \in Seq(Packets)
                                     /\ queue'[a][b] \in Seq(Packets)
    BY SwitchConstants, WaitingIs DEF PortsOK
  <2> QED
    BY <2>1
<1>2. /\ \A a \in Port \ {o} : v[a] = w[a]
      /\ \A a \in Port : v[a] = queue'[a][q] /\ w[a] = queue[a][q]
  BY <1>a
<1>3. /\ \A j \in Port \ {i} : CameIn(j, v) = CameIn(j, w)
      /\ CameIn(i, v) = CameIn(i, w) + d
      /\ GoesOut(v[o]) = GoesOut(w[o]) + d
  <2>1. Moved(w, v, i, o, d)
    <3>1. /\ \A j \in Port \ {i} : BytesFrom(j, v[o]) = BytesFrom(j, w[o])
          /\ BytesFrom(i, v[o]) = BytesFrom(i, w[o]) + d
      BY <1>a, <1>2
    <3>2. w \in [Port -> Seq(Packets)] /\ v \in [Port -> Seq(Packets)]
      BY <1>1
    <3> HIDE DEF w, v
    <3> QED
      BY <1>2, <3>1, <3>2 DEF Moved
  <2> HIDE DEF w, v
  <2> QED
    BY <2>1, ColumnMoves
<1>4. /\ ingress_bytes \in [Port -> [Queue -> Nat]] /\ ingress_bytes' \in [Port -> [Queue -> Nat]]
      /\ egress_bytes \in [Port -> [Queue -> Nat]]
      /\ \A a \in Port, b \in Queue :
            ingress_bytes'[a][b] <= reserve + shared_bytes + headroom[a]
  BY MmuAssumed
  DEF MmuP!IInv, MmuP!TypeOK, MmuP!IngressBound, Mmu!MmuAssumption
<1>5. ASSUME NEW j \in Port, NEW b \in Queue
      PROVE  ingress_bytes'[j][b] = Total([a \in Port |-> BytesFrom(j, queue'[a][b])])
  <2>1. ingress_bytes[j][b] = Total([a \in Port |-> BytesFrom(j, queue[a][b])])
    BY DEF CountersMatchBuffer
  <2>2. CASE b # q
    <3>1. [a \in Port |-> BytesFrom(j, queue'[a][b])] = [a \in Port |-> BytesFrom(j, queue[a][b])]
      BY <1>a, <2>2
    <3>2. ingress_bytes'[j][b] = ingress_bytes[j][b]
      BY <1>b, <1>4, <2>2
    <3> QED
      BY <2>1, <3>1, <3>2
  <2>3. CASE b = q
    <3>1. /\ Total([a \in Port |-> BytesFrom(j, queue'[a][q])]) = CameIn(j, v)
          /\ ingress_bytes[j][q] = CameIn(j, w)
      <4>1. /\ [a \in Port |-> BytesFrom(j, w[a])] = [a \in Port |-> BytesFrom(j, queue[a][q])]
            /\ [a \in Port |-> BytesFrom(j, v[a])] = [a \in Port |-> BytesFrom(j, queue'[a][q])]
        OBVIOUS
      <4> HIDE DEF w, v
      <4> QED
        BY <2>1, <2>3, <4>1 DEF CameIn
    <3>2. CASE j = i
      <4>1. ingress_bytes'[j][q] = ingress_bytes[i][q] + d
        BY <1>b, <1>4, <3>2
      <4> HIDE DEF w, v
      <4> QED
        BY <1>3, <2>3, <3>1, <3>2, <4>1
    <3>3. CASE j # i
      <4>1. ingress_bytes'[j][q] = ingress_bytes[j][q]
        BY <1>b, <1>4, <3>3
      <4> HIDE DEF w, v
      <4> QED
        BY <1>3, <2>3, <3>1, <3>3, <4>1
    <3> QED
      BY <3>2, <3>3
  <2> QED
    BY <2>2, <2>3
<1>6. ASSUME NEW a \in Port, NEW b \in Queue
      PROVE  egress_bytes'[a][b] = Total([j \in Port |-> BytesFrom(j, queue'[a][b])])
  <2>1. egress_bytes[a][b] = GoesOut(queue[a][b])
    BY DEF CountersMatchBuffer, GoesOut
  <2>2. CASE <<a, b>> # <<o, q>>
    <3>1. queue'[a][b] = queue[a][b] /\ egress_bytes'[a][b] = egress_bytes[a][b]
      BY <1>a, <1>c, <1>4, <2>2
    <3> QED
      BY <2>1, <3>1 DEF GoesOut
  <2>3. CASE a = o /\ b = q
    <3> DEFINE col == [p \in Port |-> ingress_bytes'[p][q]]
    <3>1. GoesOut(queue'[o][q]) = egress_bytes[o][q] + d
      BY <1>2, <1>3, <2>1, <2>3
    <3>2. GoesOut(queue'[o][q]) \in Nat
      BY <1>1, GoesOutType
    <3>3. GoesOut(queue'[o][q]) <= buffer_size
      <4>1. /\ col \in [Port -> Nat]
            /\ \A p \in Port : col[p] = CameIn(p, v)
            /\ \A p \in Port : col[p] <= reserve + shared_bytes + headroom[p]
        <5>1. ASSUME NEW p \in Port
              PROVE  CameIn(p, v) = Total([u \in Port |-> BytesFrom(p, queue'[u][q])])
          <6>1. [u \in Port |-> BytesFrom(p, v[u])]
                  = [u \in Port |-> BytesFrom(p, queue'[u][q])]
            OBVIOUS
          <6> HIDE DEF v
          <6> QED
            BY <6>1 DEF CameIn
        <5>2. \A p \in Port : col[p] = CameIn(p, v)
          BY <1>5, <5>1
        <5> QED
          BY <1>4, <5>2
      <4> HIDE DEF col, v
      <4>2. GoesOut(v[o]) <= Total(col)
        BY <1>1, <4>1, GoesOutCameIn
      <4>3. Total(col) <= buffer_size /\ Total(col) \in Nat
        BY <4>1, SharesFit
      <4>4. buffer_size \in Nat
        BY ShareOfBuffer
      <4> QED
        BY <1>2, <3>2, <4>2, <4>3, <4>4
    <3>4. GoesOut(queue'[o][q]) < Word
      BY <3>2, <3>3, BufferIsWord, ShareOfBuffer
    <3>5. egress_bytes'[o][q] = Mmu!U32(egress_bytes[o][q] + d)
      BY <1>c, <1>4
    <3>6. egress_bytes'[o][q] = GoesOut(queue'[o][q])
      BY <3>1, <3>2, <3>4, <3>5, WordExact
    <3> QED
      BY <2>3, <3>6 DEF GoesOut
  <2> QED
    BY <2>2, <2>3
<1>7. shared_used_bytes'
        = Total([x \in Port \X Queue |-> Mmu!GetSharedUsed(ingress_bytes'[x[1]][x[2]])])
  <2> DEFINE f == [x \in Port \X Queue |-> Mmu!GetSharedUsed(ingress_bytes[x[1]][x[2]])]
             g == [x \in Port \X Queue |-> Mmu!GetSharedUsed(ingress_bytes'[x[1]][x[2]])]
             at == <<i, q>>
  <2>1. shared_bytes \in Nat /\ reserve \in Nat
    BY ShareOfBuffer
  <2>2. \A b \in Nat : Mmu!GetSharedUsed(b) \in Nat /\ Mmu!GetSharedUsed(b) <= shared_bytes
    BY <2>1 DEF Mmu!GetSharedUsed, Mmu!Least
  <2>3. /\ f \in [Port \X Queue -> Nat] /\ g \in [Port \X Queue -> Nat]
        /\ \A x \in Port \X Queue : g[x] <= shared_bytes
    <3>1. \A x \in Port \X Queue : /\ ingress_bytes[x[1]][x[2]] \in Nat
                                   /\ ingress_bytes'[x[1]][x[2]] \in Nat
      BY <1>4
    <3> QED
      BY <2>2, <3>1
  <2>4. /\ at \in Port \X Queue
        /\ f[at] = Mmu!GetSharedUsed(ingress_bytes[i][q])
        /\ g[at] = Mmu!GetSharedUsed(ing)
    BY <1>b, <1>4
  <2>5. \A x \in (Port \X Queue) \ {at} : g[x] = f[x]
    <3> SUFFICES ASSUME NEW x \in (Port \X Queue) \ {at}
                 PROVE  ingress_bytes'[x[1]][x[2]] = ingress_bytes[x[1]][x[2]]
      OBVIOUS
    <3>1. x[1] \in Port /\ x[2] \in Queue /\ ~(x[1] = i /\ x[2] = q)
      OBVIOUS
    <3> QED
      BY <1>b, <1>4, <3>1
  <2>6. shared_used_bytes = Total(f)
    BY DEF CountersMatchBuffer
  <2> HIDE DEF f, g, at
  <2>7. Total(g) = Total(f) - f[at] + g[at]
    BY <2>3, <2>4, <2>5, SharedChanges
  <2>8. Total(g) \in Nat /\ Total(g) < Word
    BY <2>3, SharedBounded
  <2>9. Total(f) \in Nat /\ f[at] \in Nat /\ g[at] \in Nat
    <3>1. IsFiniteSet(Port \X Queue)
      BY SwitchConstants, FS_Product
    <3> QED
      BY <2>3, <2>4, <3>1, TotalType
  <2>10. shared_used_bytes' = Mmu!U32(Total(f) + (g[at] - f[at]))
    BY <1>d, <2>4, <2>6
  <2>11. Total(f) + (g[at] - f[at]) = Total(g)
    BY <2>7, <2>9
  <2>12. shared_used_bytes' = Total(g)
    BY <2>8, <2>10, <2>11, WordExact
  <2> QED
    BY <2>12 DEF g
<1> QED
  BY <1>5, <1>6, <1>7 DEF CountersMatchBuffer

-----------------------------------------------------------------------------
(* One queue changes, or two. *)

Set(a, b, x) == queue' = [queue EXCEPT ![a][b] = x]
SetBoth(a, b, x, c, d, y) == queue' = [queue EXCEPT ![a][b] = x, ![c][d] = y]

LEMMA OneQueue ==
    ASSUME PortsOK, NEW a \in Port, NEW b \in QIndex, NEW x \in Seq(Waiting(b)), Set(a, b, x)
    PROVE  /\ queue' \in [Port -> [QIndex -> Seq(Waiting(0))]]
           /\ \A p \in Port, q \in QIndex : queue'[p][q] \in Seq(Waiting(q))
           /\ queue'[a][b] = x
           /\ \A p \in Port, q \in QIndex :
                 ~(p = a /\ q = b) => queue'[p][q] = queue[p][q]
<1>1. x \in Seq(Waiting(0))
  <2>1. Waiting(b) \subseteq Waiting(0)
    BY WaitingIs
  <2> QED
    BY <2>1
<1>2. queue \in [Port -> [QIndex -> Seq(Waiting(0))]]
  BY DEF PortsOK
<1>3. /\ queue' \in [Port -> [QIndex -> Seq(Waiting(0))]]
      /\ queue'[a][b] = x
      /\ \A p \in Port, q \in QIndex : ~(p = a /\ q = b) => queue'[p][q] = queue[p][q]
  BY <1>1, <1>2 DEF Set
<1>4. \A p \in Port, q \in QIndex : queue'[p][q] \in Seq(Waiting(q))
  <2> SUFFICES ASSUME NEW p \in Port, NEW q \in QIndex
               PROVE  queue'[p][q] \in Seq(Waiting(q))
    OBVIOUS
  <2>1. queue[p][q] \in Seq(Waiting(q))
    BY DEF PortsOK
  <2>2. CASE p = a /\ q = b
    BY <1>3, <2>2
  <2>3. CASE ~(p = a /\ q = b)
    BY <1>3, <2>1, <2>3
  <2> QED
    BY <2>2, <2>3
<1> QED
  BY <1>3, <1>4

LEMMA TwoQueues ==
    ASSUME PortsOK, NEW a \in Port, NEW b \in QIndex, NEW x \in Seq(Waiting(b)),
           NEW c \in Port, NEW d \in QIndex, NEW y \in Seq(Waiting(d)), b # d,
           SetBoth(a, b, x, c, d, y)
    PROVE  /\ queue' \in [Port -> [QIndex -> Seq(Waiting(0))]]
           /\ \A p \in Port, q \in QIndex : queue'[p][q] \in Seq(Waiting(q))
           /\ queue'[a][b] = x /\ queue'[c][d] = y
           /\ \A p \in Port, q \in QIndex :
                 ~(p = a /\ q = b) /\ ~(p = c /\ q = d) => queue'[p][q] = queue[p][q]
<1>1. x \in Seq(Waiting(0)) /\ y \in Seq(Waiting(0))
  <2>1. Waiting(b) \subseteq Waiting(0) /\ Waiting(d) \subseteq Waiting(0)
    BY WaitingIs
  <2> QED
    BY <2>1
<1>2. queue \in [Port -> [QIndex -> Seq(Waiting(0))]]
  BY DEF PortsOK
<1> DEFINE mid == [queue EXCEPT ![a][b] = x]
<1>3. /\ mid \in [Port -> [QIndex -> Seq(Waiting(0))]]
      /\ mid[a][b] = x
      /\ \A p \in Port, q \in QIndex : ~(p = a /\ q = b) => mid[p][q] = queue[p][q]
  BY <1>1, <1>2
<1>4. queue' = [mid EXCEPT ![c][d] = y]
  BY <1>2 DEF SetBoth
<1> HIDE DEF mid
<1>5. /\ queue' \in [Port -> [QIndex -> Seq(Waiting(0))]]
      /\ queue'[c][d] = y
      /\ \A p \in Port, q \in QIndex : ~(p = c /\ q = d) => queue'[p][q] = mid[p][q]
  <2>1. queue' \in [Port -> [QIndex -> Seq(Waiting(0))]]
    <3>1. [mid[c] EXCEPT ![d] = y] \in [QIndex -> Seq(Waiting(0))]
      BY <1>1, <1>3
    <3>2. queue' = [mid EXCEPT ![c] = [mid[c] EXCEPT ![d] = y]]
      BY <1>4
    <3> QED
      BY <1>3, <3>1, <3>2
  <2>2. queue'[c] = [mid[c] EXCEPT ![d] = y] /\ \A p \in Port \ {c} : queue'[p] = mid[p]
    BY <1>3, <1>4
  <2>3. mid[c] \in [QIndex -> Seq(Waiting(0))]
    BY <1>3
  <2>4. /\ queue'[c][d] = y
        /\ \A q \in QIndex \ {d} : queue'[c][q] = mid[c][q]
    BY <2>2, <2>3
  <2>5. ASSUME NEW p \in Port, NEW q \in QIndex, ~(p = c /\ q = d)
        PROVE  queue'[p][q] = mid[p][q]
    BY <2>2, <2>4, <2>5
  <2> QED
    BY <2>1, <2>4, <2>5
<1>6. /\ queue'[a][b] = x
      /\ \A p \in Port, q \in QIndex :
            ~(p = a /\ q = b) /\ ~(p = c /\ q = d) => queue'[p][q] = queue[p][q]
  <2>1. queue'[a][b] = mid[a][b]
    BY <1>5
  <2>2. ASSUME NEW p \in Port, NEW q \in QIndex, ~(p = a /\ q = b), ~(p = c /\ q = d)
        PROVE  queue'[p][q] = queue[p][q]
    <3>1. queue'[p][q] = mid[p][q]
      BY <1>5, <2>2
    <3>2. mid[p][q] = queue[p][q]
      BY <1>3, <2>2
    <3> QED
      BY <3>1, <3>2
  <2> QED
    BY <1>3, <2>1, <2>2
<1>7. \A p \in Port, q \in QIndex : queue'[p][q] \in Seq(Waiting(q))
  <2> SUFFICES ASSUME NEW p \in Port, NEW q \in QIndex
               PROVE  queue'[p][q] \in Seq(Waiting(q))
    OBVIOUS
  <2>1. queue[p][q] \in Seq(Waiting(q))
    BY DEF PortsOK
  <2>2. CASE p = a /\ q = b
    BY <1>6, <2>2
  <2>3. CASE p = c /\ q = d
    BY <1>5, <2>3
  <2>4. CASE ~(p = a /\ q = b) /\ ~(p = c /\ q = d)
    BY <1>6, <2>1, <2>4
  <2> QED
    BY <2>2, <2>3, <2>4
<1> QED
  BY <1>5, <1>6, <1>7

\* Ports whose queues and pauses stay as they are may send what they could.
LEMMA SameEligible ==
    ASSUME NEW o \in Port, \A q \in QIndex : queue'[o][q] = queue[o][q],
           \A q \in QIndex : m_paused'[o][q] = m_paused[o][q]
    PROVE  Eligible(o)' = Eligible(o)
BY DEF Eligible

\* A step that leaves the unit and the data queues alone.
LEMMA SameCounters ==
    ASSUME MmuP!IInv, CountersMatchBuffer, UNCHANGED mmuVars,
           \A a \in Port, b \in Queue : queue'[a][b] = queue[a][b]
    PROVE  MmuP!IInv' /\ CountersMatchBuffer'
<1>1. UNCHANGED MmuP!mmuVars
  BY DEF mmuVars, MmuP!mmuVars
<1>2. MmuP!IInv'
  BY <1>1, MmuAssumed, MmuP!StepIInv
<1>3. /\ ingress_bytes' = ingress_bytes /\ egress_bytes' = egress_bytes
      /\ shared_used_bytes' = shared_used_bytes
  BY DEF mmuVars
<1>4. ASSUME NEW i \in Port, NEW q \in Queue
      PROVE  [o \in Port |-> BytesFrom(i, queue'[o][q])] = [o \in Port |-> BytesFrom(i, queue[o][q])]
  OBVIOUS
<1>5. ASSUME NEW o \in Port, NEW q \in Queue
      PROVE  [i \in Port |-> BytesFrom(i, queue'[o][q])] = [i \in Port |-> BytesFrom(i, queue[o][q])]
  OBVIOUS
<1>6. ASSUME NEW i \in Port, NEW q \in Queue
      PROVE  ingress_bytes'[i][q] = Total([o \in Port |-> BytesFrom(i, queue'[o][q])])
  BY <1>3, <1>4 DEF CountersMatchBuffer
<1>7. ASSUME NEW o \in Port, NEW q \in Queue
      PROVE  egress_bytes'[o][q] = Total([i \in Port |-> BytesFrom(i, queue'[o][q])])
  BY <1>3, <1>5 DEF CountersMatchBuffer
<1>8. shared_used_bytes'
        = Total([x \in Port \X Queue |-> Mmu!GetSharedUsed(ingress_bytes'[x[1]][x[2]])])
  BY <1>3 DEF CountersMatchBuffer
<1> QED
  BY <1>2, <1>6, <1>7, <1>8 DEF CountersMatchBuffer

\* SendPfc: the frame, if the flag changed, keeps the story straight.
LEMMA PfcToKeeps ==
    ASSUME PortsOK, PfcFramesAlternate, NEW i \in Port, NEW q \in Queue,
           paused[i][q] \in BOOLEAN, paused'[i][q] \in BOOLEAN,
           \A a \in Port, b \in Queue : <<a, b>> # <<i, q>> => paused'[a][b] = paused[a][b],
           \A a \in Port, b \in Queue : paused[a][b] \in BOOLEAN,
           queue'[i][0] = queue[i][0] \o PfcTo(i, q),
           \A a \in Port \ {i} : queue'[a][0] = queue[a][0],
           UNCHANGED told
    PROVE  PfcFramesAlternate'
<1> SUFFICES ASSUME NEW a \in Port, NEW b \in Queue
             PROVE  Alternate(queue'[a][0], b, told'[a][b], paused'[a][b])
  BY DEF PfcFramesAlternate
<1>1. /\ queue[a][0] \in Seq(Waiting(0)) /\ told'[a][b] = told[a][b]
      /\ told[a][b] \in BOOLEAN /\ paused[a][b] \in BOOLEAN
      /\ Alternate(queue[a][0], b, told[a][b], paused[a][b])
  BY SwitchConstants DEF PortsOK, PfcFramesAlternate
<1>2. CASE a # i
  <2>1. queue'[a][0] = queue[a][0] /\ paused'[a][b] = paused[a][b]
    BY <1>2
  <2> QED
    BY <1>1, <2>1
<1>3. CASE a = i /\ paused'[i][q] = paused[i][q]
  <2>1. PfcTo(i, q) = <<>> /\ paused'[a][b] = paused[a][b]
    BY <1>3 DEF PfcTo
  <2>2. queue'[a][0] = queue[a][0]
    BY <1>1, <1>3, <2>1
  <2> QED
    BY <1>1, <2>1, <2>2
<1>4. CASE a = i /\ paused'[i][q] # paused[i][q]
  <2> DEFINE x == PfcFrame(q, paused'[i][q])
  <2>1. PfcTo(i, q) = <<x>>
    BY <1>4 DEF PfcTo
  <2>2. x \in Waiting(0) /\ IsPfc(x) /\ x.pfc = q
    BY WaitingIs DEF PfcFrame
  <2>3. queue'[a][0] = Append(queue[a][0], x)
    <3> HIDE DEF x
    <3> QED
      BY <1>1, <1>4, <2>1, <2>2
  <2>4. CASE b = q
    <3>1. x = PfcFrame(b, ~paused[a][b]) /\ paused'[a][b] = ~paused[a][b]
      BY <1>1, <1>4, <2>4
    <3> HIDE DEF x
    <3>2. Alternate(Append(queue[a][0], x), b, told[a][b], ~paused[a][b])
      BY <1>1, <2>2, <3>1, AlternateAppend
    <3> QED
      BY <1>1, <2>3, <3>1, <3>2
  <2>5. CASE b # q
    <3>1. paused'[a][b] = paused[a][b]
      BY <2>5
    <3> HIDE DEF x
    <3>2. Alternate(Append(queue[a][0], x), b, told[a][b], paused[a][b])
      BY <1>1, <2>2, <2>5, AlternateAppend
    <3> QED
      BY <1>1, <2>3, <3>1, <3>2
  <2> QED
    BY <2>4, <2>5
<1> QED
  BY <1>2, <1>3, <1>4

LEMMA PfcToType ==
    ASSUME NEW i \in Port, NEW q \in Queue, paused'[i][q] \in BOOLEAN
    PROVE  PfcTo(i, q) \in Seq(Waiting(0))
<1>1. PfcFrame(q, paused'[i][q]) \in Waiting(0)
  BY WaitingIs
<1> QED
  BY <1>1 DEF PfcTo

-----------------------------------------------------------------------------
(* The queue served, and the stack of calls. *)

LEMMA NextIs ==
    ASSUME PortsOK, NEW o \in Port, Eligible(o) # {}
    PROVE  NextQueue(o) \in Eligible(o)
<1>1. CASE queue[o][0] # <<>>
  BY <1>1, SwitchConstants DEF NextQueue, Eligible
<1>2. CASE queue[o][0] = <<>>
  <2> DEFINE T == {Distance(o, q) : q \in Eligible(o)}
             R == OpToRel(<, Nat)
  <2>1. \A q \in Eligible(o) : Distance(o, q) \in Nat
    <3> SUFFICES ASSUME NEW q \in Eligible(o) PROVE Distance(o, q) \in Nat
      OBVIOUS
    <3>1. q \in Nat /\ m_rrlast[o] \in Nat /\ qCnt \in Nat \ {0}
      BY SwitchConstants DEF Eligible, PortsOK
    <3> DEFINE z == q - m_rrlast[o] + qCnt - 1
    <3>2. z \in Int
      BY <3>1
    <3> HIDE DEF z
    <3>3. z % qCnt \in Nat
      BY <3>1, <3>2
    <3> QED
      BY <3>3 DEF Distance, z
  <2>2. T \subseteq Nat /\ T # {}
    BY <2>1
  <2>3. IsWellFoundedOn(R, Nat)
    BY NatLessThanWellFounded
  <2>4. \A a, b \in Nat : a < b => <<a, b>> \in R
    BY DEF OpToRel
  <2>5. PICK n \in T : \A m \in T : ~(<<m, n>> \in R)
    <3> HIDE DEF R, T
    <3> QED
      BY <2>2, <2>3, WFMin
  <2>6. PICK q \in Eligible(o) : n = Distance(o, q)
    OBVIOUS
  <2>7. ASSUME NEW r \in Eligible(o) PROVE Distance(o, q) <= Distance(o, r)
    <3>1. Distance(o, q) \in Nat /\ Distance(o, r) \in Nat
      BY <2>1
    <3>2. Distance(o, r) \in T
      OBVIOUS
    <3>3. ~(Distance(o, r) < Distance(o, q))
      <4> HIDE DEF T, R
      <4> QED
        BY <2>4, <2>5, <2>6, <3>1, <3>2
    <3> QED
      BY <3>1, <3>3
  <2> QED
    BY <1>2, <2>7 DEF NextQueue
<1> QED
  BY <1>1, <1>2

Called(a, t) == \E n \in DOMAIN t : t[n] = a

LEMMA CalledAfter ==
    ASSUME NEW t \in Seq(Port), NEW a \in Port
    PROVE  /\ t # <<>> /\ Called(a, t) /\ a # Head(t) => Called(a, Tail(t))
           /\ Called(a, <<a>> \o t)
           /\ \A i \in Port : Called(a, t) => Called(a, <<i>> \o t)
           /\ Called(a, <<a>>)
<1>1. ASSUME t # <<>>, Called(a, t), a # Head(t)
      PROVE  Called(a, Tail(t))
  <2>1. PICK n \in DOMAIN t : t[n] = a
    BY <1>1 DEF Called
  <2>2. /\ n \in 1 .. Len(t) /\ Len(t) \in Nat /\ n # 1
        /\ DOMAIN Tail(t) = 1 .. (Len(t) - 1)
    BY <1>1, <2>1
  <2>3. n - 1 \in DOMAIN Tail(t)
    BY <2>2
  <2>4. Tail(t)[n - 1] = a
    BY <1>1, <2>1, <2>2
  <2> QED
    BY <2>3, <2>4 DEF Called
<1>2. Called(a, <<a>>)
  <2>1. 1 \in DOMAIN <<a>> /\ <<a>>[1] = a
    OBVIOUS
  <2> QED
    BY <2>1 DEF Called
<1>3. Called(a, <<a>> \o t)
  <2>1. 1 \in DOMAIN (<<a>> \o t) /\ (<<a>> \o t)[1] = a
    OBVIOUS
  <2> QED
    BY <2>1 DEF Called
<1>4. ASSUME NEW i \in Port, Called(a, t)
      PROVE  Called(a, <<i>> \o t)
  <2>1. PICK n \in DOMAIN t : t[n] = a
    BY <1>4 DEF Called
  <2>2. n \in 1 .. Len(t) /\ Len(t) \in Nat
    BY <2>1
  <2>3. n + 1 \in DOMAIN (<<i>> \o t) /\ (<<i>> \o t)[n + 1] = a
    BY <2>1, <2>2
  <2> QED
    BY <2>3 DEF Called
<1> QED
  BY <1>1, <1>2, <1>3, <1>4

LEMMA AwakeIs ==
    Awake <=> \A o \in Port : busy[o] \/ Eligible(o) = {} \/ Called(o, todo)
BY DEF Awake, Called

\* Queue 0 of one port changes, or what was said by it.
LEMMA OnePortFrames ==
    ASSUME PfcFramesAlternate, NEW o \in Port, UNCHANGED paused,
           \A a \in Port \ {o} : queue'[a][0] = queue[a][0] /\ told'[a] = told[a],
           \A q \in Queue : Alternate(queue'[o][0], q, told'[o][q], paused[o][q])
    PROVE  PfcFramesAlternate'
<1> SUFFICES ASSUME NEW a \in Port, NEW q \in Queue
             PROVE  Alternate(queue'[a][0], q, told'[a][q], paused'[a][q])
  BY DEF PfcFramesAlternate
<1>1. CASE a = o
  BY <1>1
<1>2. CASE a # o
  <2>1. queue'[a][0] = queue[a][0] /\ told'[a] = told[a] /\ paused'[a][q] = paused[a][q]
    BY <1>2
  <2>2. Alternate(queue[a][0], q, told[a][q], paused[a][q])
    BY DEF PfcFramesAlternate
  <2> QED
    BY <2>1, <2>2
<1> QED
  BY <1>1, <1>2

-----------------------------------------------------------------------------
(* Each action keeps the invariant and is a step of the unit, or none. *)

Kept == IInv' /\ (Mmu!Next \/ UNCHANGED mmuVars)

LEMMA AdmitKept ==
    ASSUME IInv, NEW i \in Port, NEW o \in Port, NEW q \in Queue, NEW s \in PSize,
           todo = <<>>, Admit(i, o, q, s)
    PROVE  Kept
<1>a. PortsOK /\ MmuP!IInv /\ CountersMatchBuffer /\ Awake /\ PfcFramesAlternate
  BY DEF IInv
<1>b. /\ Mmu!CheckIngressAdmission(i, q, s) /\ Mmu!Admit(i, o, q, s)
      /\ todo' = (IF PfcTo(i, q) # <<>> THEN <<i>> ELSE <<>>) \o <<o>>
      /\ UNCHANGED <<m_rrlast, busy, told, m_paused>>
  BY DEF Admit
<1> DEFINE x == queue[i][0] \o PfcTo(i, q)
           y == Append(queue[o][q], Packet(i, s))
           ing == ingress_bytes[i][q] + s
<1>0. q \in QIndex /\ 0 \in QIndex /\ q # 0 /\ s \in Nat
  BY SwitchConstants
<1>1. SetBoth(i, 0, x, o, q, y)
  BY <1>a, <1>0 DEF Admit, PortsOK, SetBoth
<1>2. /\ MmuP!IInv'
      /\ ingress_bytes' = [ingress_bytes EXCEPT ![i][q] = ing]
      /\ egress_bytes' = [egress_bytes EXCEPT ![o][q] = Mmu!U32(@ + s)]
      /\ shared_used_bytes' = Mmu!U32(shared_used_bytes
             + (Mmu!GetSharedUsed(ing) - Mmu!GetSharedUsed(ingress_bytes[i][q])))
      /\ \A a \in Port, b \in Queue :
            <<a, b>> # <<i, q>> => paused'[a][b] = paused[a][b]
      /\ paused[i][q] \in BOOLEAN /\ paused'[i][q] \in BOOLEAN
  BY <1>a, <1>b, MmuAdmits
<1>3. /\ Packet(i, s) \in Packets /\ Packet(i, s).in = i /\ Packet(i, s).size = s
      /\ queue[o][q] \in Seq(Packets) /\ queue[i][0] \in Seq(Waiting(0))
  BY <1>a, Matched, SwitchConstants DEF Packet, Packets, PortsOK
<1>4. x \in Seq(Waiting(0)) /\ y \in Seq(Waiting(q))
  <2>1. PfcTo(i, q) \in Seq(Waiting(0))
    BY <1>2, PfcToType
  <2>2. Waiting(q) = Packets
    BY WaitingIs
  <2> HIDE DEF PfcTo
  <2> QED
    BY <1>3, <2>1, <2>2
<1> HIDE DEF x, y
<1>5. /\ queue' \in [Port -> [QIndex -> Seq(Waiting(0))]]
      /\ \A p \in Port, b \in QIndex : queue'[p][b] \in Seq(Waiting(b))
      /\ queue'[i][0] = x /\ queue'[o][q] = y
      /\ \A p \in Port, b \in QIndex :
            ~(p = i /\ b = 0) /\ ~(p = o /\ b = q) => queue'[p][b] = queue[p][b]
  BY <1>a, <1>0, <1>1, <1>4, TwoQueues
<1>6. PortsOK'
  <2>1. todo' \in Seq(Port)
    BY <1>b
  <2> QED
    BY <1>a, <1>b, <1>5, <2>1 DEF PortsOK
<1>7. CountersMatchBuffer'
  <2>1. ing \in Nat /\ s \in Int /\ ingress_bytes[i][q] \in Nat
    BY <1>a, <1>0, MmuQueue
  <2>2. \A a \in Port, b \in Queue : <<a, b>> # <<o, q>> => queue'[a][b] = queue[a][b]
    BY <1>5, SwitchConstants
  <2>3. \A j \in Port \ {i} : BytesFrom(j, y) = BytesFrom(j, queue[o][q])
    <3> SUFFICES ASSUME NEW j \in Port \ {i}
                 PROVE  BytesFrom(j, y) = BytesFrom(j, queue[o][q])
      OBVIOUS
    <3>1. BytesFrom(j, queue[o][q]) \in Nat
      BY <1>3, BytesFromType
    <3> QED
      BY <1>3, <3>1, BytesFromAppend DEF y
  <2>4. BytesFrom(i, y) = BytesFrom(i, queue[o][q]) + s
    BY <1>3, BytesFromAppend DEF y
  <2>5. BytesMove(i, o, q, s, ing)
    <3> HIDE DEF ing
    <3>1. ing = ingress_bytes[i][q] + s
      BY DEF ing
    <3>2. egress_bytes' = [egress_bytes EXCEPT ![o][q] = Mmu!U32(egress_bytes[o][q] + s)]
      BY <1>2
    <3> QED
      BY <1>2, <1>5, <2>2, <2>3, <2>4, <3>1, <3>2 DEF BytesMove
  <2> HIDE DEF ing
  <2> QED
    BY <1>a, <1>2, <1>6, <2>1, <2>5, MatchMoves
<1>8. Awake'
  <2> SUFFICES ASSUME NEW a \in Port
               PROVE  busy'[a] \/ Eligible(a)' = {} \/ Called(a, todo')
    BY DEF Awake, Called
  <2>1. CASE a = o
    <3>1. todo' = <<i>> \o <<o>> \/ todo' = <<o>>
      <4>1. <<>> \o <<o>> = <<o>>
        OBVIOUS
      <4>2. CASE PfcTo(i, q) # <<>>
        BY <1>b, <4>2
      <4>3. CASE PfcTo(i, q) = <<>>
        BY <1>b, <4>1, <4>3
      <4> QED
        BY <4>2, <4>3
    <3>2. Called(o, <<o>>) /\ Called(o, <<i>> \o <<o>>)
      <4>1. <<o>> \in Seq(Port)
        OBVIOUS
      <4> QED
        BY <4>1, CalledAfter
    <3> QED
      BY <2>1, <3>1, <3>2
  <2>2. CASE a = i /\ PfcTo(i, q) # <<>>
    <3>1. todo' = <<i>> \o <<o>>
      BY <1>b, <2>2
    <3>2. <<o>> \in Seq(Port)
      OBVIOUS
    <3> QED
      BY <2>2, <3>1, <3>2, CalledAfter
  <2>3. CASE a # o /\ (a # i \/ PfcTo(i, q) = <<>>)
    <3>1. \A b \in QIndex : queue'[a][b] = queue[a][b]
      <4> SUFFICES ASSUME NEW b \in QIndex PROVE queue'[a][b] = queue[a][b]
        OBVIOUS
      <4>1. CASE a = i /\ b = 0
        <5>1. x = queue[i][0] \o <<>>
          BY <2>3, <4>1 DEF x
        <5>2. x = queue[i][0]
          BY <1>3, <5>1
        <5> QED
          BY <1>5, <4>1, <5>2
      <4>2. CASE ~(a = i /\ b = 0)
        BY <1>5, <2>3, <4>2
      <4> QED
        BY <4>1, <4>2
    <3>2. Eligible(a)' = Eligible(a)
      BY <1>b, <3>1, SameEligible
    <3>3. busy[a] \/ Eligible(a) = {}
      BY <1>a DEF Awake
    <3> QED
      BY <1>b, <3>2, <3>3
  <2> QED
    BY <2>1, <2>2, <2>3
<1>9. PfcFramesAlternate'
  <2>1. \A a \in Port, b \in Queue : paused[a][b] \in BOOLEAN
    BY <1>a, MmuQueue
  <2>2. queue'[i][0] = queue[i][0] \o PfcTo(i, q)
    BY <1>5 DEF x
  <2>3. \A a \in Port \ {i} : queue'[a][0] = queue[a][0]
    BY <1>0, <1>5
  <2> QED
    BY <1>a, <1>b, <1>2, <2>1, <2>2, <2>3, PfcToKeeps
<1>10. Mmu!Next
  BY <1>b DEF Mmu!Next, Mmu!Enter
<1> QED
  BY <1>2, <1>6, <1>7, <1>8, <1>9, <1>10 DEF Kept, IInv

\* A step that leaves the unit alone.
LEMMA QuietKept ==
    ASSUME IInv, UNCHANGED mmuVars, PortsOK', Awake', PfcFramesAlternate',
           \A a \in Port, b \in Queue : queue'[a][b] = queue[a][b]
    PROVE  Kept
<1>1. MmuP!IInv' /\ CountersMatchBuffer'
  BY SameCounters DEF IInv
<1> QED
  BY <1>1 DEF Kept, IInv

LEMMA HighKept ==
    ASSUME IInv, ReceiveHighPriority
    PROVE  Kept
<1>a. PortsOK /\ MmuP!IInv /\ Awake /\ PfcFramesAlternate
  BY DEF IInv
<1>1. PICK r \in Route, s \in PSize :
          /\ todo = <<>>
          /\ queue' = [queue EXCEPT ![r[2]][0] = Append(@, Packet(r[1], s))]
          /\ todo' = <<r[2]>>
          /\ UNCHANGED <<mmuVars, m_rrlast, busy, told, m_paused>>
  BY DEF ReceiveHighPriority
<1> DEFINE i == r[1]
           o == r[2]
           x == Append(queue[o][0], Packet(i, s))
<1>2. i \in Port /\ o \in Port
  BY SwitchAssumption
<1>3. Set(o, 0, x) /\ todo' = <<o>>
  BY <1>1 DEF Set
<1>4. /\ Packet(i, s) \in Packets /\ Packet(i, s) \in Waiting(0)
      /\ ~IsPfc(Packet(i, s)) /\ queue[o][0] \in Seq(Waiting(0))
  <2>1. Packet(i, s) \in Packets
    BY <1>2 DEF Packet, Packets
  <2> QED
    BY <1>a, <1>2, <2>1, SwitchConstants, WaitingIs DEF PortsOK
<1> HIDE DEF i, o
<1>5. x \in Seq(Waiting(0)) /\ 0 \in QIndex /\ 0 \notin Queue /\ Queue \subseteq QIndex
  BY <1>4, SwitchConstants
<1>6. /\ queue' \in [Port -> [QIndex -> Seq(Waiting(0))]]
      /\ \A p \in Port, b \in QIndex : queue'[p][b] \in Seq(Waiting(b))
      /\ queue'[o][0] = x
      /\ \A p \in Port, b \in QIndex : ~(p = o /\ b = 0) => queue'[p][b] = queue[p][b]
  <2> HIDE DEF x
  <2> QED
    BY <1>a, <1>2, <1>3, <1>5, OneQueue
<1>7. PortsOK'
  <2>1. todo' \in Seq(Port)
    BY <1>2, <1>3
  <2> QED
    BY <1>a, <1>1, <1>6, <2>1 DEF PortsOK
<1>8. \A a \in Port, b \in Queue : queue'[a][b] = queue[a][b]
  BY <1>5, <1>6
<1>9. Awake'
  <2> SUFFICES ASSUME NEW a \in Port
               PROVE  busy'[a] \/ Eligible(a)' = {} \/ Called(a, todo')
    BY DEF Awake, Called
  <2>1. CASE a = o
    <3>1. <<o>> \in Seq(Port)
      BY <1>2
    <3>2. Called(o, <<o>>)
      BY <1>2, <3>1, CalledAfter
    <3> QED
      BY <1>3, <2>1, <3>2
  <2>2. CASE a # o
    <3>1. \A b \in QIndex : queue'[a][b] = queue[a][b]
      BY <1>6, <2>2
    <3>2. Eligible(a)' = Eligible(a)
      BY <1>1, <3>1, SameEligible
    <3>3. busy[a] \/ Eligible(a) = {}
      BY <1>a, <1>1 DEF Awake
    <3> QED
      BY <1>1, <3>2, <3>3
  <2> QED
    BY <2>1, <2>2
<1>10. PfcFramesAlternate'
  <2>1. /\ \A a \in Port \ {o} : queue'[a][0] = queue[a][0] /\ told'[a] = told[a]
        /\ UNCHANGED paused
    BY <1>1, <1>5, <1>6 DEF mmuVars
  <2>2. ASSUME NEW q \in Queue
        PROVE  Alternate(queue'[o][0], q, told'[o][q], paused[o][q])
    <3>1. /\ Alternate(queue[o][0], q, told[o][q], paused[o][q])
          /\ told[o][q] \in BOOLEAN /\ paused[o][q] \in BOOLEAN
      BY <1>a, <1>2, MmuQueue DEF PortsOK, PfcFramesAlternate
    <3>2. Alternate(x, q, told[o][q], paused[o][q])
      BY <1>4, <3>1, AlternateAppend
    <3> QED
      BY <1>1, <1>6, <3>2
  <2> QED
    BY <1>a, <1>2, <2>1, <2>2, OnePortFrames
<1> QED
  BY <1>1, <1>7, <1>8, <1>9, <1>10, QuietKept

\* What the call on top of the stack leaves of the others.
LEMMA OthersAwake ==
    ASSUME PortsOK, Awake, NEW a \in Port, todo # <<>>, a # Head(todo),
           \A b \in QIndex : queue'[a][b] = queue[a][b], UNCHANGED m_paused
    PROVE  busy[a] \/ Eligible(a)' = {} \/ Called(a, Tail(todo))
<1>1. Eligible(a)' = Eligible(a)
  BY SameEligible
<1>2. busy[a] \/ Eligible(a) = {} \/ Called(a, todo)
  BY AwakeIs
<1>3. todo \in Seq(Port)
  BY DEF PortsOK
<1>4. CASE Called(a, todo)
  BY <1>3, <1>4, CalledAfter
<1>5. CASE ~Called(a, todo)
  BY <1>1, <1>2, <1>5
<1> QED
  BY <1>4, <1>5

LEMMA NothingKept ==
    ASSUME IInv, todo # <<>>, TransmitNothing(Head(todo))
    PROVE  Kept
<1>a. PortsOK /\ MmuP!IInv /\ Awake /\ PfcFramesAlternate
  BY DEF IInv
<1> DEFINE o == Head(todo)
<1>1. /\ busy[o] \/ Eligible(o) = {}
      /\ todo' = Tail(todo)
      /\ UNCHANGED <<mmuVars, queue, m_rrlast, busy, told, m_paused>>
  BY DEF TransmitNothing, NothingToDo, portVars
<1>2. todo \in Seq(Port) /\ o \in Port
  BY <1>a DEF PortsOK
<1>3. PortsOK'
  BY <1>a, <1>1, <1>2 DEF PortsOK
<1>4. Awake'
  <2> SUFFICES ASSUME NEW a \in Port
               PROVE  busy'[a] \/ Eligible(a)' = {} \/ Called(a, todo')
    BY DEF Awake, Called
  <2> HIDE DEF o
  <2>1. CASE a = o
    <3>1. Eligible(a)' = Eligible(a)
      BY <1>1, SameEligible
    <3> QED
      BY <1>1, <2>1, <3>1
  <2>2. CASE a # o
    <3>1. busy[a] \/ Eligible(a)' = {} \/ Called(a, Tail(todo))
      BY <1>a, <1>1, <2>2, OthersAwake DEF o
    <3> QED
      BY <1>1, <3>1
  <2> QED
    BY <2>1, <2>2
<1>5. PfcFramesAlternate'
  <2>1. UNCHANGED <<queue, told, paused>>
    BY <1>1 DEF mmuVars
  <2>2. PfcFramesAlternate' = PfcFramesAlternate
    BY <2>1 DEF PfcFramesAlternate, Alternate, Frames, Said
  <2> QED
    BY <1>a, <2>2
<1> QED
  BY <1>1, <1>3, <1>4, <1>5, QuietKept

LEMMA TransmitHighKept ==
    ASSUME IInv, todo # <<>>, TransmitHigh(Head(todo))
    PROVE  Kept
<1>a. PortsOK /\ MmuP!IInv /\ Awake /\ PfcFramesAlternate
  BY DEF IInv
<1> DEFINE o == Head(todo)
           w == queue[o][0]
           x == Head(w)
<1>1. /\ w # <<>>
      /\ queue' = [queue EXCEPT ![o][0] = Tail(@)]
      /\ busy' = [busy EXCEPT ![o] = TRUE]
      /\ told' = IF IsPfc(x) THEN [told EXCEPT ![o][x.pfc] = x.pause] ELSE told
      /\ todo' = Tail(todo)
      /\ UNCHANGED <<mmuVars, m_rrlast, m_paused>>
  BY DEF TransmitHigh
<1>2. todo \in Seq(Port) /\ o \in Port
  BY <1>a DEF PortsOK
<1> HIDE DEF o
<1>3. w \in Seq(Waiting(0)) /\ 0 \in QIndex /\ 0 \notin Queue /\ Queue \subseteq QIndex
  BY <1>a, <1>2, SwitchConstants DEF PortsOK
<1>4. /\ x \in Waiting(0) /\ Tail(w) \in Seq(Waiting(0))
      /\ IsPfc(x) => x.pfc \in Queue /\ x.pause \in BOOLEAN
  <2>1. x \in Waiting(0) /\ Tail(w) \in Seq(Waiting(0))
    <3> HIDE DEF w
    <3> QED
      BY <1>1, <1>3
  <2> QED
    BY <2>1, WaitingIs
<1>5. Set(o, 0, Tail(w))
  BY <1>1 DEF Set
<1>6. /\ queue' \in [Port -> [QIndex -> Seq(Waiting(0))]]
      /\ \A p \in Port, b \in QIndex : queue'[p][b] \in Seq(Waiting(b))
      /\ queue'[o][0] = Tail(w)
      /\ \A p \in Port, b \in QIndex : ~(p = o /\ b = 0) => queue'[p][b] = queue[p][b]
  <2> DEFINE v == Tail(w)
  <2>1. v \in Seq(Waiting(0)) /\ Set(o, 0, v)
    BY <1>4, <1>5
  <2> HIDE DEF v
  <2>2. /\ queue' \in [Port -> [QIndex -> Seq(Waiting(0))]]
        /\ \A p \in Port, b \in QIndex : queue'[p][b] \in Seq(Waiting(b))
        /\ queue'[o][0] = v
        /\ \A p \in Port, b \in QIndex : ~(p = o /\ b = 0) => queue'[p][b] = queue[p][b]
    BY <1>a, <1>2, <1>3, <2>1, OneQueue
  <2> QED
    BY <2>2 DEF v
<1>7. /\ told' \in [Port -> [Queue -> BOOLEAN]]
      /\ \A a \in Port \ {o} : told'[a] = told[a]
      /\ \A q \in Queue :
            told'[o][q] = IF IsPfc(x) /\ x.pfc = q THEN x.pause ELSE told[o][q]
  <2>1. told \in [Port -> [Queue -> BOOLEAN]]
    BY <1>a DEF PortsOK
  <2> HIDE DEF w, x
  <2>2. CASE IsPfc(x)
    <3>1. told' = [told EXCEPT ![o][x.pfc] = x.pause]
      BY <1>1, <2>2
    <3>2. x.pfc \in Queue /\ x.pause \in BOOLEAN
      BY <1>4, <2>2
    <3> DEFINE c == x.pfc
               d == x.pause
    <3>3. told' = [told EXCEPT ![o][c] = d] /\ c \in Queue /\ d \in BOOLEAN
      BY <3>1, <3>2
    <3> HIDE DEF c, d
    <3>4. /\ told' \in [Port -> [Queue -> BOOLEAN]]
          /\ \A a \in Port \ {o} : told'[a] = told[a]
      BY <1>2, <2>1, <3>3
    <3>5. told'[o] = [told[o] EXCEPT ![c] = d] /\ told[o] \in [Queue -> BOOLEAN]
      BY <1>2, <2>1, <3>3
    <3>6. ASSUME NEW q \in Queue
          PROVE  told'[o][q] = IF c = q THEN d ELSE told[o][q]
      BY <3>3, <3>5
    <3> QED
      BY <2>2, <3>4, <3>6 DEF c, d
  <2>3. CASE ~IsPfc(x)
    BY <1>1, <2>1, <2>3
  <2> QED
    BY <2>2, <2>3
<1>8. PortsOK'
  <2>1. todo' \in Seq(Port)
    BY <1>1, <1>2
  <2>2. busy' \in [Port -> BOOLEAN]
    BY <1>a, <1>1 DEF PortsOK
  <2> QED
    BY <1>a, <1>1, <1>6, <1>7, <2>1, <2>2 DEF PortsOK
<1>9. \A a \in Port, b \in Queue : queue'[a][b] = queue[a][b]
  BY <1>3, <1>6
<1>10. Awake'
  <2> SUFFICES ASSUME NEW a \in Port
               PROVE  busy'[a] \/ Eligible(a)' = {} \/ Called(a, todo')
    BY DEF Awake, Called
  <2>1. CASE a = o
    BY <1>a, <1>1, <2>1 DEF PortsOK
  <2>2. CASE a # o
    <3>1. \A b \in QIndex : queue'[a][b] = queue[a][b]
      BY <1>6, <2>2
    <3>2. busy[a] \/ Eligible(a)' = {} \/ Called(a, Tail(todo))
      BY <1>a, <1>1, <2>2, <3>1, OthersAwake DEF o
    <3>3. busy'[a] = busy[a]
      BY <1>a, <1>1, <2>2 DEF PortsOK
    <3> QED
      BY <1>1, <3>2, <3>3
  <2> QED
    BY <2>1, <2>2
<1>11. PfcFramesAlternate'
  <2>1. /\ \A a \in Port \ {o} : queue'[a][0] = queue[a][0] /\ told'[a] = told[a]
        /\ UNCHANGED paused
    BY <1>1, <1>3, <1>6, <1>7 DEF mmuVars
  <2>2. ASSUME NEW q \in Queue
        PROVE  Alternate(queue'[o][0], q, told'[o][q], paused[o][q])
    <3>1. /\ Alternate(w, q, told[o][q], paused[o][q])
          /\ told[o][q] \in BOOLEAN /\ paused[o][q] \in BOOLEAN
      BY <1>a, <1>2, MmuQueue DEF PortsOK, PfcFramesAlternate
    <3> HIDE DEF w
    <3>2. Alternate(Tail(w), q,
                    IF IsPfc(Head(w)) /\ Head(w).pfc = q THEN Head(w).pause ELSE told[o][q],
                    paused[o][q])
      BY <1>1, <1>3, <3>1, AlternateTail
    <3> QED
      BY <1>6, <1>7, <3>2
  <2> QED
    BY <1>a, <1>2, <2>1, <2>2, OnePortFrames
<1> QED
  BY <1>1, <1>8, <1>9, <1>10, <1>11, QuietKept

\* A packet that heads a queue is charged to the queues it came in and goes out by.
LEMMA HeadCharged ==
    ASSUME PortsOK, MmuP!IInv, CountersMatchBuffer, NEW o \in Port, NEW q \in Queue,
           queue[o][q] # <<>>
    PROVE  LET w == queue[o][q]
               i == Head(w).in
               s == Head(w).size
           IN  /\ w \in Seq(Packets) /\ Tail(w) \in Seq(Packets)
               /\ i \in Port /\ s \in PSize /\ s \in Nat
               /\ s <= ingress_bytes[i][q] /\ s <= egress_bytes[o][q]
               /\ BytesFrom(i, Tail(w)) = BytesFrom(i, w) + (0 - s)
               /\ \A j \in Port \ {i} : BytesFrom(j, Tail(w)) = BytesFrom(j, w)
<1> DEFINE w == queue[o][q]
           i == Head(w).in
           s == Head(w).size
           col == [a \in Port |-> queue[a][q]]
<1>1. /\ w \in Seq(Packets) /\ col \in [Port -> Seq(Packets)] /\ col[o] = w
      /\ \A j \in Port : ingress_bytes[j][q] = CameIn(j, col)
      /\ egress_bytes[o][q] = GoesOut(w)
  BY Matched
<1> HIDE DEF w, col
<1>2. Head(w) \in Packets /\ Tail(w) \in Seq(Packets)
  BY <1>1 DEF w
<1>3. i \in Port /\ s \in PSize /\ s \in Nat
  BY <1>2, SwitchConstants DEF Packets
<1>4. ASSUME NEW j \in Port
      PROVE  /\ BytesFrom(j, w) = BytesFrom(j, Tail(w)) + IF i = j THEN s ELSE 0
             /\ BytesFrom(j, Tail(w)) \in Nat
  <2>1. w # <<>>
    BY DEF w
  <2> QED
    BY <1>1, <1>2, <2>1, BytesFromTail, BytesFromType
<1> HIDE DEF i, s
<1>5. /\ BytesFrom(i, w) = BytesFrom(i, Tail(w)) + s
      /\ BytesFrom(i, Tail(w)) \in Nat
  BY <1>3, <1>4
<1>6. \A j \in Port \ {i} : BytesFrom(j, Tail(w)) = BytesFrom(j, w)
  BY <1>4
<1>7. BytesFrom(i, w) <= ingress_bytes[i][q] /\ ingress_bytes[i][q] \in Nat
  BY <1>1, <1>3, CameInType
<1>8. BytesFrom(i, w) <= egress_bytes[o][q] /\ egress_bytes[o][q] \in Nat
  BY <1>1, <1>3, GoesOutType
<1>9. /\ s <= ingress_bytes[i][q] /\ s <= egress_bytes[o][q]
      /\ BytesFrom(i, Tail(w)) = BytesFrom(i, w) + (0 - s)
  BY <1>3, <1>5, <1>7, <1>8
<1> QED
  BY <1>1, <1>2, <1>3, <1>6, <1>9 DEF w, i, s

LEMMA TransmitDataKept ==
    ASSUME IInv, todo # <<>>, TransmitData(Head(todo))
    PROVE  Kept
<1>a. PortsOK /\ MmuP!IInv /\ CountersMatchBuffer /\ Awake /\ PfcFramesAlternate
  BY DEF IInv
<1> DEFINE o == Head(todo)
           q == NextQueue(o)
           w == queue[o][q]
           i == Head(w).in
           s == Head(w).size
           x == Tail(w)
           y == queue[i][0] \o PfcTo(i, q)
           ing == ingress_bytes[i][q] - s
<1>b. /\ Eligible(o) # {} /\ queue[o][0] = <<>>
      /\ Mmu!Release(i, o, q, s)
      /\ queue' = [queue EXCEPT ![o][q] = Tail(@), ![i][0] = @ \o PfcTo(i, q)]
      /\ m_rrlast' = [m_rrlast EXCEPT ![o] = q]
      /\ busy' = [busy EXCEPT ![o] = TRUE]
      /\ todo' = (IF PfcTo(i, q) # <<>> THEN <<i>> ELSE <<>>) \o Tail(todo)
      /\ UNCHANGED <<told, m_paused>>
  BY DEF TransmitData, NothingToDo, SwitchNotifyDequeue
<1>1. todo \in Seq(Port) /\ o \in Port
  BY <1>a DEF PortsOK
<1> HIDE DEF o, q
<1>2. q \in QIndex /\ w # <<>> /\ q # 0
  <2>1. q \in Eligible(o)
    BY <1>a, <1>b, <1>1, NextIs DEF q
  <2> QED
    BY <1>b, <2>1 DEF Eligible
<1>3. q \in Queue
  <2> SUFFICES ASSUME q \notin Queue PROVE FALSE
    OBVIOUS
  <2>1. Waiting(q) = {} /\ w \in Seq(Waiting(q))
    BY <1>a, <1>1, <1>2, WaitingIs DEF PortsOK
  <2>2. w \in Seq({})
    BY <2>1
  <2> HIDE DEF w
  <2>3. Head(w) \in {}
    BY <1>2, <2>2
  <2> QED
    BY <2>3
<1>4. /\ w \in Seq(Packets) /\ x \in Seq(Packets)
      /\ i \in Port /\ s \in PSize /\ s \in Nat
      /\ s <= ingress_bytes[i][q] /\ s <= egress_bytes[o][q]
      /\ BytesFrom(i, x) = BytesFrom(i, w) + (0 - s)
      /\ \A j \in Port \ {i} : BytesFrom(j, x) = BytesFrom(j, w)
  BY <1>a, <1>1, <1>2, <1>3, HeadCharged
<1> HIDE DEF i, s
<1>5. /\ MmuP!IInv'
      /\ ing \in Nat
      /\ ingress_bytes' = [ingress_bytes EXCEPT ![i][q] = ing]
      /\ egress_bytes' = [egress_bytes EXCEPT ![o][q] = Mmu!U32(@ - s)]
      /\ shared_used_bytes' = Mmu!U32(shared_used_bytes
             - (Mmu!GetSharedUsed(ingress_bytes[i][q]) - Mmu!GetSharedUsed(ing)))
      /\ \A a \in Port, b \in Queue :
            <<a, b>> # <<i, q>> => paused'[a][b] = paused[a][b]
      /\ paused[i][q] \in BOOLEAN /\ paused'[i][q] \in BOOLEAN
  BY <1>a, <1>b, <1>1, <1>3, <1>4, MmuReleases
<1>6. 0 \in QIndex /\ 0 \notin Queue /\ Queue \subseteq QIndex
  BY SwitchConstants
<1>7. x \in Seq(Waiting(q)) /\ y \in Seq(Waiting(0)) /\ queue[i][0] \in Seq(Waiting(0))
  <2>1. PfcTo(i, q) \in Seq(Waiting(0))
    BY <1>3, <1>4, <1>5, PfcToType
  <2>2. queue[i][0] \in Seq(Waiting(0))
    BY <1>a, <1>4, <1>6 DEF PortsOK
  <2>3. Waiting(q) = Packets
    BY <1>3, WaitingIs
  <2> HIDE DEF PfcTo, x
  <2> QED
    BY <1>4, <2>1, <2>2, <2>3
<1>8. SetBoth(o, q, x, i, 0, y)
  BY <1>a, <1>b, <1>1, <1>2, <1>4, <1>6 DEF SetBoth, PortsOK
<1> HIDE DEF x, y
<1>9. /\ queue' \in [Port -> [QIndex -> Seq(Waiting(0))]]
      /\ \A p \in Port, b \in QIndex : queue'[p][b] \in Seq(Waiting(b))
      /\ queue'[o][q] = x /\ queue'[i][0] = y
      /\ \A p \in Port, b \in QIndex :
            ~(p = o /\ b = q) /\ ~(p = i /\ b = 0) => queue'[p][b] = queue[p][b]
  <2> HIDE DEF w
  <2> QED
    BY <1>a, <1>1, <1>2, <1>4, <1>6, <1>7, <1>8, TwoQueues
<1>10. PortsOK'
  <2>1. todo' \in Seq(Port)
    <3>1. Tail(todo) \in Seq(Port)
      BY <1>1
    <3>2. CASE PfcTo(i, q) # <<>>
      BY <1>b, <1>4, <3>1, <3>2
    <3>3. CASE PfcTo(i, q) = <<>>
      BY <1>b, <3>1, <3>3
    <3> QED
      BY <3>2, <3>3
  <2>2. busy' \in [Port -> BOOLEAN]
    BY <1>a, <1>b DEF PortsOK
  <2>3. m_rrlast' \in [Port -> {0} \cup Queue]
    BY <1>a, <1>b, <1>3 DEF PortsOK
  <2> QED
    BY <1>a, <1>b, <1>9, <2>1, <2>2, <2>3 DEF PortsOK
<1>11. CountersMatchBuffer'
  <2> DEFINE d == 0 - s
  <2>1. /\ d \in Int /\ ingress_bytes[i][q] \in Nat /\ egress_bytes[o][q] \in Nat
        /\ shared_used_bytes \in Nat
        /\ Mmu!GetSharedUsed(ingress_bytes[i][q]) \in Nat
        /\ Mmu!GetSharedUsed(ing) \in Nat
    <3>1. ingress_bytes[i][q] \in Nat /\ shared_used_bytes \in Nat
      BY <1>a, <1>3, <1>4, MmuAssumed
      DEF MmuP!IInv, MmuP!TypeOK, Mmu!MmuAssumption
    <3>2. egress_bytes[o][q] \in Nat
      BY <1>a, <1>1, <1>3, MmuAssumed
      DEF MmuP!IInv, MmuP!TypeOK, Mmu!MmuAssumption
    <3>3. \A b \in Nat : Mmu!GetSharedUsed(b) \in Nat
      <4>1. shared_bytes \in Nat /\ reserve \in Nat
        BY ShareOfBuffer
      <4> QED
        BY <4>1 DEF Mmu!GetSharedUsed, Mmu!Least
    <3> HIDE DEF ing
    <3> QED
      BY <1>4, <1>5, <3>1, <3>2, <3>3
  <2>2. \A a \in Port, b \in Queue : <<a, b>> # <<o, q>> => queue'[a][b] = queue[a][b]
    BY <1>6, <1>9
  <2>3. BytesMove(i, o, q, d, ing)
    <3>1. ing = ingress_bytes[i][q] + d
      BY <1>4, <2>1
    <3>2. egress_bytes[o][q] - s = egress_bytes[o][q] + d
      BY <1>4, <2>1
    <3>3. egress_bytes' = [egress_bytes EXCEPT ![o][q] = Mmu!U32(egress_bytes[o][q] + d)]
      BY <1>5, <3>2
    <3> HIDE DEF ing, d
    <3>4. shared_used_bytes
              - (Mmu!GetSharedUsed(ingress_bytes[i][q]) - Mmu!GetSharedUsed(ing))
            = shared_used_bytes
              + (Mmu!GetSharedUsed(ing) - Mmu!GetSharedUsed(ingress_bytes[i][q]))
      BY <2>1
    <3>5. shared_used_bytes' = Mmu!U32(shared_used_bytes
              + (Mmu!GetSharedUsed(ing) - Mmu!GetSharedUsed(ingress_bytes[i][q])))
      BY <1>5, <3>4
    <3>6. /\ \A j \in Port \ {i} :
                BytesFrom(j, queue'[o][q]) = BytesFrom(j, queue[o][q])
          /\ BytesFrom(i, queue'[o][q]) = BytesFrom(i, queue[o][q]) + d
      BY <1>4, <1>9 DEF d, w
    <3> QED
      BY <1>5, <2>2, <3>1, <3>3, <3>5, <3>6 DEF BytesMove
  <2> HIDE DEF ing, d
  <2> QED
    BY <1>a, <1>1, <1>3, <1>4, <1>5, <1>10, <2>1, <2>3, MatchMoves
<1>12. Awake'
  <2> SUFFICES ASSUME NEW a \in Port
               PROVE  busy'[a] \/ Eligible(a)' = {} \/ Called(a, todo')
    BY DEF Awake, Called
  <2>1. CASE a = o
    BY <1>a, <1>b, <2>1 DEF PortsOK
  <2>2. CASE a = i /\ PfcTo(i, q) # <<>>
    <3>1. todo' = <<i>> \o Tail(todo) /\ Tail(todo) \in Seq(Port)
      BY <1>b, <1>1, <2>2
    <3> QED
      BY <2>2, <3>1, CalledAfter
  <2>3. CASE a # o /\ (a # i \/ PfcTo(i, q) = <<>>)
    <3>1. \A b \in QIndex : queue'[a][b] = queue[a][b]
      <4> SUFFICES ASSUME NEW b \in QIndex PROVE queue'[a][b] = queue[a][b]
        OBVIOUS
      <4>1. CASE a = i /\ b = 0
        <5>1. y = queue[i][0] \o <<>>
          BY <2>3, <4>1 DEF y
        <5>2. y = queue[i][0]
          BY <1>7, <5>1
        <5> QED
          BY <1>9, <4>1, <5>2
      <4>2. CASE ~(a = i /\ b = 0)
        BY <1>9, <2>3, <4>2
      <4> QED
        BY <4>1, <4>2
    <3>2. busy[a] \/ Eligible(a)' = {} \/ Called(a, Tail(todo))
      BY <1>a, <1>b, <2>3, <3>1, OthersAwake DEF o
    <3>3. busy'[a] = busy[a]
      BY <1>a, <1>b, <2>3 DEF PortsOK
    <3>4. Called(a, Tail(todo)) => Called(a, todo')
      <4>1. Tail(todo) \in Seq(Port)
        BY <1>1
      <4>2. CASE PfcTo(i, q) # <<>>
        <5>1. todo' = <<i>> \o Tail(todo)
          BY <1>b, <4>2
        <5> QED
          BY <1>4, <4>1, <5>1, CalledAfter
      <4>3. CASE PfcTo(i, q) = <<>>
        <5>1. todo' = <<>> \o Tail(todo)
          BY <1>b, <4>3
        <5>2. todo' = Tail(todo)
          BY <4>1, <5>1
        <5> QED
          BY <5>2
      <4> QED
        BY <4>2, <4>3
    <3> QED
      BY <3>2, <3>3, <3>4
  <2> QED
    BY <2>1, <2>2, <2>3
<1>13. PfcFramesAlternate'
  <2>1. \A a \in Port, b \in Queue : paused[a][b] \in BOOLEAN
    BY <1>a, MmuQueue
  <2>2. queue'[i][0] = queue[i][0] \o PfcTo(i, q)
    BY <1>9 DEF y
  <2>3. \A a \in Port \ {i} : queue'[a][0] = queue[a][0]
    BY <1>2, <1>6, <1>9
  <2> QED
    BY <1>a, <1>b, <1>3, <1>4, <1>5, <2>1, <2>2, <2>3, PfcToKeeps
<1>14. Mmu!Next
  <2>1. Mmu!Leave(i, o, q, s)
    BY <1>b, <1>4 DEF Mmu!Leave
  <2> QED
    BY <1>1, <1>3, <1>4, <2>1 DEF Mmu!Next
<1> QED
  BY <1>5, <1>10, <1>11, <1>12, <1>13, <1>14 DEF Kept, IInv

LEMMA CompleteKept ==
    ASSUME IInv, NEW o \in Port, TransmitComplete(o)
    PROVE  Kept
<1>a. PortsOK /\ Awake /\ PfcFramesAlternate
  BY DEF IInv
<1>1. /\ todo = <<>> /\ todo' = <<o>>
      /\ busy' = [busy EXCEPT ![o] = FALSE]
      /\ UNCHANGED <<mmuVars, queue, m_rrlast, told, m_paused>>
  BY DEF TransmitComplete
<1>2. PortsOK'
  BY <1>a, <1>1 DEF PortsOK
<1>3. Awake'
  <2> SUFFICES ASSUME NEW a \in Port
               PROVE  busy'[a] \/ Eligible(a)' = {} \/ Called(a, todo')
    BY DEF Awake, Called
  <2>1. CASE a = o
    <3>1. <<o>> \in Seq(Port)
      OBVIOUS
    <3>2. Called(o, <<o>>)
      BY <3>1, CalledAfter
    <3> QED
      BY <1>1, <2>1, <3>2
  <2>2. CASE a # o
    <3>1. Eligible(a)' = Eligible(a)
      BY <1>1, SameEligible
    <3>2. busy'[a] = busy[a]
      BY <1>a, <1>1, <2>2 DEF PortsOK
    <3>3. busy[a] \/ Eligible(a) = {}
      BY <1>a, <1>1 DEF Awake
    <3> QED
      BY <3>1, <3>2, <3>3
  <2> QED
    BY <2>1, <2>2
<1>4. PfcFramesAlternate'
  <2>1. UNCHANGED <<queue, told, paused>>
    BY <1>1 DEF mmuVars
  <2>2. PfcFramesAlternate' = PfcFramesAlternate
    BY <2>1 DEF PfcFramesAlternate, Alternate, Frames, Said
  <2> QED
    BY <1>a, <2>2
<1> QED
  BY <1>1, <1>2, <1>3, <1>4, QuietKept

\* The peer pauses a queue, or a queue may go on: the port is called then.
LEMMA PausedKept ==
    ASSUME IInv, NEW o \in Port, NEW q \in Queue, ReceivePause(o, q) \/ Resume(o, q)
    PROVE  Kept
<1>a. PortsOK /\ Awake /\ PfcFramesAlternate
  BY DEF IInv
<1>1. /\ todo = <<>> /\ UNCHANGED <<mmuVars, queue, m_rrlast, busy, told>>
      /\ \/ m_paused' = [m_paused EXCEPT ![o][q] = TRUE] /\ todo' = todo
         \/ m_paused' = [m_paused EXCEPT ![o][q] = FALSE] /\ todo' = <<o>>
  BY DEF ReceivePause, Resume, portVars
<1>2. q \in QIndex
  BY SwitchConstants
<1>3. PortsOK'
  <2>1. m_paused' \in [Port -> [QIndex -> BOOLEAN]]
    <3>1. m_paused \in [Port -> [QIndex -> BOOLEAN]]
      BY <1>a DEF PortsOK
    <3>2. PICK b \in BOOLEAN : m_paused' = [m_paused EXCEPT ![o][q] = b]
      BY <1>1
    <3>3. [m_paused[o] EXCEPT ![q] = b] \in [QIndex -> BOOLEAN]
      BY <3>1, <1>2
    <3> QED
      BY <3>1, <3>2, <3>3
  <2>2. todo' \in Seq(Port)
    <3>1. todo' = todo \/ todo' = <<o>>
      BY <1>1
    <3>2. todo \in Seq(Port) /\ <<o>> \in Seq(Port)
      BY <1>a DEF PortsOK
    <3> QED
      BY <3>1, <3>2
  <2> QED
    BY <1>a, <1>1, <2>1, <2>2 DEF PortsOK
<1>4. Awake'
  <2> SUFFICES ASSUME NEW a \in Port
               PROVE  busy'[a] \/ Eligible(a)' = {} \/ Called(a, todo')
    BY DEF Awake, Called
  <2>0. busy[a] \/ Eligible(a) = {}
    BY <1>a, <1>1 DEF Awake
  <2>1. CASE a = o /\ todo' = <<o>>
    <3>1. <<o>> \in Seq(Port)
      OBVIOUS
    <3>2. Called(o, <<o>>)
      BY <3>1, CalledAfter
    <3> QED
      BY <2>1, <3>2
  <2>2. CASE a = o /\ todo' = todo
    <3>1. m_paused' = [m_paused EXCEPT ![o][q] = TRUE]
      BY <1>1, <2>2
    <3>2. m_paused \in [Port -> [QIndex -> BOOLEAN]]
      BY <1>a DEF PortsOK
    <3>3. \A b \in QIndex : m_paused[o][b] => m_paused'[o][b]
      BY <3>1, <3>2
    <3>4. Eligible(o)' \subseteq Eligible(o)
      BY <1>1, <3>3 DEF Eligible
    <3> QED
      BY <1>1, <2>0, <2>2, <3>4
  <2>3. CASE a # o
    <3>1. m_paused'[a] = m_paused[a]
      BY <1>a, <1>1, <2>3 DEF PortsOK
    <3>2. Eligible(a)' = Eligible(a)
      BY <1>1, <3>1, SameEligible
    <3> QED
      BY <1>1, <2>0, <3>2
  <2> QED
    BY <1>1, <2>1, <2>2, <2>3
<1>5. PfcFramesAlternate'
  <2>1. UNCHANGED <<queue, told, paused>>
    BY <1>1 DEF mmuVars
  <2>2. PfcFramesAlternate' = PfcFramesAlternate
    BY <2>1 DEF PfcFramesAlternate, Alternate, Frames, Said
  <2> QED
    BY <1>a, <2>2
<1> QED
  BY <1>1, <1>3, <1>4, <1>5, QuietKept

LEMMA StutterKept ==
    ASSUME IInv, UNCHANGED vars
    PROVE  Kept
<1>1. /\ UNCHANGED <<mmuVars, queue, m_rrlast, busy, told, m_paused, todo>>
      /\ UNCHANGED paused
  BY DEF vars, portVars, mmuVars
<1>2. PortsOK'
  BY <1>1 DEF IInv, PortsOK
<1>3. Awake'
  <2> SUFFICES ASSUME NEW a \in Port
               PROVE  busy'[a] \/ Eligible(a)' = {} \/ Called(a, todo')
    BY DEF Awake, Called
  <2>1. Eligible(a)' = Eligible(a)
    BY <1>1, SameEligible
  <2> QED
    BY <1>1, <2>1, AwakeIs DEF IInv
<1>4. PfcFramesAlternate'
  <2>1. PfcFramesAlternate' = PfcFramesAlternate
    BY <1>1 DEF PfcFramesAlternate, Alternate, Frames, Said
  <2> QED
    BY <2>1 DEF IInv
<1> QED
  BY <1>1, <1>2, <1>3, <1>4, QuietKept

LEMMA StepKept ==
    ASSUME IInv, [Next]_vars
    PROVE  Kept
<1>1. CASE UNCHANGED vars
  BY <1>1, StutterKept
<1>2. CASE SwitchReceiveFromDevice
  <2>1. PICK r \in Route, q \in Queue, s \in PSize :
            /\ todo = <<>>
            /\ Refuse(r[1], q, s) \/ Admit(r[1], r[2], q, s)
    BY <1>2 DEF SwitchReceiveFromDevice
  <2>2. r[1] \in Port /\ r[2] \in Port
    BY SwitchAssumption
  <2>3. CASE Refuse(r[1], q, s)
    BY <2>3, StutterKept DEF Refuse
  <2>4. CASE Admit(r[1], r[2], q, s)
    BY <2>1, <2>2, <2>4, AdmitKept
  <2> QED
    BY <2>1, <2>3, <2>4
<1>3. CASE ReceiveHighPriority
  BY <1>3, HighKept
<1>4. CASE DequeueAndTransmit
  BY <1>4, NothingKept, TransmitHighKept, TransmitDataKept DEF DequeueAndTransmit
<1>5. CASE \E o \in Port : TransmitComplete(o)
  BY <1>5, CompleteKept
<1>6. CASE \E o \in PausePort, q \in Queue : ReceivePause(o, q) \/ Resume(o, q)
  BY <1>6, SwitchConstants, PausedKept
<1> QED
  BY <1>1, <1>2, <1>3, <1>4, <1>5, <1>6 DEF Next

LEMMA EmptyMatches ==
    ASSUME \A p \in Port, q \in Queue : queue[p][q] = <<>>,
           \A p \in Port, q \in Queue : ingress_bytes[p][q] = 0 /\ egress_bytes[p][q] = 0,
           shared_used_bytes = 0
    PROVE  CountersMatchBuffer
<1>1. ASSUME NEW S, NEW f, f = [a \in S |-> 0]
      PROVE  Total(f) = 0
  <2>1. f \in [S -> Nat] /\ \A a \in S : f[a] = 0
    BY <1>1
  <2> QED
    BY <2>1, TotalZero
<1>2. ASSUME NEW i \in Port, NEW q \in Queue
      PROVE  Total([o \in Port |-> BytesFrom(i, queue[o][q])]) = 0
  <2>1. [o \in Port |-> BytesFrom(i, queue[o][q])] = [o \in Port |-> 0]
    BY BytesFromEmpty
  <2> QED
    BY <1>1, <2>1
<1>3. ASSUME NEW o \in Port, NEW q \in Queue
      PROVE  Total([i \in Port |-> BytesFrom(i, queue[o][q])]) = 0
  <2>1. [i \in Port |-> BytesFrom(i, queue[o][q])] = [i \in Port |-> 0]
    BY BytesFromEmpty
  <2> QED
    BY <1>1, <2>1
<1>4. Total([x \in Port \X Queue |-> Mmu!GetSharedUsed(ingress_bytes[x[1]][x[2]])]) = 0
  <2>1. reserve \in Nat
    BY ShareOfBuffer
  <2>2. Mmu!GetSharedUsed(0) = 0
    BY <2>1 DEF Mmu!GetSharedUsed
  <2>3. [x \in Port \X Queue |-> Mmu!GetSharedUsed(ingress_bytes[x[1]][x[2]])]
          = [x \in Port \X Queue |-> 0]
    BY <2>2
  <2> QED
    BY <1>1, <2>3
<1> QED
  BY <1>2, <1>3, <1>4 DEF CountersMatchBuffer

LEMMA InitKept == Init => IInv
<1> SUFFICES ASSUME Init PROVE IInv
  OBVIOUS
<1>1. /\ queue = [p \in Port |-> [q \in QIndex |-> <<>>]]
      /\ m_rrlast = [p \in Port |-> 0]
      /\ m_paused = [p \in Port |-> [q \in QIndex |-> FALSE]]
      /\ busy = [p \in Port |-> FALSE]
      /\ todo = <<>>
      /\ told = [p \in Port |-> [q \in Queue |-> FALSE]]
  BY DEF Init
<1>2. /\ ingress_bytes = [p \in Port |-> [q \in Queue |-> 0]]
      /\ egress_bytes = [p \in Port |-> [q \in Queue |-> 0]]
      /\ shared_used_bytes = 0
      /\ paused = [p \in Port |-> [q \in Queue |-> FALSE]]
  BY DEF Init, Mmu!Init
<1>3. PortsOK
  BY <1>1, SwitchConstants DEF PortsOK
<1>4. MmuP!IInv
  BY MmuAssumed, SameInit, MmuP!InitIInv DEF Init
<1>5. CountersMatchBuffer
  <2>1. Queue \subseteq QIndex
    BY SwitchConstants
  <2> QED
    BY <1>1, <1>2, <2>1, EmptyMatches
<1>6. Awake
  BY <1>1 DEF Awake, Eligible
<1>7. PfcFramesAlternate
  <2> SUFFICES ASSUME NEW i \in Port, NEW q \in Queue
               PROVE  Alternate(queue[i][0], q, told[i][q], paused[i][q])
    BY DEF PfcFramesAlternate
  <2>1. queue[i][0] = <<>> /\ ~told[i][q] /\ ~paused[i][q]
    BY <1>1, <1>2, SwitchConstants
  <2>2. told[i][q] = FALSE /\ paused[i][q] = FALSE
    BY <1>1, <1>2
  <2>3. Frames(<<>>, q) = {0}
    BY DEF Frames
  <2>4. ~(0 < 0) /\ Said(<<>>, FALSE, 0) = FALSE
    BY DEF Said
  <2>5. Alternate(<<>>, q, FALSE, FALSE)
    BY <2>3, <2>4 DEF Alternate
  <2> QED
    BY <2>1, <2>2, <2>5
<1> QED
  BY <1>3, <1>4, <1>5, <1>6, <1>7 DEF IInv

-----------------------------------------------------------------------------
(* The theorems. *)

LEMMA InvariantHolds == Spec => []IInv
<1>1. Init => IInv
  BY InitKept
<1>2. IInv /\ [Next]_vars => IInv'
  BY StepKept DEF Kept
<1> QED
  BY <1>1, <1>2, PTL DEF Spec

(***************************************************************************)
(* Every variable has its type: PFC frames only wait in queue 0, data only *)
(* in the queues that pass admission, and no counter leaves its word.      *)
(***************************************************************************)
THEOREM SwitchTypeCorrect == Spec => []TypeOK
<1>1. IInv => TypeOK
  BY SameInit DEF IInv, PortsOK, TypeOK, MmuP!IInv
<1> QED
  BY <1>1, InvariantHolds, PTL

(***************************************************************************)
(* ingress_bytes, egress_bytes and shared_used_bytes say what is in the    *)
(* buffer, in every state between two calls of DequeueAndTransmit too: no  *)
(* packet is charged twice, forgotten or credited to another port.         *)
(***************************************************************************)
THEOREM CountersMatch == Spec => []CountersMatchBuffer
<1>1. IInv => CountersMatchBuffer
  BY DEF IInv
<1> QED
  BY <1>1, InvariantHolds, PTL

(***************************************************************************)
(* The packets of one lossless priority fit in the buffer, with the shares *)
(* that ConfigNPort computes, whatever the number of ports.                *)
(***************************************************************************)
THEOREM BufferFits == Spec => []BufferNotOvercommitted
<1>1. ASSUME IInv, NEW q \in Queue
      PROVE  Total([p \in Port |-> ingress_bytes[p][q]]) <= buffer_size
  <2> DEFINE f == [p \in Port |-> ingress_bytes[p][q]]
  <2>1. /\ f \in [Port -> Nat]
        /\ \A p \in Port : f[p] <= reserve + shared_bytes + headroom[p]
    BY <1>1, MmuQueue DEF IInv
  <2> HIDE DEF f
  <2>2. Total(f) <= buffer_size
    BY <2>1, SharesFit
  <2> QED
    BY <2>2 DEF f
<1>2. IInv => BufferNotOvercommitted
  BY <1>1 DEF BufferNotOvercommitted
<1> QED
  BY <1>2, InvariantHolds, PTL

(***************************************************************************)
(* No wake-up is lost: between two events, an idle port of the switch has  *)
(* no packet that it may send.                                             *)
(***************************************************************************)
THEOREM NoLostWakeUp == Spec => []WorkConserving
<1>1. IInv => WorkConserving
  BY DEF IInv, Awake, WorkConserving
<1> QED
  BY <1>1, InvariantHolds, PTL

(***************************************************************************)
(* The PFC frames of a queue alternate and the last one says what the flag *)
(* says, however many wait behind one another in queue 0.                  *)
(***************************************************************************)
THEOREM PfcFramesTellTruth == Spec => []PfcFramesAlternate
<1>1. IInv => PfcFramesAlternate
  BY DEF IInv
<1> QED
  BY <1>1, InvariantHolds, PTL

(***************************************************************************)
(* The switch implements its memory management unit: no handler, and no    *)
(* call nested in one, charges or credits but by a step of SwitchMmu.      *)
(***************************************************************************)
THEOREM SwitchImplementsMmu == Spec => ImplementsMmu
<1>1. Init => Mmu!Init
  BY DEF Init
<1>2. IInv /\ [Next]_vars => [Mmu!Next]_(Mmu!mmuVars)
  <2>1. mmuVars = Mmu!mmuVars /\ (UNCHANGED mmuVars => UNCHANGED Mmu!mmuVars)
    BY DEF mmuVars, Mmu!mmuVars
  <2> QED
    BY <2>1, StepKept DEF Kept
<1> QED
  BY <1>1, <1>2, InvariantHolds, PTL DEF Spec, ImplementsMmu, Mmu!Spec
=============================================================================
