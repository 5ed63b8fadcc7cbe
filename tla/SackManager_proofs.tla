------------------------- MODULE SackManager_proofs -------------------------
(***************************************************************************)
(* Proofs about SackManager, for lists and flows of any length.            *)
(*                                                                         *)
(* What sack() computes is shown by induction over the blocks.  The        *)
(* induction is on the set of the indices up to which a loop invariant     *)
(* holds (Reaches): were one missing, there would be a smallest one        *)
(* (Smallest).  By the same induction the recursive functions Walked and   *)
(* Merged satisfy their equations (WalkedIs, MergedIs).                    *)
(***************************************************************************)
EXTENDS SackManager, WellFoundedInduction, TLAPS

\* A block of the list: a pair of the first byte and the one after the last.

Block == {b \in Nat \X Nat : b[1] < b[2]}

\* In order, without overlap: what the loop that inserts leaves behind.
Sorted(bs) == \A i, j \in DOMAIN bs : i < j => bs[i][2] <= bs[j][1]

\* With a gap between any two: what the loop that merges leaves behind.
Apart(bs) == \A i, j \in DOMAIN bs : i < j => bs[i][2] < bs[j][1]

\* Byte x is in block b; in some block of bs; no block of bs ends after e.
In(b, x) == b[1] <= x /\ x < b[2]

Covers(bs, x) == \E i \in DOMAIN bs : In(bs[i], x)

EndBy(bs, e) == \A i \in DOMAIN bs : bs[i][2] <= e
-----------------------------------------------------------------------------
(* Induction.                                                              *)

\* A set of naturals has a smallest element.
LEMMA Smallest ==
    ASSUME NEW T \in SUBSET Nat, T # {}
    PROVE  \E m \in T : \A k \in T : m <= k
<1> DEFINE R == {ss \in Nat \X Nat : ss[1] < ss[2]}
<1>1. IsWellFoundedOn(R, Nat)
  BY NatLessThanWellFounded DEF OpToRel
<1>2. \E m \in T : \A k \in T : ~ (<<k, m>> \in R)
  <2> HIDE DEF R
  <2> QED
    BY <1>1, WFMin
<1>3. ASSUME NEW m \in T, NEW k \in T, ~ (<<k, m>> \in R)
      PROVE  m <= k
  <2>1. <<k, m>> \in Nat \X Nat /\ m \in Nat /\ k \in Nat
    OBVIOUS
  <2>2. ~ (k < m)
    BY <1>3, <2>1
  <2> QED
    BY <2>1, <2>2
<1> HIDE DEF R
<1> QED
  BY <1>2, <1>3

\* A set that holds 0, and with each i below n the next, holds all up to n.
LEMMA Reaches ==
    ASSUME NEW n \in Nat, NEW T, 0 \in T,
           \A i \in 0 .. (n - 1) : i \in T => i + 1 \in T
    PROVE  \A i \in 0 .. n : i \in T
<1> DEFINE bad == {i \in 0 .. n : i \notin T}
<1>1. SUFFICES ASSUME bad # {} PROVE FALSE
  OBVIOUS
<1>2. bad \in SUBSET Nat
  OBVIOUS
<1>3. PICK m \in bad : \A k \in bad : m <= k
  <2> HIDE DEF bad
  <2> QED
    BY <1>1, <1>2, Smallest
<1>4. m # 0 /\ m \in 0 .. n /\ m \notin T
  OBVIOUS
<1>5. m - 1 \in 0 .. (n - 1) /\ m - 1 \in 0 .. n
  BY <1>4
<1>6. m - 1 \in T
  BY <1>3, <1>4, <1>5
<1>7. (m - 1) + 1 = m
  BY <1>4
<1> QED
  BY <1>4, <1>5, <1>6, <1>7

\* Walked satisfies its recursive equation: there is a function that does, by
\* induction on how far it reaches.
LEMMA WalkedIs ==
    ASSUME NEW seq, NEW end, NEW blocks, Len(blocks) \in Nat
    PROVE  LET w == Walked(seq, end, blocks)
           IN  /\ w[0] = [list |-> <<>>, seq |-> seq, end |-> end]
               /\ \A i \in 1 .. Len(blocks) : w[i] = Walk(w[i - 1], blocks[i])
<1> DEFINE n == Len(blocks)
           start == [list |-> <<>>, seq |-> seq, end |-> end]
           Is(f, k) == f = [i \in 0 .. k |-> IF i = 0 THEN start
                                             ELSE Walk(f[i - 1], blocks[i])]
           T == {k \in 0 .. n : \E f : Is(f, k)}
<1>1. 0 \in T
  <2>1. Is([i \in 0 .. 0 |-> start], 0)
    OBVIOUS
  <2>2. 0 \in 0 .. n
    OBVIOUS
  <2> HIDE DEF Is
  <2> QED
    BY <2>1, <2>2
<1>2. ASSUME NEW k \in 0 .. (n - 1), k \in T
      PROVE  k + 1 \in T
  <2>1. PICK f : Is(f, k)
    BY <1>2
  <2> DEFINE g == [i \in 0 .. (k + 1) |-> IF i <= k THEN f[i]
                                          ELSE Walk(f[k], blocks[k + 1])]
  <2>2. ASSUME NEW i \in 0 .. (k + 1)
        PROVE  g[i] = IF i = 0 THEN start ELSE Walk(g[i - 1], blocks[i])
    <3>1. CASE i = 0
      BY <2>1, <3>1
    <3>2. CASE i \in 1 .. k
      <4>1. i - 1 \in 0 .. (k + 1) /\ i - 1 <= k /\ i <= k /\ i # 0 /\ i \in 0 .. k
        BY <3>2
      <4>2. g[i] = f[i] /\ g[i - 1] = f[i - 1]
        BY <4>1
      <4>3. f[i] = Walk(f[i - 1], blocks[i])
        BY <2>1, <4>1
      <4> QED
        BY <4>1, <4>2, <4>3
    <3>3. CASE i = k + 1
      <4>1. g[i] = Walk(f[k], blocks[k + 1]) /\ i - 1 = k /\ i # 0
        BY <3>3
      <4>2. g[k] = f[k]
        OBVIOUS
      <4> QED
        BY <3>3, <4>1, <4>2
    <3> QED
      BY <3>1, <3>2, <3>3
  <2>3. Is(g, k + 1)
    <3>1. g = [i \in 0 .. (k + 1) |-> g[i]]
      OBVIOUS
    <3> HIDE DEF g
    <3> QED
      BY <2>2, <3>1
  <2>4. k + 1 \in 0 .. n
    OBVIOUS
  <2> QED
    BY <2>3, <2>4
<1>3. n \in T
  <2>1. n \in Nat /\ n \in 0 .. n
    OBVIOUS
  <2> HIDE DEF T, n
  <2> QED
    BY <1>1, <1>2, <2>1, Reaches
<1>4. \E f : Is(f, n)
  BY <1>3
<1>5. Is(Walked(seq, end, blocks), n)
  BY <1>4 DEF Walked
<1> QED
  BY <1>5

\* So does Merged.
LEMMA MergedIs ==
    ASSUME NEW blocks, Len(blocks) \in Nat
    PROVE  LET m == Merged(blocks)
           IN  /\ m[0] = <<>>
               /\ \A i \in 1 .. Len(blocks) : m[i] = Merge(m[i - 1], blocks[i])
<1> DEFINE n == Len(blocks)
           start == <<>>
           Is(f, k) == f = [i \in 0 .. k |-> IF i = 0 THEN start
                                             ELSE Merge(f[i - 1], blocks[i])]
           T == {k \in 0 .. n : \E f : Is(f, k)}
<1>1. 0 \in T
  <2>1. Is([i \in 0 .. 0 |-> start], 0)
    OBVIOUS
  <2>2. 0 \in 0 .. n
    OBVIOUS
  <2> HIDE DEF Is
  <2> QED
    BY <2>1, <2>2
<1>2. ASSUME NEW k \in 0 .. (n - 1), k \in T
      PROVE  k + 1 \in T
  <2>1. PICK f : Is(f, k)
    BY <1>2
  <2> DEFINE g == [i \in 0 .. (k + 1) |-> IF i <= k THEN f[i]
                                          ELSE Merge(f[k], blocks[k + 1])]
  <2>2. ASSUME NEW i \in 0 .. (k + 1)
        PROVE  g[i] = IF i = 0 THEN start ELSE Merge(g[i - 1], blocks[i])
    <3>1. CASE i = 0
      BY <2>1, <3>1
    <3>2. CASE i \in 1 .. k
      <4>1. i - 1 \in 0 .. (k + 1) /\ i - 1 <= k /\ i <= k /\ i # 0 /\ i \in 0 .. k
        BY <3>2
      <4>2. g[i] = f[i] /\ g[i - 1] = f[i - 1]
        BY <4>1
      <4>3. f[i] = Merge(f[i - 1], blocks[i])
        BY <2>1, <4>1
      <4> QED
        BY <4>1, <4>2, <4>3
    <3>3. CASE i = k + 1
      <4>1. g[i] = Merge(f[k], blocks[k + 1]) /\ i - 1 = k /\ i # 0
        BY <3>3
      <4>2. g[k] = f[k]
        OBVIOUS
      <4> QED
        BY <3>3, <4>1, <4>2
    <3> QED
      BY <3>1, <3>2, <3>3
  <2>3. Is(g, k + 1)
    <3>1. g = [i \in 0 .. (k + 1) |-> g[i]]
      OBVIOUS
    <3> HIDE DEF g
    <3> QED
      BY <2>2, <3>1
  <2>4. k + 1 \in 0 .. n
    OBVIOUS
  <2> QED
    BY <2>3, <2>4
<1>3. n \in T
  <2>1. n \in Nat /\ n \in 0 .. n
    OBVIOUS
  <2> HIDE DEF T, n
  <2> QED
    BY <1>1, <1>2, <2>1, Reaches
<1>4. \E f : Is(f, n)
  BY <1>3
<1>5. Is(Merged(blocks), n)
  BY <1>4 DEF Merged
<1> QED
  BY <1>5
-----------------------------------------------------------------------------
(* The loop that inserts.                                                  *)

\* A block that begins where all others have ended may follow them.
LEMMA AppendBlock ==
    ASSUME NEW bs \in Seq(Block), NEW b \in Block, Sorted(bs), EndBy(bs, b[1])
    PROVE  /\ Append(bs, b) \in Seq(Block)
           /\ Sorted(Append(bs, b))
           /\ EndBy(Append(bs, b), b[2])
           /\ \A x \in Nat : Covers(Append(bs, b), x) <=> Covers(bs, x) \/ In(b, x)
<1> DEFINE cs == Append(bs, b)
           n == Len(bs)
<1>1. /\ cs \in Seq(Block) /\ DOMAIN cs = 1 .. (n + 1) /\ n \in Nat
      /\ DOMAIN bs = 1 .. n
      /\ cs[n + 1] = b /\ \A i \in 1 .. n : cs[i] = bs[i]
      /\ b[1] \in Nat /\ b[2] \in Nat /\ b[1] < b[2]
      /\ \A i \in 1 .. n : bs[i][1] \in Nat /\ bs[i][2] \in Nat /\ bs[i][1] < bs[i][2]
  BY DEF Block
<1> HIDE DEF cs, n
<1>2. ASSUME NEW i \in DOMAIN cs, NEW j \in DOMAIN cs, i < j
      PROVE  cs[i][2] <= cs[j][1]
  <2>1. i \in 1 .. n
    BY <1>1, <1>2
  <2>2. CASE j = n + 1
    BY <1>1, <2>1, <2>2 DEF EndBy
  <2>3. CASE j \in 1 .. n
    BY <1>1, <1>2, <2>1, <2>3 DEF Sorted
  <2> QED
    BY <1>1, <2>2, <2>3
<1>3. ASSUME NEW i \in DOMAIN cs
      PROVE  cs[i][2] <= b[2]
  <2>1. CASE i = n + 1
    BY <1>1, <2>1
  <2>2. CASE i \in 1 .. n
    BY <1>1, <2>2 DEF EndBy
  <2> QED
    BY <1>1, <2>1, <2>2
<1>4. ASSUME NEW x \in Nat
      PROVE  Covers(cs, x) <=> Covers(bs, x) \/ In(b, x)
  <2>1. ASSUME NEW i \in DOMAIN cs, In(cs[i], x)
        PROVE  Covers(bs, x) \/ In(b, x)
    <3>1. CASE i = n + 1
      BY <1>1, <2>1, <3>1
    <3>2. CASE i \in 1 .. n
      BY <1>1, <2>1, <3>2 DEF Covers
    <3> QED
      BY <1>1, <3>1, <3>2
  <2>2. ASSUME NEW i \in DOMAIN bs, In(bs[i], x)
        PROVE  Covers(cs, x)
    <3>1. i \in DOMAIN cs /\ cs[i] = bs[i]
      BY <1>1
    <3> QED
      BY <2>2, <3>1 DEF Covers
  <2>3. ASSUME In(b, x) PROVE Covers(cs, x)
    <3>1. n + 1 \in DOMAIN cs
      BY <1>1
    <3> QED
      BY <1>1, <2>3, <3>1 DEF Covers
  <2> QED
    BY <2>1, <2>2, <2>3 DEF Covers
<1> QED
  BY <1>1, <1>2, <1>3, <1>4 DEF Sorted, EndBy, cs

\* What the walk may be in, and the bytes s .. e - 1.
State == [list : Seq(Block), seq : Nat, end : Nat]

Within(s, e, x) == s <= x /\ x < e

\* What one step of the walk does: it passes b, or puts a block in front of it.
Passes(w, b, v, s) ==
    /\ v = [list |-> Append(w.list, b), seq |-> s, end |-> w.end]
    /\ w.seq <= s /\ (s < w.end => b[2] <= s)
    /\ \A x \in Nat : Within(w.seq, w.end, x) \/ In(b, x) <=> Within(s, w.end, x) \/ In(b, x)

Inserts(w, b, v, s, c) ==
    /\ v = [list |-> Append(Append(w.list, <<w.seq, c>>), b), seq |-> s, end |-> w.end]
    /\ Left(w) /\ w.seq < c /\ c <= b[1]
    /\ w.seq <= s /\ (s < w.end => b[2] <= s)
    /\ \A x \in Nat : Within(w.seq, w.end, x) \/ In(b, x)
                        <=> Within(s, w.end, x) \/ In(b, x) \/ Within(w.seq, c, x)

Effect(w, b, v) ==
    \/ \E s \in Nat : Passes(w, b, v, s)
    \/ \E s \in Nat, c \in Nat : Inserts(w, b, v, s, c)

\* Pass appends, one block or two.
LEMMA PassOne ==
    ASSUME NEW w \in State, NEW b \in Block, NEW s
    PROVE  Pass(w, <<b>>, s) = [list |-> Append(w.list, b), seq |-> s, end |-> w.end]
<1> SUFFICES w.list \o <<b>> = Append(w.list, b)
  BY DEF Pass
<1> QED
  BY DEF State

LEMMA PassTwo ==
    ASSUME NEW w \in State, NEW b, NEW c, NEW s
    PROVE  Pass(w, <<c, b>>, s)
              = [list |-> Append(Append(w.list, c), b), seq |-> s, end |-> w.end]
<1> SUFFICES w.list \o <<c, b>> = Append(Append(w.list, c), b)
  BY DEF Pass
<1> QED
  BY DEF State

\* The branches of the loop cover every way in which what is inserted may lie to
\* a block, and each does one of the two.
LEMMA WalkEffect ==
    ASSUME NEW w \in State, NEW b \in Block
    PROVE  Effect(w, b, Walk(w, b))
<1>1. /\ w.seq \in Nat /\ w.end \in Nat /\ b[1] \in Nat /\ b[2] \in Nat /\ b[1] < b[2]
  BY DEF State, Block
<1>2. CASE ~Left(w)
  <2>1. Walk(w, b) = Pass(w, <<b>>, w.seq)
    BY <1>2 DEF Walk
  <2>2. Passes(w, b, Walk(w, b), w.seq)
    BY <1>1, <1>2, <2>1, PassOne DEF Passes, Left, Within, In
  <2> QED
    BY <1>1, <2>2 DEF Effect
<1>3. CASE Left(w) /\ b[1] <= w.seq /\ w.end <= b[2]
  <2>1. Walk(w, b) = Pass(w, <<b>>, w.end)
    BY <1>1, <1>3 DEF Walk, Left
  <2>2. Passes(w, b, Walk(w, b), w.end)
    BY <1>1, <1>3, <2>1, PassOne DEF Passes, Left, Within, In
  <2> QED
    BY <1>1, <2>2 DEF Effect
<1>4. CASE Left(w) /\ w.seq < b[1] /\ b[2] < w.end
  <2>1. Walk(w, b) = Pass(w, <<<<w.seq, b[1]>>, b>>, b[2])
    BY <1>1, <1>4 DEF Walk, Left
  <2>2. Walk(w, b) = [list |-> Append(Append(w.list, <<w.seq, b[1]>>), b),
                      seq |-> b[2], end |-> w.end]
    BY <2>1, PassTwo
  <2>3. \A x \in Nat : Within(w.seq, w.end, x) \/ In(b, x)
            <=> Within(b[2], w.end, x) \/ In(b, x) \/ Within(w.seq, b[1], x)
    BY <1>1, <1>4 DEF Left, Within, In
  <2>4. w.seq < b[1] /\ b[1] <= b[1] /\ w.seq <= b[2] /\ b[2] <= b[2]
    BY <1>1, <1>4
  <2>5. Inserts(w, b, Walk(w, b), b[2], b[1])
    BY <1>4, <2>2, <2>3, <2>4 DEF Inserts
  <2> QED
    BY <1>1, <2>5 DEF Effect
<1>5. CASE Left(w) /\ w.end <= b[1]
  <2>1. Walk(w, b) = Pass(w, <<<<w.seq, w.end>>, b>>, w.end)
    BY <1>1, <1>5 DEF Walk, Left
  <2>2. Walk(w, b) = [list |-> Append(Append(w.list, <<w.seq, w.end>>), b),
                      seq |-> w.end, end |-> w.end]
    BY <2>1, PassTwo
  <2>3. \A x \in Nat : Within(w.seq, w.end, x) \/ In(b, x)
            <=> Within(w.end, w.end, x) \/ In(b, x) \/ Within(w.seq, w.end, x)
    BY <1>1, <1>5 DEF Left, Within, In
  <2>4. Left(w) /\ w.seq < w.end /\ w.seq <= w.end /\ ~(w.end < w.end)
    BY <1>1, <1>5 DEF Left
  <2>5. Inserts(w, b, Walk(w, b), w.end, w.end)
    BY <1>5, <2>2, <2>3, <2>4 DEF Inserts
  <2> QED
    BY <1>1, <2>5 DEF Effect
<1>6. CASE Left(w) /\ b[1] <= w.seq /\ w.seq <= b[2] /\ b[2] < w.end
  <2>1. Walk(w, b) = Pass(w, <<b>>, b[2])
    BY <1>1, <1>6 DEF Walk, Left
  <2>2. Passes(w, b, Walk(w, b), b[2])
    BY <1>1, <1>6, <2>1, PassOne DEF Passes, Left, Within, In
  <2> QED
    BY <1>1, <2>2 DEF Effect
<1>7. CASE Left(w) /\ w.seq < b[1] /\ b[1] < w.end /\ w.end <= b[2]
  <2>1. Walk(w, b) = Pass(w, <<<<w.seq, b[1]>>, b>>, w.end)
    BY <1>1, <1>7 DEF Walk, Left
  <2>2. Walk(w, b) = [list |-> Append(Append(w.list, <<w.seq, b[1]>>), b),
                      seq |-> w.end, end |-> w.end]
    BY <2>1, PassTwo
  <2>3. \A x \in Nat : Within(w.seq, w.end, x) \/ In(b, x)
            <=> Within(w.end, w.end, x) \/ In(b, x) \/ Within(w.seq, b[1], x)
    BY <1>1, <1>7 DEF Left, Within, In
  <2>4. Left(w) /\ b[1] <= b[1] /\ w.seq <= w.end /\ ~(w.end < w.end)
    BY <1>1, <1>7 DEF Left
  <2>5. Inserts(w, b, Walk(w, b), w.end, b[1])
    BY <1>7, <2>2, <2>3, <2>4 DEF Inserts
  <2> QED
    BY <1>1, <2>5 DEF Effect
<1>8. CASE Left(w) /\ b[2] < w.seq
  <2>1. Walk(w, b) = Pass(w, <<b>>, w.seq)
    BY <1>1, <1>8 DEF Walk, Left
  <2>2. Passes(w, b, Walk(w, b), w.seq)
    BY <1>1, <1>8, <2>1, PassOne DEF Passes, Left, Within, In
  <2> QED
    BY <1>1, <2>2 DEF Effect
<1> QED
  BY <1>1, <1>2, <1>3, <1>4, <1>5, <1>6, <1>7, <1>8 DEF Left

\* The bytes of the first i blocks.
First(blocks, i, x) == \E j \in 1 .. i : In(blocks[j], x)

\* The invariant of the loop: the list so far and what is left to insert make up
\* the first i blocks and what was to be inserted, and what is left begins after them.
WalkInv(w, i, seq, end, blocks) ==
    /\ w \in State /\ w.end = end
    /\ Sorted(w.list)
    /\ IF i = 0 THEN w.list = <<>> ELSE EndBy(w.list, blocks[i][2])
    /\ Left(w) /\ i # 0 => blocks[i][2] <= w.seq
    /\ \A x \in Nat : Covers(w.list, x) \/ Within(w.seq, end, x)
                        <=> First(blocks, i, x) \/ Within(seq, end, x)

\* One block more.
LEMMA FirstNext ==
    ASSUME NEW blocks, NEW i \in Nat, NEW x
    PROVE  First(blocks, i + 1, x) <=> First(blocks, i, x) \/ In(blocks[i + 1], x)
<1>1. 1 .. (i + 1) = (1 .. i) \cup {i + 1}
  OBVIOUS
<1> QED
  BY <1>1 DEF First

\* The next block keeps the invariant.
LEMMA WalkKeeps ==
    ASSUME NEW seq \in Nat, NEW end \in Nat, NEW blocks \in Seq(Block), Sorted(blocks),
           NEW i \in 0 .. (Len(blocks) - 1),
           NEW w, WalkInv(w, i, seq, end, blocks)
    PROVE  WalkInv(Walk(w, blocks[i + 1]), i + 1, seq, end, blocks)
<1> DEFINE b == blocks[i + 1]
           v == Walk(w, b)
<1>1. /\ i \in Nat /\ i + 1 \in DOMAIN blocks /\ b \in Block /\ b[1] \in Nat /\ b[2] \in Nat
      /\ b[1] < b[2] /\ i + 1 # 0
      /\ i # 0 => i \in DOMAIN blocks /\ blocks[i][2] \in Nat /\ blocks[i][2] <= b[1]
  <2>1. i \in Nat /\ i + 1 \in DOMAIN blocks /\ b \in Block
    OBVIOUS
  <2>2. ASSUME i # 0
        PROVE  i \in DOMAIN blocks /\ blocks[i][2] \in Nat /\ blocks[i][2] <= b[1]
    <3>1. i \in DOMAIN blocks /\ i < i + 1
      BY <2>2
    <3> QED
      BY <2>1, <3>1 DEF Sorted, Block
  <2> QED
    BY <2>1, <2>2 DEF Block
<1>2. w \in State /\ w.list \in Seq(Block) /\ w.seq \in Nat /\ w.end = end
  BY DEF WalkInv, State
<1>3. Effect(w, b, v)
  <2> HIDE DEF b
  <2> QED
    BY <1>1, <1>2, WalkEffect
<1>4. \A k \in DOMAIN w.list : w.list[k][2] \in Nat
  BY <1>2 DEF Block
<1>5. Sorted(w.list) /\ EndBy(w.list, b[1])
  <2>1. CASE i = 0
    BY <2>1 DEF WalkInv, EndBy
  <2>2. CASE i # 0
    <3>1. EndBy(w.list, blocks[i][2]) /\ blocks[i][2] <= b[1] /\ blocks[i][2] \in Nat
      BY <1>1, <2>2 DEF WalkInv
    <3> HIDE DEF b
    <3> QED
      BY <1>1, <1>4, <3>1 DEF EndBy, WalkInv
  <2> QED
    BY <2>1, <2>2
<1>6. ASSUME Left(w) PROVE EndBy(w.list, w.seq)
  <2>1. CASE i = 0
    BY <2>1 DEF WalkInv, EndBy
  <2>2. CASE i # 0
    <3>1. EndBy(w.list, blocks[i][2]) /\ blocks[i][2] <= w.seq /\ blocks[i][2] \in Nat
      BY <1>1, <1>6, <2>2 DEF WalkInv
    <3> QED
      BY <1>2, <1>4, <3>1 DEF EndBy
  <2> QED
    BY <2>1, <2>2
<1>7. \A x \in Nat : Covers(w.list, x) \/ Within(w.seq, end, x)
                     <=> First(blocks, i, x) \/ Within(seq, end, x)
  BY DEF WalkInv
<1>8. \A x : First(blocks, i + 1, x) <=> First(blocks, i, x) \/ In(b, x)
  BY <1>1, FirstNext
<1> HIDE DEF b, v
<1>9. ASSUME NEW s \in Nat, Passes(w, b, v, s)
      PROVE  WalkInv(v, i + 1, seq, end, blocks)
  <2> DEFINE list == Append(w.list, b)
  <2>1. /\ v = [list |-> list, seq |-> s, end |-> end]
        /\ s < end => b[2] <= s
        /\ \A x \in Nat : Within(w.seq, end, x) \/ In(b, x) <=> Within(s, end, x) \/ In(b, x)
    BY <1>2, <1>9 DEF Passes
  <2>2. /\ list \in Seq(Block) /\ Sorted(list) /\ EndBy(list, b[2])
        /\ \A x \in Nat : Covers(list, x) <=> Covers(w.list, x) \/ In(b, x)
    BY <1>1, <1>2, <1>5, AppendBlock
  <2> HIDE DEF list
  <2>3. v \in State /\ v.list = list /\ v.seq = s /\ v.end = end
    BY <2>1, <2>2 DEF State
  <2>4. \A x \in Nat : Covers(v.list, x) \/ Within(v.seq, end, x)
                       <=> First(blocks, i + 1, x) \/ Within(seq, end, x)
    BY <1>7, <1>8, <2>1, <2>2, <2>3
  <2>5. EndBy(v.list, blocks[i + 1][2]) /\ (Left(v) => blocks[i + 1][2] <= v.seq)
    BY <2>1, <2>2, <2>3 DEF Left, b
  <2> QED
    BY <1>1, <2>2, <2>3, <2>4, <2>5 DEF WalkInv
<1>10. ASSUME NEW s \in Nat, NEW c \in Nat, Inserts(w, b, v, s, c)
       PROVE  WalkInv(v, i + 1, seq, end, blocks)
  <2> DEFINE d == <<w.seq, c>>
             some == Append(w.list, d)
             list == Append(some, b)
  <2>1. /\ v = [list |-> list, seq |-> s, end |-> end]
        /\ Left(w) /\ w.seq < c /\ c <= b[1]
        /\ s < end => b[2] <= s
        /\ \A x \in Nat : Within(w.seq, end, x) \/ In(b, x)
                           <=> Within(s, end, x) \/ In(b, x) \/ Within(w.seq, c, x)
    BY <1>2, <1>10 DEF Inserts
  <2>2. d \in Block /\ d[1] = w.seq /\ d[2] = c
    BY <1>2, <2>1 DEF Block
  <2>3. \A x : In(d, x) <=> Within(w.seq, c, x)
    BY DEF In, Within
  <2> HIDE DEF d
  <2>4. /\ some \in Seq(Block) /\ Sorted(some) /\ EndBy(some, d[2])
        /\ \A x \in Nat : Covers(some, x) <=> Covers(w.list, x) \/ In(d, x)
    <3>1. EndBy(w.list, d[1]) /\ Sorted(w.list)
      BY <1>5, <1>6, <2>1, <2>2
    <3> QED
      BY <1>2, <2>2, <3>1, AppendBlock
  <2> HIDE DEF some
  <2>5. EndBy(some, b[1])
    <3>1. \A k \in DOMAIN some : some[k][2] \in Nat
      BY <2>4 DEF Block
    <3> QED
      BY <1>1, <2>1, <2>2, <2>4, <3>1 DEF EndBy
  <2>6. /\ list \in Seq(Block) /\ Sorted(list) /\ EndBy(list, b[2])
        /\ \A x \in Nat : Covers(list, x) <=> Covers(some, x) \/ In(b, x)
    BY <1>1, <2>4, <2>5, AppendBlock
  <2> HIDE DEF list
  <2>7. v \in State /\ v.list = list /\ v.seq = s /\ v.end = end
    BY <2>1, <2>6 DEF State
  <2>8. \A x \in Nat : Covers(v.list, x) \/ Within(v.seq, end, x)
                       <=> First(blocks, i + 1, x) \/ Within(seq, end, x)
    BY <1>7, <1>8, <2>1, <2>3, <2>4, <2>6, <2>7
  <2>9. EndBy(v.list, blocks[i + 1][2]) /\ (Left(v) => blocks[i + 1][2] <= v.seq)
    BY <2>1, <2>6, <2>7 DEF Left, b
  <2> QED
    BY <1>1, <2>6, <2>7, <2>8, <2>9 DEF WalkInv
<1>11. WalkInv(v, i + 1, seq, end, blocks)
  BY <1>3, <1>9, <1>10 DEF Effect
<1> QED
  BY <1>11 DEF v, b

\* A list with gaps is in order.
LEMMA ApartIsSorted ==
    ASSUME NEW blocks \in Seq(Block), Apart(blocks)
    PROVE  Sorted(blocks)
<1>1. \A i \in DOMAIN blocks : blocks[i][1] \in Nat /\ blocks[i][2] \in Nat
  BY DEF Block
<1> QED
  BY <1>1 DEF Apart, Sorted

\* All blocks are the first of them, up to the last.
LEMMA FirstAll ==
    ASSUME NEW blocks \in Seq(Block), NEW x
    PROVE  First(blocks, Len(blocks), x) <=> Covers(blocks, x)
  BY DEF First, Covers

\* The list after the loop that inserts: in order, without overlap, and with no
\* empty block, as the assertions of the next loop say; the block is in it.
LEMMA InsertedIs ==
    ASSUME NEW blocks \in Seq(Block), Sorted(blocks),
           NEW seq \in Nat, NEW end \in Nat, seq < end
    PROVE  /\ Inserted(seq, end, blocks) \in Seq(Block)
           /\ Sorted(Inserted(seq, end, blocks))
           /\ \A x \in Nat : Covers(Inserted(seq, end, blocks), x)
                              <=> Covers(blocks, x) \/ Within(seq, end, x)
<1> DEFINE n == Len(blocks)
           walk == Walked(seq, end, blocks)
           good == {i \in 0 .. n : WalkInv(walk[i], i, seq, end, blocks)}
           w == walk[n]
<1>1. n \in Nat
  OBVIOUS
<1>2. /\ walk[0] = [list |-> <<>>, seq |-> seq, end |-> end]
      /\ \A i \in 1 .. n : walk[i] = Walk(walk[i - 1], blocks[i])
  <2> HIDE DEF walk
  <2> QED
    BY <1>1, WalkedIs DEF walk
<1> HIDE DEF walk
<1>3. 0 \in good
  <2>1. walk[0] \in State
    BY <1>2 DEF State
  <2>2. /\ walk[0].list = <<>> /\ walk[0].seq = seq /\ walk[0].end = end
    BY <1>2
  <2>3. \A x : ~Covers(<<>>, x) /\ ~First(blocks, 0, x)
    BY DEF Covers, First
  <2>4. Sorted(<<>>)
    BY DEF Sorted
  <2>5. WalkInv(walk[0], 0, seq, end, blocks)
    BY <2>1, <2>2, <2>3, <2>4 DEF WalkInv
  <2> QED
    BY <1>1, <2>5
<1>4. ASSUME NEW i \in 0 .. (n - 1), i \in good
      PROVE  i + 1 \in good
  <2>1. WalkInv(Walk(walk[i], blocks[i + 1]), i + 1, seq, end, blocks)
    BY <1>4, WalkKeeps
  <2>2. i + 1 \in 1 .. n /\ (i + 1) - 1 = i /\ i + 1 \in 0 .. n
    BY <1>1
  <2>3. walk[i + 1] = Walk(walk[i], blocks[i + 1])
    BY <1>2, <2>2
  <2> QED
    BY <2>1, <2>2, <2>3
<1>5. WalkInv(w, n, seq, end, blocks)
  <2>1. n \in 0 .. n
    BY <1>1
  <2>2. n \in good
    <3> HIDE DEF good, n
    <3> QED
      BY <1>1, <1>3, <1>4, <2>1, Reaches
  <2> QED
    BY <2>2
<1>6. /\ w \in State /\ w.list \in Seq(Block) /\ w.seq \in Nat /\ w.end = end
      /\ Sorted(w.list)
      /\ \A x \in Nat : Covers(w.list, x) \/ Within(w.seq, end, x)
                         <=> Covers(blocks, x) \/ Within(seq, end, x)
  BY <1>5, FirstAll DEF WalkInv, State
<1>7. CASE Left(w)
  <2> DEFINE d == <<w.seq, w.end>>
  <2>1. Inserted(seq, end, blocks) = Append(w.list, d)
    BY <1>7 DEF Inserted, walk
  <2>2. d \in Block /\ d[1] = w.seq /\ \A x : In(d, x) <=> Within(w.seq, end, x)
    BY <1>6, <1>7 DEF Block, Left, In, Within
  <2>3. EndBy(w.list, w.seq)
    <3>1. CASE n = 0
      BY <1>5, <3>1 DEF WalkInv, EndBy
    <3>2. CASE n # 0
      <4>1. EndBy(w.list, blocks[n][2]) /\ blocks[n][2] <= w.seq
        BY <1>5, <1>7, <3>2 DEF WalkInv
      <4>2. blocks[n][2] \in Nat /\ \A k \in DOMAIN w.list : w.list[k][2] \in Nat
        BY <1>1, <1>6, <3>2 DEF Block
      <4> HIDE DEF w, n
      <4> QED
        BY <1>6, <4>1, <4>2 DEF EndBy
    <3> QED
      BY <3>1, <3>2
  <2> HIDE DEF d, w
  <2>4. /\ Append(w.list, d) \in Seq(Block) /\ Sorted(Append(w.list, d))
        /\ \A x \in Nat : Covers(Append(w.list, d), x) <=> Covers(w.list, x) \/ In(d, x)
    BY <1>6, <2>2, <2>3, AppendBlock
  <2> QED
    BY <1>6, <2>1, <2>2, <2>4
<1>8. CASE ~Left(w)
  <2>1. Inserted(seq, end, blocks) = w.list
    BY <1>8 DEF Inserted, walk
  <2>2. \A x \in Nat : ~Within(w.seq, end, x)
    BY <1>6, <1>8 DEF Left, Within
  <2> HIDE DEF w
  <2> QED
    BY <1>6, <2>1, <2>2
<1> QED
  BY <1>7, <1>8

-----------------------------------------------------------------------------
(* The loop that merges, and sack().                                       *)

\* Its invariant: the blocks so far have gaps, and end where the i-th ended.
MergeInv(m, i, blocks) ==
    /\ m \in Seq(Block) /\ Apart(m)
    /\ IF i = 0 THEN m = <<>> ELSE m # <<>> /\ m[Len(m)][2] = blocks[i][2]
    /\ \A x \in Nat : Covers(m, x) <=> First(blocks, i, x)

\* The next block keeps the invariant.
LEMMA MergeKeeps ==
    ASSUME NEW blocks \in Seq(Block), Sorted(blocks),
           NEW i \in 0 .. (Len(blocks) - 1),
           NEW m, MergeInv(m, i, blocks)
    PROVE  MergeInv(Merge(m, blocks[i + 1]), i + 1, blocks)
<1> DEFINE b == blocks[i + 1]
           v == Merge(m, b)
           n == Len(m)
<1>1. /\ i \in Nat /\ i + 1 \in DOMAIN blocks /\ b \in Block /\ b[1] \in Nat /\ b[2] \in Nat
      /\ b[1] < b[2] /\ i + 1 # 0
  <2>1. i \in Nat /\ i + 1 \in DOMAIN blocks /\ b \in Block
    OBVIOUS
  <2> QED
    BY <2>1 DEF Block
<1>2. /\ m \in Seq(Block) /\ n \in Nat /\ DOMAIN m = 1 .. n
      /\ \A k \in 1 .. n : /\ m[k] \in Block /\ m[k][1] \in Nat /\ m[k][2] \in Nat
                            /\ m[k][1] < m[k][2]
  <2>1. m \in Seq(Block) /\ n \in Nat /\ DOMAIN m = 1 .. n
    BY DEF MergeInv
  <2>2. \A k \in 1 .. n : m[k] \in Block
    BY <2>1
  <2> QED
    BY <2>1, <2>2 DEF Block
<1>3. \A j, k \in 1 .. n : j < k => m[j][2] < m[k][1]
  BY <1>2 DEF MergeInv, Apart
<1>4. m # <<>> => n \in 1 .. n /\ m[n][2] <= b[1]
  <2> SUFFICES ASSUME m # <<>> PROVE n \in 1 .. n /\ m[n][2] <= b[1]
    OBVIOUS
  <2>1. i # 0 /\ m[n][2] = blocks[i][2]
    BY DEF MergeInv
  <2>2. i \in DOMAIN blocks /\ i < i + 1
    BY <1>1, <2>1
  <2>3. blocks[i][2] <= b[1]
    BY <1>1, <2>2 DEF Sorted
  <2> QED
    BY <1>2, <2>1, <2>3
<1>5. \A k \in 1 .. n : m[k][2] <= m[n][2]
  <2> SUFFICES ASSUME NEW k \in 1 .. n PROVE m[k][2] <= m[n][2]
    OBVIOUS
  <2>1. n \in 1 .. n
    BY <1>2
  <2>2. CASE k = n
    BY <1>2, <2>1, <2>2
  <2> HIDE DEF n
  <2>3. CASE k < n
    <3>1. m[k][2] < m[n][1]
      BY <1>3, <2>1, <2>3
    <3> QED
      BY <1>2, <2>1, <3>1
  <2> QED
    BY <1>2, <2>2, <2>3
<1>6. \A x \in Nat : Covers(m, x) \/ In(b, x) <=> First(blocks, i + 1, x)
  BY <1>1, FirstNext DEF MergeInv
<1> HIDE DEF b, n
<1>7. ASSUME m # <<>>, m[n][2] = b[1]
      PROVE  MergeInv(v, i + 1, blocks)
  <2> DEFINE last == <<m[n][1], b[2]>>
  <2>1. v = [m EXCEPT ![n] = last]
    BY <1>7 DEF Merge, n
  <2>2. n \in 1 .. n /\ last \in Block /\ last[1] = m[n][1] /\ last[2] = b[2]
    BY <1>1, <1>2, <1>4, <1>7 DEF Block
  <2>3. \A x \in Nat : In(last, x) <=> In(m[n], x) \/ In(b, x)
    BY <1>1, <1>2, <1>7, <2>2 DEF In
  <2> HIDE DEF v, last
  <2>4. /\ v \in Seq(Block) /\ DOMAIN v = 1 .. n /\ Len(v) = n
        /\ v[n] = last /\ \A k \in 1 .. n : k # n => v[k] = m[k]
    BY <1>2, <2>1, <2>2
  <2>5. ASSUME NEW j \in 1 .. n, NEW k \in 1 .. n, j < k
        PROVE  v[j][2] < v[k][1]
    <3>1. j # n /\ v[j] = m[j]
      BY <1>2, <2>4, <2>5
    <3>2. v[k][1] = m[k][1]
      BY <2>2, <2>4
    <3> QED
      BY <1>3, <2>5, <3>1, <3>2
  <2>6. ASSUME NEW x \in Nat
        PROVE  Covers(v, x) <=> Covers(m, x) \/ In(b, x)
    <3>1. ASSUME NEW k \in 1 .. n, In(v[k], x)
          PROVE  Covers(m, x) \/ In(b, x)
      BY <1>2, <2>3, <2>4, <3>1 DEF Covers
    <3>2. ASSUME NEW k \in 1 .. n, In(m[k], x)
          PROVE  Covers(v, x)
      BY <1>2, <2>2, <2>3, <2>4, <3>2 DEF Covers
    <3>3. ASSUME In(b, x) PROVE Covers(v, x)
      BY <2>2, <2>3, <2>4, <3>3 DEF Covers
    <3> QED
      BY <1>2, <2>4, <3>1, <3>2, <3>3 DEF Covers
  <2>7. Apart(v)
    BY <2>4, <2>5 DEF Apart
  <2>8. v # <<>> /\ v[Len(v)][2] = blocks[i + 1][2]
    BY <2>2, <2>4 DEF b
  <2> QED
    BY <1>1, <1>6, <2>4, <2>6, <2>7, <2>8 DEF MergeInv
<1>8. ASSUME ~(m # <<>> /\ m[n][2] = b[1])
      PROVE  MergeInv(v, i + 1, blocks)
  <2>1. v = Append(m, b)
    BY <1>8 DEF Merge, n
  <2>2. ASSUME NEW k \in 1 .. n
        PROVE  m[k][2] < b[1]
    <3>1. m # <<>> /\ n \in 1 .. n
      BY <1>2
    <3>2. m[n][2] < b[1]
      BY <1>1, <1>2, <1>4, <1>8, <3>1
    <3> QED
      BY <1>1, <1>2, <1>5, <3>1, <3>2
  <2>3. EndBy(m, b[1])
    BY <1>1, <1>2, <2>2 DEF EndBy
  <2>4. Sorted(m)
    BY <1>2, ApartIsSorted DEF MergeInv
  <2> HIDE DEF v
  <2>5. /\ v \in Seq(Block)
        /\ \A x \in Nat : Covers(v, x) <=> Covers(m, x) \/ In(b, x)
    BY <1>1, <1>2, <2>1, <2>3, <2>4, AppendBlock
  <2>6. /\ DOMAIN v = 1 .. (n + 1) /\ Len(v) = n + 1 /\ v[n + 1] = b
        /\ \A k \in 1 .. n : v[k] = m[k]
    BY <1>1, <1>2, <2>1 DEF n
  <2>7. ASSUME NEW j \in 1 .. (n + 1), NEW k \in 1 .. (n + 1), j < k
        PROVE  v[j][2] < v[k][1]
    <3>1. j \in 1 .. n /\ v[j] = m[j]
      BY <1>2, <2>6, <2>7
    <3>2. CASE k = n + 1
      BY <2>2, <2>6, <3>1, <3>2
    <3>3. CASE k \in 1 .. n
      BY <1>3, <2>6, <2>7, <3>1, <3>3
    <3> QED
      BY <1>2, <3>2, <3>3
  <2>8. Apart(v)
    BY <2>6, <2>7 DEF Apart
  <2>9. v # <<>> /\ v[Len(v)][2] = blocks[i + 1][2]
    BY <1>2, <2>6 DEF b
  <2> QED
    BY <1>1, <1>6, <2>5, <2>8, <2>9 DEF MergeInv
<1>9. MergeInv(v, i + 1, blocks)
  BY <1>7, <1>8
<1> QED
  BY <1>9 DEF b

\* The list after the loop that merges covers the same bytes.
LEMMA MergedHolds ==
    ASSUME NEW blocks \in Seq(Block), Sorted(blocks)
    PROVE  LET m == Merged(blocks)[Len(blocks)]
           IN  /\ m \in Seq(Block) /\ Apart(m)
               /\ \A x \in Nat : Covers(m, x) <=> Covers(blocks, x)
<1> DEFINE n == Len(blocks)
           merged == Merged(blocks)
           good == {i \in 0 .. n : MergeInv(merged[i], i, blocks)}
<1>1. n \in Nat
  OBVIOUS
<1>2. merged[0] = <<>> /\ \A i \in 1 .. n : merged[i] = Merge(merged[i - 1], blocks[i])
  <2> HIDE DEF merged
  <2> QED
    BY <1>1, MergedIs DEF merged
<1> HIDE DEF merged
<1>3. 0 \in good
  <2>1. \A x : ~Covers(<<>>, x) /\ ~First(blocks, 0, x)
    BY DEF Covers, First
  <2>2. Apart(<<>>)
    BY DEF Apart
  <2>3. MergeInv(merged[0], 0, blocks)
    BY <1>2, <2>1, <2>2 DEF MergeInv
  <2> QED
    BY <1>1, <2>3
<1>4. ASSUME NEW i \in 0 .. (n - 1), i \in good
      PROVE  i + 1 \in good
  <2>1. MergeInv(Merge(merged[i], blocks[i + 1]), i + 1, blocks)
    BY <1>4, MergeKeeps
  <2>2. i + 1 \in 1 .. n /\ (i + 1) - 1 = i /\ i + 1 \in 0 .. n
    BY <1>1
  <2>3. merged[i + 1] = Merge(merged[i], blocks[i + 1])
    BY <1>2, <2>2
  <2> QED
    BY <2>1, <2>2, <2>3
<1>5. MergeInv(merged[n], n, blocks)
  <2>1. n \in 0 .. n
    BY <1>1
  <2>2. n \in good
    <3> HIDE DEF good, n
    <3> QED
      BY <1>1, <1>3, <1>4, <2>1, Reaches
  <2> QED
    BY <2>2
<1> QED
  BY <1>5, FirstAll DEF MergeInv, merged

\* sack() on any list in normal form, and any block that is not empty, however
\* it overlaps the list: the result is in normal form, and covers what the list
\* covered and the block, no more and no less.
THEOREM SackAddsBlock ==
    ASSUME NEW blocks \in Seq(Block), Apart(blocks),
           NEW seq \in Nat, NEW end \in Nat, seq < end
    PROVE  /\ sack(seq, end, blocks) \in Seq(Block)
           /\ Apart(sack(seq, end, blocks))
           /\ \A x \in Nat : Covers(sack(seq, end, blocks), x)
                              <=> Covers(blocks, x) \/ Within(seq, end, x)
<1>1. Sorted(blocks)
  BY ApartIsSorted
<1> DEFINE inserted == Inserted(seq, end, blocks)
<1>2. /\ inserted \in Seq(Block) /\ Sorted(inserted)
      /\ \A x \in Nat : Covers(inserted, x) <=> Covers(blocks, x) \/ Within(seq, end, x)
  BY <1>1, InsertedIs
<1>3. sack(seq, end, blocks) = Merged(inserted)[Len(inserted)]
  BY DEF sack
<1> HIDE DEF inserted
<1> QED
  BY <1>2, <1>3, MergedHolds

-----------------------------------------------------------------------------
(* discardUpTo() and the first gap.                                        *)

\* The loop of discardUpTo stops somewhere.
LEMMA FirstKeptIs ==
    ASSUME NEW c \in Nat, NEW blocks \in Seq(Block)
    PROVE  LET i == FirstKept(c, blocks)
           IN  /\ i \in 1 .. (Len(blocks) + 1)
               /\ \A j \in 1 .. (i - 1) : blocks[j][2] <= c
               /\ i <= Len(blocks) => blocks[i][2] > c
<1> DEFINE n == Len(blocks)
           stays == {i \in 1 .. (n + 1) : i <= n => blocks[i][2] > c}
<1>1. n \in Nat /\ \A i \in 1 .. n : blocks[i][2] \in Nat
  BY DEF Block
<1>2. n + 1 \in stays /\ stays \in SUBSET Nat
  BY <1>1
<1>3. PICK i \in stays : \A k \in stays : i <= k
  <2> HIDE DEF stays
  <2> QED
    BY <1>2, Smallest
<1>4. ASSUME NEW j \in 1 .. (i - 1)
      PROVE  blocks[j][2] <= c
  <2>1. i \in 1 .. (n + 1)
    OBVIOUS
  <2>2. j \in 1 .. n /\ j < i /\ j \in 1 .. (n + 1) /\ ~(i <= j)
    BY <1>1, <2>1
  <2>3. j \notin stays
    BY <1>3, <2>2
  <2>4. ~(blocks[j][2] > c)
    BY <2>2, <2>3
  <2> QED
    BY <1>1, <2>2, <2>4
<1>5. i \in 1 .. (Len(blocks) + 1) /\ (i <= Len(blocks) => blocks[i][2] > c)
  OBVIOUS
<1> QED
  BY <1>4, <1>5 DEF FirstKept

\* discardUpTo() on any list in normal form removes the bytes below c, whether c
\* is in a block or not, and nothing else; the result is in normal form.
THEOREM DiscardKeepsRest ==
    ASSUME NEW blocks \in Seq(Block), Apart(blocks), NEW c \in Nat
    PROVE  /\ discardUpTo(c, blocks) \in Seq(Block)
           /\ Apart(discardUpTo(c, blocks))
           /\ \A i \in DOMAIN discardUpTo(c, blocks) : c <= discardUpTo(c, blocks)[i][1]
           /\ \A x \in Nat : Covers(discardUpTo(c, blocks), x)
                              <=> Covers(blocks, x) /\ c <= x
<1> DEFINE n == Len(blocks)
           f == FirstKept(c, blocks)
           m == n + 1 - f
           d == discardUpTo(c, blocks)
<1>1. /\ f \in 1 .. (n + 1) /\ n \in Nat /\ m \in Nat
      /\ \A j \in 1 .. (f - 1) : blocks[j][2] <= c
      /\ f <= n => blocks[f][2] > c
  <2>1. n \in Nat
    OBVIOUS
  <2>2. /\ f \in 1 .. (n + 1)
        /\ \A j \in 1 .. (f - 1) : blocks[j][2] <= c
        /\ f <= n => blocks[f][2] > c
    BY FirstKeptIs
  <2> HIDE DEF f, n
  <2> QED
    BY <2>1, <2>2
<1>2. /\ \A i \in 1 .. n : /\ blocks[i] \in Block /\ blocks[i][1] \in Nat
                           /\ blocks[i][2] \in Nat /\ blocks[i][1] < blocks[i][2]
      /\ \A i, j \in 1 .. n : i < j => blocks[i][2] < blocks[j][1]
      /\ DOMAIN blocks = 1 .. n
  <2>1. DOMAIN blocks = 1 .. n
    OBVIOUS
  <2>2. \A i \in 1 .. n : /\ blocks[i] \in Block /\ blocks[i][1] \in Nat
                         /\ blocks[i][2] \in Nat /\ blocks[i][1] < blocks[i][2]
    BY DEF Block
  <2> HIDE DEF n
  <2>3. \A i, j \in 1 .. n : i < j => blocks[i][2] < blocks[j][1]
    BY <2>1 DEF Apart
  <2> QED
    BY <2>1, <2>2, <2>3
<1>3. d = [k \in 1 .. m |-> IF k = 1 /\ blocks[f + k - 1][1] < c
                             THEN <<c, blocks[f + k - 1][2]>> ELSE blocks[f + k - 1]]
  BY DEF discardUpTo
<1> HIDE DEF d, f, n
<1>4. \A k \in 1 .. m : f + k - 1 \in 1 .. n
  BY <1>1
<1>5. ASSUME NEW i \in 1 .. n, f <= i
      PROVE  c < blocks[i][2] /\ (f < i => c < blocks[i][1])
  <2>1. CASE f = i
    BY <1>1, <1>2, <2>1
  <2>2. CASE f < i
    <3>1. f \in 1 .. n /\ blocks[f][2] > c
      BY <1>1, <1>5
    <3>2. blocks[f][2] < blocks[i][1]
      BY <1>2, <2>2, <3>1
    <3> QED
      BY <1>2, <3>1, <3>2
  <2> QED
    BY <1>1, <1>5, <2>1, <2>2
<1>6. ASSUME NEW k \in 1 .. m
      PROVE  /\ d[k] \in Block /\ d[k][1] \in Nat /\ d[k][2] \in Nat /\ c <= d[k][1]
             /\ d[k][2] = blocks[f + k - 1][2]
             /\ 1 < k => d[k][1] = blocks[f + k - 1][1]
             /\ \A x \in Nat : In(d[k], x) <=> In(blocks[f + k - 1], x) /\ c <= x
  <2> DEFINE i == f + k - 1
  <2>1. i \in 1 .. n /\ f <= i /\ (1 < k => f < i)
    BY <1>1, <1>4
  <2>2. c < blocks[i][2] /\ (f < i => c < blocks[i][1])
    BY <1>5, <2>1
  <2>3. d[k] = IF k = 1 /\ blocks[i][1] < c THEN <<c, blocks[i][2]>> ELSE blocks[i]
    BY <1>3
  <2> HIDE DEF i
  <2>4. CASE k = 1 /\ blocks[i][1] < c
    <3>1. d[k] = <<c, blocks[i][2]>>
      BY <2>3, <2>4
    <3>2. /\ d[k] \in Block /\ d[k][1] \in Nat /\ d[k][2] \in Nat /\ c <= d[k][1]
          /\ d[k][2] = blocks[i][2] /\ ~(1 < k)
      BY <1>2, <2>1, <2>2, <2>4, <3>1 DEF Block
    <3>3. \A x \in Nat : In(d[k], x) <=> In(blocks[i], x) /\ c <= x
      BY <1>2, <2>1, <2>4, <3>1 DEF In
    <3> QED
      BY <3>2, <3>3 DEF i
  <2>5. CASE ~(k = 1 /\ blocks[i][1] < c)
    <3>1. d[k] = blocks[i]
      BY <2>3, <2>5
    <3>2. c <= blocks[i][1]
      BY <1>2, <2>1, <2>2, <2>5
    <3>3. \A x \in Nat : In(d[k], x) <=> In(blocks[i], x) /\ c <= x
      BY <1>2, <2>1, <3>1, <3>2 DEF In
    <3> QED
      BY <1>2, <2>1, <3>1, <3>2, <3>3 DEF i
  <2> QED
    BY <2>4, <2>5
<1>7. DOMAIN d = 1 .. m /\ d \in Seq(Block)
  <2>1. d \in [1 .. m -> Block]
    BY <1>3, <1>6
  <2> HIDE DEF m
  <2> QED
    BY <1>1, <2>1
<1>8. ASSUME NEW j \in 1 .. m, NEW k \in 1 .. m, j < k
      PROVE  d[j][2] < d[k][1]
  <2>1. 1 < k /\ f + j - 1 < f + k - 1 /\ f + j - 1 \in 1 .. n /\ f + k - 1 \in 1 .. n
    BY <1>1, <1>4, <1>8
  <2>2. blocks[f + j - 1][2] < blocks[f + k - 1][1]
    BY <1>2, <2>1
  <2> QED
    BY <1>6, <2>1, <2>2
<1>9. ASSUME NEW x \in Nat
      PROVE  Covers(d, x) <=> Covers(blocks, x) /\ c <= x
  <2>1. ASSUME NEW k \in 1 .. m, In(d[k], x)
        PROVE  Covers(blocks, x) /\ c <= x
    <3>1. In(blocks[f + k - 1], x) /\ c <= x
      BY <1>6, <2>1
    <3> QED
      BY <1>2, <1>4, <3>1 DEF Covers
  <2>2. ASSUME NEW i \in 1 .. n, In(blocks[i], x), c <= x
        PROVE  Covers(d, x)
    <3>1. f <= i
      <4> SUFFICES ASSUME ~(f <= i) PROVE FALSE
        OBVIOUS
      <4>1. i \in 1 .. (f - 1)
        BY <1>1
      <4>2. blocks[i][2] <= c /\ blocks[i][2] \in Nat /\ x < blocks[i][2]
        BY <1>1, <1>2, <2>2, <4>1 DEF In
      <4> QED
        BY <2>2, <4>2
    <3> DEFINE k == i - f + 1
    <3>2. k \in 1 .. m /\ f + k - 1 = i
      BY <1>1, <3>1
    <3> HIDE DEF k
    <3>3. In(d[k], x)
      BY <1>6, <2>2, <3>2
    <3> QED
      BY <1>7, <3>2, <3>3 DEF Covers
  <2> QED
    BY <1>2, <1>7, <2>1, <2>2 DEF Covers
<1>10. Apart(d) /\ \A i \in DOMAIN d : c <= d[i][1]
  BY <1>6, <1>7, <1>8 DEF Apart
<1> QED
  BY <1>7, <1>9, <1>10 DEF d

\* Cover in terms of Covers.
LEMMA CoverIs ==
    ASSUME NEW blocks \in Seq(Block)
    PROVE  Cover(blocks) = {x \in Nat : Covers(blocks, x)}
<1>1. \A i \in DOMAIN blocks : blocks[i][1] \in Nat /\ blocks[i][2] \in Nat
  BY DEF Block
<1>2. ASSUME NEW i \in DOMAIN blocks, NEW x
      PROVE  x \in Bytes(blocks[i]) <=> x \in Nat /\ In(blocks[i], x)
  BY <1>1 DEF Bytes, In
<1> QED
  BY <1>2 DEF Cover, Covers

\* What checkFirstNackedBlock returns is the first byte not covered.
LEMMA FirstGap ==
    ASSUME NEW una \in Nat, NEW blocks \in Seq(Block), Apart(blocks),
           \A i \in DOMAIN blocks : una <= blocks[i][1]
    PROVE  LET gap == checkFirstNackedBlock(una, blocks)
           IN  /\ gap \in Nat /\ una <= gap
               /\ ~Covers(blocks, gap)
               /\ \A x \in Nat : Within(una, gap, x) => Covers(blocks, x)
<1> DEFINE n == Len(blocks)
           gap == checkFirstNackedBlock(una, blocks)
<1>1. /\ n \in Nat /\ DOMAIN blocks = 1 .. n
      /\ \A i \in 1 .. n : /\ blocks[i][1] \in Nat
                           /\ blocks[i][2] \in Nat /\ blocks[i][1] < blocks[i][2]
      /\ \A i \in 1 .. n : 1 < i => blocks[1][2] < blocks[i][1]
      /\ blocks # <<>> => 1 \in 1 .. n /\ Head(blocks) = blocks[1]
  <2>1. /\ n \in Nat /\ DOMAIN blocks = 1 .. n
        /\ blocks # <<>> => 1 \in 1 .. n /\ Head(blocks) = blocks[1]
    OBVIOUS
  <2>2. \A i \in 1 .. n : blocks[i] \in Block
    BY <2>1
  <2>3. \A i \in 1 .. n : 1 < i => blocks[1][2] < blocks[i][1]
    <3> SUFFICES ASSUME NEW i \in 1 .. n, 1 < i PROVE blocks[1][2] < blocks[i][1]
      OBVIOUS
    <3>1. 1 \in 1 .. n
      BY <2>1
    <3> QED
      BY <2>1, <3>1 DEF Apart
  <2> HIDE DEF n
  <2> QED
    BY <2>1, <2>2, <2>3 DEF Block
<1> HIDE DEF n
<1>2. ASSUME blocks # <<>>, blocks[1][1] = una
      PROVE  /\ gap \in Nat /\ una <= gap /\ ~Covers(blocks, gap)
             /\ \A x \in Nat : Within(una, gap, x) => Covers(blocks, x)
  <2>1. gap = blocks[1][2] /\ 1 \in 1 .. n
    BY <1>1, <1>2 DEF checkFirstNackedBlock
  <2> HIDE DEF gap
  <2>2. ~Covers(blocks, gap)
    <3> SUFFICES ASSUME NEW i \in 1 .. n, In(blocks[i], gap) PROVE FALSE
      BY <1>1 DEF Covers
    <3>1. blocks[i][1] <= gap /\ gap < blocks[i][2]
      BY DEF In
    <3> QED
      BY <1>1, <2>1, <3>1
  <2>3. \A x \in Nat : Within(una, gap, x) => In(blocks[1], x)
    BY <1>2, <2>1 DEF Within, In
  <2> QED
    BY <1>1, <1>2, <2>1, <2>2, <2>3 DEF Covers
<1>3. ASSUME ~(blocks # <<>> /\ blocks[1][1] = una)
      PROVE  /\ gap \in Nat /\ una <= gap /\ ~Covers(blocks, gap)
             /\ \A x \in Nat : Within(una, gap, x) => Covers(blocks, x)
  <2>1. gap = una
    BY <1>1, <1>3 DEF checkFirstNackedBlock
  <2> HIDE DEF gap
  <2>2. ~Covers(blocks, una)
    <3> SUFFICES ASSUME NEW i \in 1 .. n, In(blocks[i], una) PROVE FALSE
      BY <1>1 DEF Covers
    <3>1. blocks # <<>> /\ 1 \in 1 .. n /\ una < blocks[1][1]
      BY <1>1, <1>3
    <3>2. blocks[i][1] <= una
      BY DEF In
    <3> QED
      BY <1>1, <3>1, <3>2
  <2>3. \A x \in Nat : ~Within(una, una, x)
    BY DEF Within
  <2> QED
    BY <2>1, <2>2, <2>3
<1> QED
  BY <1>2, <1>3
-----------------------------------------------------------------------------
(* The specification.                                                      *)

\* The inductive invariant: Normal, and no byte beyond the flow.
IInv ==
    /\ snd_una \in 0 .. m_size
    /\ m_data \in Seq(Block) /\ Apart(m_data)
    /\ \A i \in DOMAIN m_data : snd_una < m_data[i][1] /\ m_data[i][2] <= m_size

\* A new queue pair has no blocks.
LEMMA InitInv == Init => IInv
<1> SUFFICES ASSUME Init PROVE IInv
  OBVIOUS
<1>1. snd_una = 0 /\ m_data = <<>>
  BY DEF Init
<1>2. <<>> \in Seq(Block) /\ Apart(<<>>)
  BY DEF Apart
<1> QED
  BY <1>1, <1>2, SackAssumption DEF IInv

\* An answer keeps the invariant, and does to the bytes what AckSet says.
LEMMA StepIs ==
    ASSUME IInv, NEW seq \in 0 .. (m_size - 1), NEW end \in (seq + 1) .. m_size,
           AcknowledgeForLaps(seq, end)
    PROVE  /\ IInv'
           /\ seq >= snd_una
           /\ Set!Acknowledge(seq, end)
<1> DEFINE S == sack(seq, end, m_data)
           una == checkFirstNackedBlock(snd_una, S)
           D == discardUpTo(una, S)
<1>1. /\ seq >= snd_una /\ snd_una' = una /\ m_data' = D /\ answer' = <<seq, end>>
  BY DEF AcknowledgeForLaps
<1>2. /\ m_size \in Nat /\ snd_una \in Nat /\ seq \in Nat /\ end \in Nat
      /\ seq < end /\ end <= m_size /\ snd_una <= m_size
  BY SackAssumption DEF IInv
<1>3. /\ m_data \in Seq(Block) /\ Apart(m_data)
      /\ \A i \in DOMAIN m_data : /\ snd_una < m_data[i][1] /\ m_data[i][2] <= m_size
                                  /\ m_data[i][1] \in Nat /\ m_data[i][2] \in Nat
  BY DEF IInv, Block
<1>4. /\ S \in Seq(Block) /\ Apart(S)
      /\ \A x \in Nat : Covers(S, x) <=> Covers(m_data, x) \/ Within(seq, end, x)
  BY <1>2, <1>3, SackAddsBlock
<1> HIDE DEF S
<1>5. \A i \in DOMAIN S : S[i][1] \in Nat /\ S[i][2] \in Nat /\ S[i][1] < S[i][2]
  BY <1>4 DEF Block
<1>6. ASSUME NEW x \in Nat, Covers(S, x)
      PROVE  snd_una <= x /\ x < m_size
  <2>1. CASE Within(seq, end, x)
    BY <1>1, <1>2, <2>1 DEF Within
  <2>2. CASE Covers(m_data, x)
    BY <1>2, <1>3, <2>2 DEF Covers, In
  <2> QED
    BY <1>4, <1>6, <2>1, <2>2
<1>7. ASSUME NEW i \in DOMAIN S
      PROVE  snd_una <= S[i][1] /\ S[i][2] <= m_size
  <2>1. In(S[i], S[i][1]) /\ In(S[i], S[i][2] - 1) /\ S[i][2] - 1 \in Nat
    BY <1>5 DEF In
  <2>2. Covers(S, S[i][1]) /\ Covers(S, S[i][2] - 1)
    BY <2>1 DEF Covers
  <2>3. snd_una <= S[i][1] /\ S[i][2] - 1 < m_size
    BY <1>5, <1>6, <2>1, <2>2
  <2> QED
    BY <1>2, <1>5, <2>3
<1>8. /\ una \in Nat /\ snd_una <= una /\ ~Covers(S, una)
      /\ \A x \in Nat : Within(snd_una, una, x) => Covers(S, x)
  BY <1>2, <1>4, <1>7, FirstGap
<1>9. una <= m_size
  <2>1. CASE una = snd_una
    BY <1>2, <2>1
  <2>2. CASE snd_una < una
    <3>1. una - 1 \in Nat /\ Within(snd_una, una, una - 1)
      BY <1>2, <1>8, <2>2 DEF Within
    <3>2. una - 1 < m_size
      BY <1>6, <1>8, <3>1
    <3> QED
      BY <1>2, <1>8, <3>2
  <2> QED
    BY <1>2, <1>8, <2>1, <2>2
<1> HIDE DEF una
<1>10. /\ D \in Seq(Block) /\ Apart(D) /\ \A i \in DOMAIN D : una <= D[i][1]
       /\ \A x \in Nat : Covers(D, x) <=> Covers(S, x) /\ una <= x
  BY <1>4, <1>8, DiscardKeepsRest
<1> HIDE DEF D
<1>11. ASSUME NEW i \in DOMAIN D
       PROVE  una < D[i][1] /\ D[i][2] <= m_size
  <2>1. /\ D[i][1] \in Nat /\ D[i][2] \in Nat /\ D[i][1] < D[i][2]
    BY <1>10 DEF Block
  <2>2. In(D[i], D[i][1]) /\ In(D[i], D[i][2] - 1) /\ D[i][2] - 1 \in Nat
    BY <2>1 DEF In
  <2>3. Covers(D, D[i][1]) /\ Covers(D, D[i][2] - 1)
    BY <2>2 DEF Covers
  <2>4. Covers(S, D[i][1]) /\ Covers(S, D[i][2] - 1)
    BY <1>10, <2>1, <2>2, <2>3
  <2>5. D[i][1] # una
    BY <1>8, <2>4
  <2>6. D[i][2] - 1 < m_size
    BY <1>6, <2>2, <2>4
  <2> QED
    BY <1>2, <1>8, <1>10, <2>1, <2>5, <2>6
<1>12. IInv'
  BY <1>1, <1>2, <1>8, <1>9, <1>10, <1>11 DEF IInv
<1>13. Covered = {x \in Nat : Covers(m_data, x)} /\ Covered' = {x \in Nat : Covers(D, x)}
  <2>1. Covered = {x \in Nat : Covers(m_data, x)}
    BY <1>3, CoverIs DEF Covered
  <2>2. Covered' = Cover(m_data')
    BY DEF Covered
  <2>3. Cover(D) = {x \in Nat : Covers(D, x)}
    BY <1>10, CoverIs
  <2> QED
    BY <1>1, <2>1, <2>2, <2>3
<1>14. Set!Acknowledge(seq, end)
  <2> DEFINE got == Covered \cup (seq .. (end - 1))
  <2>1. \A x \in Nat : x \in got <=> Covers(S, x)
    BY <1>2, <1>4, <1>13 DEF Within
  <2>2. got \subseteq Nat
    BY <1>2, <1>13
  <2> HIDE DEF got
  <2>3. una \in snd_una .. m_size
    BY <1>2, <1>8, <1>9
  <2>4. una \notin got
    BY <1>8, <2>1
  <2>5. snd_una .. (una - 1) \subseteq got
    <3> SUFFICES ASSUME NEW x \in snd_una .. (una - 1) PROVE x \in got
      OBVIOUS
    <3>1. x \in Nat /\ Within(snd_una, una, x)
      BY <1>2, <1>8 DEF Within
    <3> QED
      BY <1>8, <2>1, <3>1
  <2>6. Covered' = got \ (0 .. (una - 1))
    <3>1. \A x \in Nat : x \notin 0 .. (una - 1) <=> una <= x
      BY <1>8
    <3> QED
      BY <1>10, <1>13, <2>1, <2>2, <3>1
  <2> QED
    BY <1>1, <2>3, <2>4, <2>5, <2>6 DEF Set!Acknowledge, Set!Advance, got
<1> QED
  BY <1>1, <1>12, <1>14

\* So does every step.
LEMMA NextInv == IInv /\ [Next]_vars => IInv'
<1> SUFFICES ASSUME IInv, [Next]_vars PROVE IInv'
  OBVIOUS
<1>1. CASE UNCHANGED vars
  BY <1>1 DEF vars, IInv
<1>2. CASE Next
  BY <1>1, <1>2, StepIs DEF Next, Finished
<1> QED
  BY <1>1, <1>2

\* The invariant always holds.
LEMMA SackInductive == Spec => []IInv
  BY InitInv, NextInv, PTL DEF Spec

\* For flows of any length and blocks of any size in any order: the list is in
\* normal form after every answer, so its front block is all snd_una can pass.
THEOREM SackIsNormal == Spec => []Normal
<1>1. IInv => Normal
  BY DEF IInv, Normal, Block, Apart
<1> QED
  BY <1>1, SackInductive, PTL

\* The list with snd_una is the set of acknowledged bytes, for flows of any length
\* and blocks of any size, in any order, with any overlap.
THEOREM SackImplementsAckSet == Spec => ImplementsAckSet
<1>1. Init => Set!Init
  BY DEF Init, Set!Init, Covered, Cover
<1>2. IInv /\ [Next]_vars => [Set!Next]_Set!ackVars
  <2> SUFFICES ASSUME IInv, [Next]_vars PROVE [Set!Next]_Set!ackVars
    OBVIOUS
  <2>1. CASE UNCHANGED vars
    BY <2>1 DEF vars, Set!ackVars, Covered
  <2>2. ASSUME NEW seq \in 0 .. (m_size - 1), NEW end \in (seq + 1) .. m_size,
               AcknowledgeForLaps(seq, end)
        PROVE  Set!Next
    <3>1. seq >= snd_una /\ Set!Acknowledge(seq, end)
      BY <2>2, StepIs
    <3>2. seq \in snd_una .. (m_size - 1)
      BY <3>1 DEF IInv
    <3> QED
      BY <3>1, <3>2 DEF Set!Next
  <2> QED
    BY <2>1, <2>2 DEF Next, Finished
<1> QED
  BY <1>1, <1>2, SackInductive, PTL DEF Spec, ImplementsAckSet, Set!Spec
=============================================================================
