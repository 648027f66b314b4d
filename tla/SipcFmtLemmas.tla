--------------------------- MODULE SipcFmtLemmas ---------------------------
(***************************************************************************)
(* What the proofs about SipcFmt need to know of its data: sequences that  *)
(* grow and shrink, the sum of a sequence, the flattening of a sequence of *)
(* blocks, and the arithmetic of the ring's indices.                       *)
(***************************************************************************)
EXTENDS SipcFmt, SequenceTheorems, WellFoundedInduction, TLAPS

\* Induction with the set of the numbers that have the property: the least number
\* outside of it cannot exist.
LEMMA NatSetInduction ==
  ASSUME NEW S, 0 \in S, \A n \in Nat : n \in S => n + 1 \in S
  PROVE  Nat \subseteq S
  <1> DEFINE T == Nat \ S
             R == OpToRel(<, Nat)
  <1> SUFFICES ASSUME T # {} PROVE FALSE
    OBVIOUS
  <1>1. IsWellFoundedOn(R, Nat)
    BY NatLessThanWellFounded
  <1>2. \E x \in T : \A y \in T : ~(<<y, x>> \in R)
    <2> HIDE DEF R, T
    <2>1. T \subseteq Nat
      BY DEF T
    <2> QED
      BY <1>1, <2>1, WFMin
  <1>3. PICK x \in T : \A y \in T : ~(<<y, x>> \in R)
    BY <1>2
  <1>4. x # 0 /\ x - 1 \in Nat
    OBVIOUS
  <1>5. x - 1 \in T
    BY <1>4
  <1>6. <<x - 1, x>> \in R
    BY <1>4 DEF OpToRel
  <1> QED
    BY <1>3, <1>5, <1>6

\* Appending leaves the elements before in place, taking the first moves them up.
LEMMA AppendKeeps ==
  ASSUME NEW S, NEW q \in Seq(S), NEW e \in S
  PROVE  /\ Append(q, e) \in Seq(S)
         /\ DOMAIN Append(q, e) = 1 .. Len(q) + 1
         /\ \A i \in DOMAIN q : i \in DOMAIN Append(q, e) /\ Append(q, e)[i] = q[i]
         /\ Append(q, e)[Len(q) + 1] = e
  OBVIOUS

LEMMA TailKeeps ==
  ASSUME NEW S, NEW q \in Seq(S), q # <<>>
  PROVE  /\ Tail(q) \in Seq(S)
         /\ Head(q) \in S /\ 1 \in DOMAIN q /\ Head(q) = q[1]
         /\ \A i \in DOMAIN Tail(q) : i + 1 \in DOMAIN q /\ Tail(q)[i] = q[i + 1]
  BY HeadTailProperties

\* __write writes the less of the two.
LEMMA WrittenIs ==
  ASSUME NEW a \in Int, NEW b \in Int, a <= b
  PROVE  Min({a, b}) = a
  <1>1. \A y \in {a, b} : a <= y
    OBVIOUS
  <1>2. \A x \in {a, b} : (\A y \in {a, b} : x <= y) => x = a
    OBVIOUS
  <1> QED
    BY <1>1, <1>2 DEF Min

LEMMA FunctionIsSeq ==
  ASSUME NEW n \in Nat, NEW S, NEW g \in [1 .. n -> S]
  PROVE  g \in Seq(S) /\ Len(g) = n
  <1>1. g \in Seq(S)
    BY SeqDef
  <1>2. DOMAIN g = 1 .. Len(g) /\ Len(g) \in Nat /\ DOMAIN g = 1 .. n
    BY <1>1, LenProperties
  <1> QED
    BY <1>1, <1>2
-----------------------------------------------------------------------------
(* Sums. *)

\* f lists the sums of the first elements of s.
Sums(f, s) == /\ f \in [0 .. Len(s) -> Int]
              /\ f[0] = 0
              /\ \A i \in 1 .. Len(s) : f[i] = f[i - 1] + s[i]

LEMMA SumsExist ==
  ASSUME NEW s \in Seq(Int)
  PROVE  \E f : Sums(f, s)
  <1> DEFINE Upto(f, n) == /\ f \in [0 .. n -> Int]
                           /\ f[0] = 0
                           /\ \A i \in 1 .. n : f[i] = f[i - 1] + s[i]
             S == {n \in Nat : n <= Len(s) => \E f : Upto(f, n)}
  <1>1. 0 \in S
    <2>1. Upto([i \in 0 .. 0 |-> 0], 0)
      OBVIOUS
    <2> HIDE DEF Upto
    <2> QED
      BY <2>1
  <1>2. ASSUME NEW n \in Nat, n \in S PROVE n + 1 \in S
    <2> SUFFICES ASSUME n + 1 <= Len(s) PROVE \E f : Upto(f, n + 1)
      <3> HIDE DEF Upto
      <3> QED
        OBVIOUS
    <2>0. n <= Len(s)
      OBVIOUS
    <2>1. PICK f : Upto(f, n)
      <3> HIDE DEF Upto
      <3> QED
        BY <1>2, <2>0
    <2>2. s[n + 1] \in Int
      OBVIOUS
    <2>3. Upto([i \in 0 .. n + 1 |-> IF i = n + 1 THEN f[n] + s[n + 1] ELSE f[i]], n + 1)
      BY <2>1, <2>2
    <2> HIDE DEF Upto
    <2> QED
      BY <2>3
  <1>3. Len(s) \in Nat /\ Len(s) \in S
    <2> HIDE DEF S
    <2> QED
      BY <1>1, <1>2, NatSetInduction
  <1> QED
    BY <1>3 DEF Sums

LEMMA TotalIs ==
  ASSUME NEW s \in Seq(Int), NEW f, Sums(f, s)
  PROVE  Total(s) = f[Len(s)]
  <1> DEFINE Def(g) == [i \in 0 .. Len(s) |-> IF i = 0 THEN 0 ELSE g[i - 1] + s[i]]
             sum == CHOOSE g : g = Def(g)
             S == {n \in Nat : n <= Len(s) => sum[n] = f[n]}
  <1>1. f = Def(f)
    BY DEF Sums
  <1>2. sum = Def(sum)
    <2> HIDE DEF Def
    <2> QED
      BY <1>1
  <1>3. /\ sum[0] = 0
        /\ \A i \in 1 .. Len(s) : sum[i] = sum[i - 1] + s[i]
    <2> HIDE DEF sum
    <2>1. sum[0] = 0
      BY <1>2
    <2>2. ASSUME NEW i \in 1 .. Len(s) PROVE sum[i] = sum[i - 1] + s[i]
      <3>1. i \in 0 .. Len(s) /\ i # 0
        OBVIOUS
      <3> QED
        BY <1>2, <3>1
    <2> QED
      BY <2>1, <2>2
  <1>4. Len(s) \in S
    <2> HIDE DEF sum
    <2>1. 0 \in S
      BY <1>3 DEF Sums
    <2>2. ASSUME NEW n \in Nat, n \in S PROVE n + 1 \in S
      BY <1>3, <2>2 DEF Sums
    <2>3. Len(s) \in Nat
      OBVIOUS
    <2> HIDE DEF S
    <2> QED
      BY <2>1, <2>2, <2>3, NatSetInduction
  <1>5. Total(s) = sum[Len(s)]
    BY DEF Total
  <1> HIDE DEF sum
  <1> QED
    BY <1>4, <1>5

LEMMA TotalEmpty == Total(<<>>) = 0
  <1>1. <<>> \in Seq(Int) /\ Len(<<>>) = 0
    OBVIOUS
  <1>2. Sums([i \in 0 .. 0 |-> 0], <<>>)
    BY DEF Sums
  <1> QED
    BY <1>1, <1>2, TotalIs

LEMMA TotalAppend ==
  ASSUME NEW s \in Seq(Int), NEW x \in Int
  PROVE  Total(s) \in Int /\ Total(Append(s, x)) = Total(s) + x
  <1>1. PICK f : Sums(f, s)
    BY SumsExist
  <1> DEFINE t == Append(s, x)
             g == [i \in 0 .. Len(s) + 1 |-> IF i = Len(s) + 1 THEN f[Len(s)] + x ELSE f[i]]
  <1>2. t \in Seq(Int) /\ Len(t) = Len(s) + 1
    OBVIOUS
  <1>3. Total(s) = f[Len(s)] /\ f[Len(s)] \in Int
    BY <1>1, TotalIs DEF Sums
  <1>4. Sums(g, t)
    BY <1>1 DEF Sums
  <1>5. Total(t) = g[Len(t)]
    <2> HIDE DEF g, t
    <2> QED
      BY <1>2, <1>4, TotalIs
  <1> QED
    BY <1>2, <1>3, <1>5

LEMMA TotalTail ==
  ASSUME NEW s \in Seq(Int), s # <<>>
  PROVE  Total(s) = s[1] + Total(Tail(s)) /\ Total(Tail(s)) \in Int
  <1>1. PICK f : Sums(f, s)
    BY SumsExist
  <1> DEFINE t == Tail(s)
             g == [i \in 0 .. Len(s) - 1 |-> f[i + 1] - s[1]]
  <1>2. /\ t \in Seq(Int) /\ Len(s) \in Nat /\ Len(s) > 0 /\ Len(t) = Len(s) - 1
        /\ s[1] \in Int
        /\ \A i \in 1 .. Len(t) : t[i] = s[i + 1]
    OBVIOUS
  <1>3. Total(s) = f[Len(s)] /\ f[Len(s)] \in Int
    BY <1>1, TotalIs DEF Sums
  <1>4. Sums(g, t)
    <2>1. g \in [0 .. Len(t) -> Int]
      BY <1>1, <1>2 DEF Sums
    <2>2. g[0] = 0
      BY <1>1, <1>2 DEF Sums
    <2>3. ASSUME NEW i \in 1 .. Len(t) PROVE g[i] = g[i - 1] + t[i]
      <3>1. f[i + 1] = f[i] + s[i + 1] /\ f[i] \in Int /\ s[i + 1] \in Int /\ t[i] = s[i + 1]
        BY <1>1, <1>2 DEF Sums
      <3>2. g[i] = f[i + 1] - s[1] /\ g[i - 1] = f[i] - s[1]
        BY <1>2
      <3> QED
        BY <1>2, <3>1, <3>2
    <2> HIDE DEF g, t
    <2> QED
      BY <2>1, <2>2, <2>3 DEF Sums
  <1>5. Total(t) = g[Len(t)]
    <2> HIDE DEF g, t
    <2> QED
      BY <1>2, <1>4, TotalIs
  <1>6. g[Len(t)] = f[Len(s)] - s[1]
    BY <1>2
  <1> QED
    BY <1>2, <1>3, <1>5, <1>6

LEMMA TotalNat ==
  ASSUME NEW s \in Seq(Nat)
  PROVE  Total(s) \in Nat
  <1>1. s \in Seq(Int)
    OBVIOUS
  <1>2. PICK f : Sums(f, s)
    BY <1>1, SumsExist
  <1> DEFINE S == {n \in Nat : n <= Len(s) => f[n] \in Nat}
  <1>3. 0 \in S
    BY <1>2 DEF Sums
  <1>4. ASSUME NEW n \in Nat, n \in S PROVE n + 1 \in S
    BY <1>2, <1>4 DEF Sums
  <1>5. Len(s) \in Nat
    OBVIOUS
  <1>6. Len(s) \in S
    <2> HIDE DEF S
    <2> QED
      BY <1>3, <1>4, <1>5, NatSetInduction
  <1> QED
    BY <1>1, <1>2, <1>5, <1>6, TotalIs
-----------------------------------------------------------------------------
(* Blocks put together. *)

\* f lists what the first blocks of bs hold.
Joins(f, bs, P) == /\ f \in [0 .. Len(bs) -> Seq(P)]
                   /\ f[0] = <<>>
                   /\ \A i \in 1 .. Len(bs) : f[i] = f[i - 1] \o bs[i]

LEMMA JoinsExist ==
  ASSUME NEW P, NEW bs \in Seq(Seq(P))
  PROVE  \E f : Joins(f, bs, P)
  <1> DEFINE Upto(f, n) == /\ f \in [0 .. n -> Seq(P)]
                           /\ f[0] = <<>>
                           /\ \A i \in 1 .. n : f[i] = f[i - 1] \o bs[i]
             S == {n \in Nat : n <= Len(bs) => \E f : Upto(f, n)}
  <1>1. 0 \in S
    <2>1. Upto([i \in 0 .. 0 |-> <<>>], 0)
      OBVIOUS
    <2> HIDE DEF Upto
    <2> QED
      BY <2>1
  <1>2. ASSUME NEW n \in Nat, n \in S PROVE n + 1 \in S
    <2> SUFFICES ASSUME n + 1 <= Len(bs) PROVE \E f : Upto(f, n + 1)
      <3> HIDE DEF Upto
      <3> QED
        OBVIOUS
    <2>0. n <= Len(bs)
      OBVIOUS
    <2>1. PICK f : Upto(f, n)
      <3> HIDE DEF Upto
      <3> QED
        BY <1>2, <2>0
    <2>2. f[n] \in Seq(P) /\ bs[n + 1] \in Seq(P)
      BY <2>1
    <2>3. f[n] \o bs[n + 1] \in Seq(P)
      BY <2>2
    <2>4. Upto([i \in 0 .. n + 1 |-> IF i = n + 1 THEN f[n] \o bs[n + 1] ELSE f[i]], n + 1)
      <3> DEFINE e == f[n] \o bs[n + 1]
      <3>1. e \in Seq(P)
        BY <2>3
      <3> HIDE DEF e
      <3>2. Upto([i \in 0 .. n + 1 |-> IF i = n + 1 THEN e ELSE f[i]], n + 1)
        <4> DEFINE g == [i \in 0 .. n + 1 |-> IF i = n + 1 THEN e ELSE f[i]]
        <4>1. g \in [0 .. n + 1 -> Seq(P)] /\ g[0] = <<>>
          BY <2>1, <3>1
        <4>2. ASSUME NEW i \in 1 .. n + 1 PROVE g[i] = g[i - 1] \o bs[i]
          <5>1. CASE i = n + 1
            <6>1. g[i] = e /\ g[i - 1] = f[n] /\ bs[i] = bs[n + 1]
              BY <5>1
            <6> QED
              BY <6>1 DEF e
          <5>2. CASE i \in 1 .. n
            <6>1. g[i] = f[i] /\ g[i - 1] = f[i - 1]
              BY <5>2
            <6> QED
              BY <2>1, <5>2, <6>1
          <5>3. i = n + 1 \/ i \in 1 .. n
            OBVIOUS
          <5> QED
            BY <5>1, <5>2, <5>3, Zenon
        <4> QED
          BY <4>1, <4>2
      <3> QED
        BY <3>2 DEF e
    <2> HIDE DEF Upto
    <2> QED
      BY <2>4
  <1>3. Len(bs) \in Nat /\ Len(bs) \in S
    <2> HIDE DEF S
    <2> QED
      BY <1>1, <1>2, NatSetInduction
  <1>4. \E f : Upto(f, Len(bs))
    <2> HIDE DEF Upto
    <2> QED
      BY <1>3
  <1> QED
    BY <1>4 DEF Joins

LEMMA FlattenIs ==
  ASSUME NEW P, NEW bs \in Seq(Seq(P)), NEW f, Joins(f, bs, P)
  PROVE  FlattenSeq(bs) = f[Len(bs)]
  <1>0. CASE Len(bs) = 0
    BY <1>0 DEF FlattenSeq, Joins
  <1> SUFFICES ASSUME Len(bs) # 0 PROVE FlattenSeq(bs) = f[Len(bs)]
    BY <1>0
  <1> DEFINE Def(g) == [i \in 1 .. Len(bs) |-> IF i = 1 THEN bs[i] ELSE g[i - 1] \o bs[i]]
             flat == CHOOSE g : g = Def(g)
             S == {n \in Nat : n + 1 <= Len(bs) => flat[n + 1] = f[n + 1]}
             h == [i \in 1 .. Len(bs) |-> f[i]]
  <1>1. f[1] = bs[1]
    <2>1. 1 \in 1 .. Len(bs) /\ bs[1] \in Seq(P)
      OBVIOUS
    <2>2. 1 - 1 = 0
      OBVIOUS
    <2>3. f[1] = f[1 - 1] \o bs[1] /\ f[0] = <<>>
      BY <2>1 DEF Joins
    <2>4. <<>> \o bs[1] = bs[1]
      BY <2>1, ConcatEmptySeq
    <2> QED
      BY <2>2, <2>3, <2>4
  <1>2. h = Def(h)
    <2>1. ASSUME NEW i \in 1 .. Len(bs)
          PROVE  h[i] = IF i = 1 THEN bs[i] ELSE h[i - 1] \o bs[i]
      <3>1. CASE i = 1
        BY <1>1, <3>1
      <3>2. CASE i # 1
        <4>1. h[i] = f[i] /\ h[i - 1] = f[i - 1]
          BY <3>2
        <4> QED
          BY <3>2, <4>1 DEF Joins
      <3> QED
        BY <3>1, <3>2
    <2> QED
      BY <2>1
  <1>3. flat = Def(flat)
    <2> HIDE DEF Def, h
    <2> QED
      BY <1>2
  <1>4. /\ flat[1] = bs[1]
        /\ \A i \in 2 .. Len(bs) : flat[i] = flat[i - 1] \o bs[i]
    <2> HIDE DEF flat
    <2>1. flat[1] = bs[1]
      BY <1>3
    <2>2. ASSUME NEW i \in 2 .. Len(bs) PROVE flat[i] = flat[i - 1] \o bs[i]
      <3>1. i \in 1 .. Len(bs) /\ i # 1
        OBVIOUS
      <3> QED
        BY <1>3, <3>1
    <2> QED
      BY <2>1, <2>2
  <1>5. Len(bs) - 1 \in S
    <2> HIDE DEF flat
    <2>1. 0 \in S
      BY <1>1, <1>4
    <2>2. ASSUME NEW n \in Nat, n \in S PROVE n + 1 \in S
      <3> SUFFICES ASSUME n + 2 <= Len(bs) PROVE flat[n + 2] = f[n + 2]
        OBVIOUS
      <3>1. flat[n + 1] = f[n + 1] /\ n + 2 \in 2 .. Len(bs) /\ n + 2 \in 1 .. Len(bs)
        BY <2>2
      <3>2. (n + 2) - 1 = n + 1
        OBVIOUS
      <3>3. flat[n + 2] = flat[(n + 2) - 1] \o bs[n + 2]
        BY <1>4, <3>1
      <3>4. f[n + 2] = f[(n + 2) - 1] \o bs[n + 2]
        BY <3>1 DEF Joins
      <3> QED
        BY <3>1, <3>2, <3>3, <3>4
    <2>3. Len(bs) - 1 \in Nat
      OBVIOUS
    <2> HIDE DEF S
    <2> QED
      BY <2>1, <2>2, <2>3, NatSetInduction
  <1>6. FlattenSeq(bs) = flat[Len(bs)]
    BY DEF FlattenSeq
  <1> HIDE DEF flat
  <1> QED
    BY <1>5, <1>6

LEMMA FlattenType ==
  ASSUME NEW P, NEW bs \in Seq(Seq(P))
  PROVE  FlattenSeq(bs) \in Seq(P)
  <1>1. PICK f : Joins(f, bs, P)
    BY JoinsExist
  <1>2. FlattenSeq(bs) = f[Len(bs)]
    BY <1>1, FlattenIs
  <1> QED
    BY <1>1, <1>2 DEF Joins

LEMMA FlattenEmpty == FlattenSeq(<<>>) = <<>>
  BY DEF FlattenSeq

\* A new block.
LEMMA FlattenAppend ==
  ASSUME NEW P, NEW bs \in Seq(Seq(P)), NEW b \in Seq(P)
  PROVE  FlattenSeq(Append(bs, b)) = FlattenSeq(bs) \o b
  <1>1. PICK f : Joins(f, bs, P)
    BY JoinsExist
  <1> DEFINE t == Append(bs, b)
             L == Len(bs)
             g == [i \in 0 .. L + 1 |-> IF i = L + 1 THEN f[L] \o b ELSE f[i]]
  <1>2. t \in Seq(Seq(P)) /\ Len(t) = L + 1 /\ L \in Nat
    OBVIOUS
  <1>3. FlattenSeq(bs) = f[L] /\ f[L] \in Seq(P)
    BY <1>1, FlattenIs DEF Joins
  <1>4. Joins(g, t, P)
    <2>1. f[L] \o b \in Seq(P)
      BY <1>3
    <2>2. g \in [0 .. L + 1 -> Seq(P)] /\ g[0] = <<>>
      BY <1>1, <1>2, <2>1 DEF Joins
    <2>3. ASSUME NEW i \in 1 .. L + 1 PROVE g[i] = g[i - 1] \o t[i]
      <3>1. CASE i = L + 1
        <4>1. g[i] = f[L] \o b /\ g[i - 1] = f[L] /\ t[i] = b
          BY <1>2, <3>1
        <4> QED
          BY <4>1
      <3>2. CASE i \in 1 .. L
        <4>1. g[i] = f[i] /\ g[i - 1] = f[i - 1] /\ t[i] = bs[i]
          BY <1>2, <3>2
        <4> QED
          BY <1>1, <3>2, <4>1 DEF Joins
      <3> HIDE DEF g, t
      <3> QED
        BY <1>2, <3>1, <3>2
    <2> HIDE DEF g, t
    <2> QED
      BY <1>2, <2>2, <2>3 DEF Joins
  <1>5. FlattenSeq(t) = g[Len(t)]
    <2> HIDE DEF g, t
    <2> QED
      BY <1>2, <1>4, FlattenIs
  <1> QED
    BY <1>2, <1>3, <1>5

\* A piece more in the last block.
LEMMA FlattenGrow ==
  ASSUME NEW P, NEW bs \in Seq(Seq(P)), bs # <<>>, NEW p \in P
  PROVE  FlattenSeq(Append(Front(bs), Append(Last(bs), p))) = Append(FlattenSeq(bs), p)
  <1> DEFINE a == Front(bs)
             b == Last(bs)
  <1>1. a \in Seq(Seq(P)) /\ b \in Seq(P) /\ bs = Append(a, b)
    BY DEF Front, Last
  <1> HIDE DEF a, b
  <1>2. FlattenSeq(bs) = FlattenSeq(a) \o b
    BY <1>1, FlattenAppend
  <1>3. Append(b, p) \in Seq(P)
    BY <1>1
  <1>4. FlattenSeq(Append(a, Append(b, p))) = FlattenSeq(a) \o Append(b, p)
    BY <1>1, <1>3, FlattenAppend
  <1>5. FlattenSeq(a) \in Seq(P)
    BY <1>1, FlattenType
  <1>6. FlattenSeq(a) \o Append(b, p) = Append(FlattenSeq(a) \o b, p)
    BY <1>1, <1>5
  <1> QED
    BY <1>2, <1>4, <1>6 DEF a, b
-----------------------------------------------------------------------------
(* The indices of the ring. *)

LEMMA ModFacts ==
  ASSUME NEW x \in Int
  PROVE  /\ 0 <= x /\ x < Size => x % Size = x
         /\ -Size <= x /\ x < 0 => x % Size = x + Size
         /\ Size <= x /\ x < 2 * Size => x % Size = x - Size
  BY FmtAssumption

Index == 0 .. Size - 1

LEMMA CountFacts ==
  ASSUME NEW h \in Index, NEW t \in Index
  PROVE  /\ CIRC_CNT(h, t) = IF h >= t THEN h - t ELSE h - t + Size
         /\ CIRC_SPACE(h, t) = Size - 1 - CIRC_CNT(h, t)
  <1>1. Size \in Nat \ {0}
    BY FmtAssumption
  <1>2. h - t \in Int /\ t - (h + 1) \in Int
    BY DEF Index
  <1> QED
    BY <1>1, <1>2, ModFacts DEF CIRC_CNT, CIRC_SPACE, Index

\* n bytes more, if there is space.
LEMMA CountGrows ==
  ASSUME NEW h \in Index, NEW t \in Index, NEW n \in Nat, n <= CIRC_SPACE(h, t)
  PROVE  /\ Advanced(h, n) \in Index
         /\ CIRC_CNT(Advanced(h, n), t) = CIRC_CNT(h, t) + n
  <1>1. Size \in Nat \ {0}
    BY FmtAssumption
  <1>2. h + n < 2 * Size /\ h + n \in Int
    BY <1>1, CountFacts DEF Index
  <1>3. Advanced(h, n) = IF h + n < Size THEN h + n ELSE h + n - Size
    BY <1>1, <1>2, ModFacts DEF Advanced, Index
  <1>4. Advanced(h, n) \in Index
    BY <1>1, <1>2, <1>3 DEF Index
  <1> QED
    BY <1>1, <1>3, <1>4, CountFacts DEF Index

\* n bytes less, if they are there.
LEMMA CountShrinks ==
  ASSUME NEW h \in Index, NEW t \in Index, NEW n \in Nat, n <= CIRC_CNT(h, t)
  PROVE  /\ Advanced(t, n) \in Index
         /\ CIRC_CNT(h, Advanced(t, n)) = CIRC_CNT(h, t) - n
  <1>1. Size \in Nat \ {0}
    BY FmtAssumption
  <1>2. t + n < 2 * Size /\ t + n \in Int
    BY <1>1, CountFacts DEF Index
  <1>3. Advanced(t, n) = IF t + n < Size THEN t + n ELSE t + n - Size
    BY <1>1, <1>2, ModFacts DEF Advanced, Index
  <1>4. Advanced(t, n) \in Index
    BY <1>1, <1>2, <1>3 DEF Index
  <1> QED
    BY <1>1, <1>3, <1>4, CountFacts DEF Index
=============================================================================
