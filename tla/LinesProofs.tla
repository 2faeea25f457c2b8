---------------------------- MODULE LinesProofs ----------------------------
(***************************************************************************)
(* What the operators on lines do, for sequences of every length.  Where a *)
(* proof goes through a sequence, it shows that a set of numbers contains  *)
(* each one that follows one of its own (Induct).                          *)
(***************************************************************************)
EXTENDS Lines, FiniteSetTheorems, SequenceTheorems, WellFoundedInduction, TLAPS

-----------------------------------------------------------------------------
(* Numbers *)

LEMMA Least ==
  ASSUME NEW S \in SUBSET Nat, S # {}
  PROVE  \E x \in S : \A y \in S : x <= y
<1> DEFINE R == OpToRel(<, Nat)
<1>1. \E x \in S : \A y \in S : <<y, x>> \notin R
  BY NatLessThanWellFounded, WFMin
<1>2. \A x, y \in Nat : <<y, x>> \notin R => x <= y
  BY DEF OpToRel
<1>. QED BY <1>1, <1>2

LEMMA Induct ==
  ASSUME NEW n \in Nat, NEW S, 0 \in S, \A i \in 0 .. n - 1 : i \in S => i + 1 \in S
  PROVE  n \in S /\ 0 .. n \subseteq S
<1> DEFINE Out == {i \in 0 .. n : i \notin S}
<1>1. SUFFICES ASSUME Out # {} PROVE FALSE
  OBVIOUS
<1>2. PICK m \in Out : \A i \in Out : m <= i
  BY <1>1, Least, Out \in SUBSET Nat
<1>3. m - 1 \in 0 .. n - 1 /\ m - 1 \notin Out
  BY <1>2
<1>. QED BY <1>2, <1>3

(* Min of a set of numbers that has one *)
LEMMA MinOf ==
  ASSUME NEW S \in SUBSET Nat, S # {}
  PROVE  Min(S) \in S /\ \A x \in S : Min(S) <= x
BY Least DEF Min

LEMMA FirstOfIs ==
  ASSUME NEW t, Len(t) \in Nat, NEW S \in SUBSET (1 .. Len(t)), NEW i \in Nat
  PROVE  /\ FirstOf(S, i, t) \in Nat
         /\ \/ FirstOf(S, i, t) \in S /\ FirstOf(S, i, t) >= i
            \/ FirstOf(S, i, t) = Len(t) + 1
         /\ \A j \in S : j >= i => FirstOf(S, i, t) <= j
<1> DEFINE at == {j \in S : j >= i}
<1>1. FirstOf(S, i, t) = IF at = {} THEN Len(t) + 1 ELSE Min(at)
  BY DEF FirstOf
<1>2. at # {} => Min(at) \in at /\ \A x \in at : Min(at) <= x
  BY MinOf
<1>. HIDE DEF FirstOf
<1>3. CASE at = {}
  BY <1>1, <1>3
<1>4. CASE at # {}
  <2>1. FirstOf(S, i, t) = Min(at)
    BY <1>1, <1>4
  <2>2. Min(at) \in S /\ Min(at) >= i /\ \A x \in S : x >= i => Min(at) <= x
    BY <1>2, <1>4
  <2>3. \A x \in S : x \in Nat
    OBVIOUS
  <2>. HIDE DEF at
  <2>4. FirstOf(S, i, t) \in Nat
    BY <2>1, <2>2, <2>3
  <2>5. FirstOf(S, i, t) \in S /\ FirstOf(S, i, t) >= i
    BY <2>1, <2>2
  <2>6. \A j \in S : j >= i => FirstOf(S, i, t) <= j
    BY <2>1, <2>2
  <2>. QED BY <2>4, <2>5, <2>6
<1>. QED BY <1>3, <1>4

-----------------------------------------------------------------------------
(* FlattenSeq *)

(* f holds what the first sequences of ss make up together. *)
Joins(f, ss) ==
  f[0] = <<>> /\ \A i \in 1 .. Len(ss) : f[i] = f[i - 1] \o ss[i]

LEMMA JoinsExist ==
  ASSUME NEW S, NEW ss \in Seq(Seq(S))
  PROVE  \E f \in [0 .. Len(ss) -> Seq(S)] : Joins(f, ss)
<1> DEFINE Upto(f, n) == f[0] = <<>> /\ \A i \in 1 .. n : f[i] = f[i - 1] \o ss[i]
           N == {n \in 0 .. Len(ss) : \E f \in [0 .. n -> Seq(S)] : Upto(f, n)}
<1>1. Len(ss) \in Nat
  OBVIOUS
<1>2. 0 \in N
  <2> DEFINE z == [i \in 0 .. 0 |-> <<>>]
  <2>1. z[0] = <<>> /\ z \in [0 .. 0 -> Seq(S)]
    OBVIOUS
  <2>2. Upto(z, 0)
    BY <2>1
  <2>. HIDE DEF z, Upto
  <2>. QED BY <1>1, <2>1, <2>2
<1>3. ASSUME NEW n \in 0 .. Len(ss) - 1, n \in N
      PROVE  n + 1 \in N
  <2>. HIDE DEF Upto
  <2>1. PICK f \in [0 .. n -> Seq(S)] : Upto(f, n)
    BY <1>3
  <2>2. n \in Nat /\ n + 1 \in 1 .. Len(ss)
    BY <1>1
  <2>3. PICK next \in Seq(S) : next = f[n] \o ss[n + 1]
    <3>1. f[n] \in Seq(S) /\ ss[n + 1] \in Seq(S)
      BY <2>2
    <3>2. f[n] \o ss[n + 1] \in Seq(S)
      BY <3>1, ConcatProperties
    <3>. QED BY <3>2
  <2> DEFINE g == [i \in 0 .. n + 1 |-> IF i = n + 1 THEN next ELSE f[i]]
  <2>4. g[n + 1] = next /\ \A i \in 0 .. n : g[i] = f[i]
    BY <2>2
  <2>5. g \in [0 .. n + 1 -> Seq(S)]
    BY <2>2
  <2>. HIDE DEF g
  <2>6. ASSUME NEW i \in 1 .. n + 1 PROVE g[i] = g[i - 1] \o ss[i]
    <3>1. CASE i = n + 1
      <4>1. g[i] = next /\ g[i - 1] = f[n]
        BY <2>2, <2>4, <3>1
      <4>. QED BY <2>3, <3>1, <4>1
    <3>2. CASE i \in 1 .. n
      <4>1. g[i] = f[i] /\ g[i - 1] = f[i - 1]
        BY <2>2, <2>4, <3>2
      <4>. QED BY <2>1, <3>2, <4>1 DEF Upto
    <3>3. i = n + 1 \/ i \in 1 .. n
      BY <2>2
    <3>. QED BY <3>1, <3>2, <3>3
  <2>7. g[0] = <<>>
    BY <2>1, <2>2, <2>4 DEF Upto
  <2>8. Upto(g, n + 1)
    BY <2>6, <2>7 DEF Upto
  <2>. QED BY <2>2, <2>5, <2>8
<1>4. Len(ss) \in N
  <2>. HIDE DEF N
  <2>1. 0 .. Len(ss) \subseteq N
    BY <1>1, <1>2, <1>3, Induct
  <2>. QED BY <1>1, <2>1
<1>. QED BY <1>4 DEF Joins

LEMMA Flattened ==
  ASSUME NEW S, NEW ss \in Seq(Seq(S))
  PROVE  \E f \in [0 .. Len(ss) -> Seq(S)] : Joins(f, ss) /\ FlattenSeq(ss) = f[Len(ss)]
<1>1. PICK f \in [0 .. Len(ss) -> Seq(S)] : Joins(f, ss)
  BY JoinsExist
<1>2. Len(ss) \in Nat
  OBVIOUS
<1>3. CASE Len(ss) = 0
  <2>1. ss = <<>>
    BY <1>3
  <2>2. FlattenSeq(ss) = <<>>
    BY <1>3, <2>1 DEF FlattenSeq
  <2>. QED BY <1>1, <1>3, <2>2 DEF Joins
<1>4. CASE Len(ss) # 0
  <2> DEFINE Is(g) == g = [i \in 1 .. Len(ss) |-> IF i = 1 THEN ss[i] ELSE g[i - 1] \o ss[i]]
             h == [i \in 1 .. Len(ss) |-> f[i]]
  <2>1. FlattenSeq(ss) = (CHOOSE g : Is(g))[Len(ss)]
    BY <1>4 DEF FlattenSeq
  <2>2. ASSUME NEW i \in 1 .. Len(ss), i # 1
        PROVE  f[i] = h[i - 1] \o ss[i]
    <3>1. f[i] = f[i - 1] \o ss[i]
      BY <1>1 DEF Joins
    <3>2. i - 1 \in 1 .. Len(ss)
      BY <1>2, <2>2
    <3>. QED BY <3>1, <3>2
  <2>3. f[1] = ss[1]
    <3>1. 1 \in 1 .. Len(ss) /\ 1 - 1 = 0
      BY <1>2, <1>4
    <3>2. f[1] = f[1 - 1] \o ss[1] /\ f[0] = <<>>
      BY <1>1, <3>1 DEF Joins
    <3>3. ss[1] \in Seq(S)
      BY <3>1
    <3>4. f[1] = <<>> \o ss[1]
      BY <3>1, <3>2
    <3>. QED BY <3>3, <3>4, ConcatEmptySeq
  <2>4. Is(h)
    <3>1. \A i \in 1 .. Len(ss) : f[i] = IF i = 1 THEN ss[i] ELSE h[i - 1] \o ss[i]
      BY <2>2, <2>3
    <3>. QED BY <3>1
  <2>5. ASSUME NEW g, Is(g)
        PROVE  g[Len(ss)] = f[Len(ss)]
    <3>1. \A i \in 1 .. Len(ss) : g[i] = IF i = 1 THEN ss[i] ELSE g[i - 1] \o ss[i]
      BY <2>5
    <3>. HIDE DEF Is
    <3> DEFINE Same == {i \in 0 .. Len(ss) : i # 0 => g[i] = f[i]}
    <3>2. ASSUME NEW i \in 0 .. Len(ss) - 1, i \in Same PROVE i + 1 \in Same
      <4>1. PICK k \in 1 .. Len(ss) : k = i + 1 /\ k - 1 = i
        BY <1>2
      <4>2. CASE i = 0
        <5>1. g[1] = ss[1]
          BY <3>1, <4>1, <4>2
        <5>. QED BY <2>3, <4>1, <4>2, <5>1
      <4>3. CASE i # 0
        <5>1. k # 1
          BY <4>1, <4>3
        <5>2. g[k] = g[k - 1] \o ss[k]
          BY <3>1, <5>1
        <5>3. f[k] = f[k - 1] \o ss[k]
          BY <1>1 DEF Joins
        <5>4. g[k - 1] = f[k - 1]
          BY <3>2, <4>1, <4>3
        <5>5. g[k] = f[k]
          BY <5>2, <5>3, <5>4
        <5>6. k \in Same
          BY <5>5, <1>2
        <5>. QED BY <4>1, <5>6
      <4>. QED BY <4>2, <4>3
    <3>3. 0 \in Same
      BY <1>2
    <3>4. 0 .. Len(ss) \subseteq Same
      <4>. HIDE DEF Same
      <4>. QED BY <1>2, <3>2, <3>3, Induct
    <3>5. Len(ss) \in Same
      <4>. HIDE DEF Same
      <4>. QED BY <1>2, <3>4
    <3>. QED BY <1>4, <3>5
  <2>6. Is(CHOOSE g : Is(g))
    <3>. HIDE DEF Is, h
    <3>. QED BY <2>4
  <2>. HIDE DEF Is
  <2>. QED BY <1>1, <2>1, <2>5, <2>6
<1>. QED BY <1>3, <1>4

LEMMA MakeSeq ==
  ASSUME NEW n \in Nat, NEW S, NEW f \in [1 .. n -> S]
  PROVE  f \in Seq(S) /\ Len(f) = n
OBVIOUS

LEMMA FlatType ==
  ASSUME NEW S, NEW ss \in Seq(Seq(S))
  PROVE  FlattenSeq(ss) \in Seq(S)
<1>1. PICK f \in [0 .. Len(ss) -> Seq(S)] : Joins(f, ss) /\ FlattenSeq(ss) = f[Len(ss)]
  BY Flattened
<1>2. Len(ss) \in 0 .. Len(ss)
  OBVIOUS
<1>. QED BY <1>1, <1>2

LEMMA JoinStep ==
  ASSUME NEW S, NEW ss \in Seq(Seq(S)), NEW f \in [0 .. Len(ss) -> Seq(S)], Joins(f, ss),
         NEW m \in 0 .. Len(ss) - 1
  PROVE  /\ f[m] \in Seq(S) /\ ss[m + 1] \in Seq(S) /\ f[m + 1] \in Seq(S)
         /\ f[m + 1] = f[m] \o ss[m + 1]
<1>1. PICK k \in 1 .. Len(ss) : k = m + 1 /\ k - 1 = m
  OBVIOUS
<1>2. m \in 0 .. Len(ss) /\ k \in 0 .. Len(ss)
  BY <1>1
<1>3. f[k] = f[k - 1] \o ss[k]
  BY DEF Joins
<1>4. f[m] \in Seq(S) /\ f[k] \in Seq(S)
  BY <1>2
<1>5. ss[k] \in Seq(S)
  OBVIOUS
<1>. QED BY <1>1, <1>3, <1>4, <1>5

LEMMA Cat ==
  ASSUME NEW S, NEW s \in Seq(S), NEW u \in Seq(S)
  PROVE  /\ s \o u \in Seq(S) /\ Len(s \o u) = Len(s) + Len(u)
         /\ Len(s) \in Nat /\ Len(u) \in Nat
         /\ \A i \in 1 .. Len(s) : (s \o u)[i] = s[i]
         /\ \A j \in 1 .. Len(u) : (s \o u)[Len(s) + j] = u[j]
OBVIOUS

(* Every element of one of the sequences is in what they make up.          *)
LEMMA FlatHas ==
  ASSUME NEW S, NEW ss \in Seq(Seq(S)), NEW i \in 1 .. Len(ss), NEW j \in 1 .. Len(ss[i])
  PROVE  \E k \in 1 .. Len(FlattenSeq(ss)) : FlattenSeq(ss)[k] = ss[i][j]
<1>1. PICK f \in [0 .. Len(ss) -> Seq(S)] : Joins(f, ss) /\ FlattenSeq(ss) = f[Len(ss)]
  BY Flattened
<1>2. Len(ss) \in Nat /\ i \in Nat
  OBVIOUS
<1> DEFINE Has(s) == \E k \in 1 .. Len(s) : s[k] = ss[i][j]
           N == {m \in 0 .. Len(ss) : m >= i => Has(f[m])}
<1>3. 0 \in N
  BY <1>2
<1>4. ASSUME NEW m \in 0 .. Len(ss) - 1, m \in N
      PROVE  m + 1 \in N
  <2>1. PICK a \in Seq(S), c \in Seq(S) :
          a = f[m] /\ c = ss[m + 1] /\ f[m + 1] = a \o c
    BY <1>1, JoinStep
  <2>2. /\ Len(a \o c) = Len(a) + Len(c) /\ Len(a) \in Nat /\ Len(c) \in Nat
        /\ \A h \in 1 .. Len(a) : (a \o c)[h] = a[h]
        /\ \A h \in 1 .. Len(c) : (a \o c)[Len(a) + h] = c[h]
    BY Cat
  <2>3. CASE m >= i
    <3>1. PICK h \in 1 .. Len(a) : a[h] = ss[i][j]
      BY <1>4, <2>1, <2>3
    <3>2. h \in 1 .. Len(a \o c) /\ (a \o c)[h] = ss[i][j]
      BY <2>2, <3>1
    <3>3. Has(f[m + 1])
      BY <2>1, <3>2
    <3>. HIDE DEF Has
    <3>. QED BY <1>2, <3>3
  <2>4. CASE m + 1 = i
    <3>1. c = ss[i] /\ j \in 1 .. Len(c)
      BY <2>1, <2>4
    <3>2. Len(a) + j \in 1 .. Len(a \o c) /\ (a \o c)[Len(a) + j] = ss[i][j]
      BY <2>2, <3>1
    <3>3. Has(f[m + 1])
      BY <2>1, <3>2
    <3>. HIDE DEF Has
    <3>. QED BY <1>2, <3>3
  <2>5. CASE m + 1 < i
    BY <1>2, <2>5
  <2>. QED BY <1>2, <2>3, <2>4, <2>5
<1>5. Len(ss) \in N
  <2>. HIDE DEF N
  <2>. QED BY <1>2, <1>3, <1>4, Induct
<1>. QED BY <1>1, <1>2, <1>5

-----------------------------------------------------------------------------
(* Picked, Where, Before and After *)

LEMMA PickedType ==
  ASSUME NEW S, NEW t \in Seq(S), NEW K, NEW T,
         \A i \in 1 .. Len(t) : i \in K => t[i] \in T
  PROVE  Picked(t, K) \in Seq(T)
<1> DEFINE ss == [i \in 1 .. Len(t) |-> IF i \in K THEN <<t[i]>> ELSE <<>>]
<1>1. \A i \in 1 .. Len(t) : (IF i \in K THEN <<t[i]>> ELSE <<>>) \in Seq(T)
  OBVIOUS
<1>2. Len(t) \in Nat /\ DOMAIN t = 1 .. Len(t)
  OBVIOUS
<1>3. ss \in [1 .. Len(t) -> Seq(T)]
  BY <1>1
<1>. HIDE DEF ss
<1>4. ss \in Seq(Seq(T))
  BY <1>2, <1>3, MakeSeq
<1>5. FlattenSeq(ss) \in Seq(T)
  BY <1>4, FlatType
<1>. QED BY <1>2, <1>5 DEF ss, Picked

LEMMA PickedHas ==
  ASSUME NEW S, NEW t \in Seq(S), NEW K, NEW i \in 1 .. Len(t), i \in K
  PROVE  \E k \in 1 .. Len(Picked(t, K)) : Picked(t, K)[k] = t[i]
<1> DEFINE ss == [j \in 1 .. Len(t) |-> IF j \in K THEN <<t[j]>> ELSE <<>>]
<1>1. \A j \in 1 .. Len(t) : (IF j \in K THEN <<t[j]>> ELSE <<>>) \in Seq(S)
  OBVIOUS
<1>2. Len(t) \in Nat /\ DOMAIN t = 1 .. Len(t)
  OBVIOUS
<1>3. ss \in [1 .. Len(t) -> Seq(S)]
  BY <1>1
<1>4. ss[i] = <<t[i]>>
  OBVIOUS
<1>. HIDE DEF ss
<1>5. ss \in Seq(Seq(S)) /\ Len(ss) = Len(t)
  BY <1>2, <1>3, MakeSeq
<1>6. 1 \in 1 .. Len(ss[i]) /\ ss[i][1] = t[i]
  BY <1>4
<1>7. \E k \in 1 .. Len(FlattenSeq(ss)) : FlattenSeq(ss)[k] = ss[i][1]
  BY <1>5, <1>6, FlatHas
<1>. QED BY <1>2, <1>6, <1>7 DEF ss, Picked

LEMMA PickedNone ==
  ASSUME NEW S, NEW t \in Seq(S), NEW K, \A i \in 1 .. Len(t) : i \notin K
  PROVE  Picked(t, K) = <<>>
<1>1. Picked(t, K) \in Seq({})
  BY PickedType
<1>2. Len(Picked(t, K)) = 0
  <2>1. ASSUME Len(Picked(t, K)) # 0 PROVE FALSE
    <3>1. 1 \in 1 .. Len(Picked(t, K))
      BY <1>1, <2>1
    <3>2. Picked(t, K)[1] \in {}
      BY <1>1, <3>1, ElementOfSeq
    <3>. QED BY <3>2
  <2>. QED BY <2>1
<1>. QED BY <1>1, <1>2

LEMMA CutType ==
  ASSUME NEW S, NEW t \in Seq(S), NEW i \in 1 .. Len(t) + 1
  PROVE  /\ Before(t, i) \in Seq(S) /\ Len(Before(t, i)) = i - 1
         /\ After(t, i) \in Seq(S) /\ Len(After(t, i)) = Len(t) - i + 1
         /\ \A j \in 1 .. i - 1 : Before(t, i)[j] = t[j]
         /\ \A j \in 1 .. Len(t) - i + 1 : After(t, i)[j] = t[i + j - 1]
<1>1. Len(t) \in Nat /\ \A j \in 1 .. Len(t) : t[j] \in S
  OBVIOUS
<1>2. i - 1 \in Int /\ \A j \in 1 .. i - 1 : t[j] \in S
  BY <1>1
<1>3. i \in Int /\ Len(t) \in Int /\ \A j \in i .. Len(t) : t[j] \in S
  BY <1>1
<1>4. /\ SubSeq(t, 1, i - 1) \in Seq(S)
      /\ Len(SubSeq(t, 1, i - 1)) = i - 1
      /\ \A j \in 1 .. i - 1 : SubSeq(t, 1, i - 1)[j] = t[j]
  BY <1>1, <1>2, SubSeqProperties
<1>5. /\ SubSeq(t, i, Len(t)) \in Seq(S)
      /\ Len(SubSeq(t, i, Len(t))) = Len(t) - i + 1
      /\ \A j \in 1 .. Len(t) - i + 1 : SubSeq(t, i, Len(t))[j] = t[i + j - 1]
  BY <1>1, <1>3, SubSeqProperties
<1>. QED BY <1>4, <1>5 DEF Before, After

-----------------------------------------------------------------------------
(* Going through a sequence                                                *)

LEMMA Growing ==
  ASSUME NEW S, NEW t \in Seq(S)
  PROVE  /\ Len(t) \in Nat /\ SubSeq(t, 1, 0) = <<>> /\ SubSeq(t, 1, Len(t)) = t
         /\ \A i \in 0 .. Len(t) : SubSeq(t, 1, i) \in Seq(S) /\ Len(SubSeq(t, 1, i)) = i
         /\ \A i \in 0 .. Len(t) - 1 :
              t[i + 1] \in S /\ SubSeq(t, 1, i + 1) = Append(SubSeq(t, 1, i), t[i + 1])
<1>1. Len(t) \in Nat /\ SubSeq(t, 1, 0) = <<>> /\ SubSeq(t, 1, Len(t)) = t
  OBVIOUS
<1>2. ASSUME NEW i \in 0 .. Len(t)
      PROVE  SubSeq(t, 1, i) \in Seq(S) /\ Len(SubSeq(t, 1, i)) = i
  OBVIOUS
<1>3. ASSUME NEW i \in 0 .. Len(t) - 1
      PROVE  t[i + 1] \in S /\ SubSeq(t, 1, i + 1) = Append(SubSeq(t, 1, i), t[i + 1])
  <2>1. t[i + 1] \in S
    OBVIOUS
  <2>2. SubSeq(t, 1, i + 1) = Append(SubSeq(t, 1, i), t[i + 1])
    OBVIOUS
  <2>. QED BY <2>1, <2>2
<1>. QED BY <1>1, <1>2, <1>3

LEMMA OneMore ==
  ASSUME NEW S, NEW t \in Seq(S), NEW i \in 0 .. Len(t) - 1
  PROVE  /\ SubSeq(t, 1, i) \in Seq(S) /\ SubSeq(t, 1, i + 1) \in Seq(S)
         /\ SubSeq(t, 1, i + 1) = Append(SubSeq(t, 1, i), t[i + 1])
<1>1. i \in 0 .. Len(t) /\ i + 1 \in 0 .. Len(t)
  OBVIOUS
<1>2. SubSeq(t, 1, i) \in Seq(S) /\ SubSeq(t, 1, i + 1) \in Seq(S)
  BY <1>1, Growing
<1>3. SubSeq(t, 1, i + 1) = Append(SubSeq(t, 1, i), t[i + 1])
  BY Growing
<1>. QED BY <1>2, <1>3

(* Two sequences of one length, element by element                         *)
LEMMA PointSim ==
  ASSUME NEW S, NEW t \in Seq(S), NEW u \in Seq(S), Len(t) = Len(u),
         NEW R, <<<<>>, <<>>>> \in R,
         \A i \in 1 .. Len(t), s \in Seq(S), r \in Seq(S) :
           <<s, r>> \in R => <<Append(s, t[i]), Append(r, u[i])>> \in R
  PROVE  <<t, u>> \in R
<1> DEFINE In(i) == <<SubSeq(t, 1, i), SubSeq(u, 1, i)>> \in R
           N == {i \in 0 .. Len(t) : In(i)}
<1>0. Len(t) \in Nat /\ In(0)
  <2>1. SubSeq(t, 1, 0) = <<>> /\ SubSeq(u, 1, 0) = <<>> /\ Len(t) \in Nat
    BY Growing
  <2>. QED BY <2>1
<1>2. ASSUME NEW i \in 0 .. Len(t) - 1, In(i) PROVE In(i + 1)
  <2>1. PICK s \in Seq(S), s2 \in Seq(S) :
          s = SubSeq(t, 1, i) /\ s2 = SubSeq(t, 1, i + 1) /\ s2 = Append(s, t[i + 1])
    BY <1>0, OneMore
  <2>2. PICK r \in Seq(S), r2 \in Seq(S) :
          r = SubSeq(u, 1, i) /\ r2 = SubSeq(u, 1, i + 1) /\ r2 = Append(r, u[i + 1])
    BY <1>0, OneMore
  <2>3. i + 1 \in 1 .. Len(t)
    BY <1>0
  <2>4. <<Append(s, t[i + 1]), Append(r, u[i + 1])>> \in R
    BY <1>2, <2>1, <2>2, <2>3
  <2>. QED BY <2>1, <2>2, <2>4
<1>. HIDE DEF In
<1>1. 0 \in N
  BY <1>0
<1>3. Len(t) \in N
  <2>. HIDE DEF N
  <2>1. \A i \in 0 .. Len(t) - 1 : i \in N => i + 1 \in N
    BY <1>0, <1>2 DEF N
  <2>. QED BY <1>0, <1>1, <2>1, Induct
<1>. QED BY <1>3, Growing DEF In

LEMMA AttachNone ==
  ASSUME NEW S, NEW x \in Seq(S)
  PROVE  x \o <<>> = x /\ <<>> \o x = x
OBVIOUS

LEMMA AttachLine ==
  ASSUME NEW S, NEW x \in Seq(S), NEW y \in Seq(S), NEW l \in S
  PROVE  x \o Append(y, l) = Append(x \o y, l) /\ x \o <<l>> = Append(x, l)
OBVIOUS

LEMMA AttachSeq ==
  ASSUME NEW S, NEW x \in Seq(S), NEW y \in Seq(S), NEW z \in Seq(S)
  PROVE  /\ x \o (y \o z) = (x \o y) \o z
         /\ x \o y \in Seq(S) /\ y \o z \in Seq(S) /\ (x \o y) \o z \in Seq(S)
<1>1. x \o y \in Seq(S) /\ y \o z \in Seq(S)
  BY ConcatProperties
<1>2. (x \o y) \o z \in Seq(S)
  BY <1>1, ConcatProperties
<1>. QED BY <1>1, <1>2

(* The same lines after two beginnings                                     *)
LEMMA SameTail ==
  ASSUME NEW S, NEW x \in Seq(S), NEW u \in Seq(S), NEW y \in Seq(S),
         NEW R, <<x, u>> \in R,
         \A s, r \in Seq(S), l \in S : <<s, r>> \in R => <<Append(s, l), Append(r, l)>> \in R
  PROVE  <<x \o y, u \o y>> \in R
<1> DEFINE In(i) == <<x \o SubSeq(y, 1, i), u \o SubSeq(y, 1, i)>> \in R
           N == {i \in 0 .. Len(y) : In(i)}
<1>1. Len(y) \in Nat /\ In(0)
  <2>1. SubSeq(y, 1, 0) = <<>> /\ Len(y) \in Nat
    BY Growing
  <2>. QED BY <2>1, AttachNone
<1>2. ASSUME NEW i \in 0 .. Len(y) - 1, In(i) PROVE In(i + 1)
  <2>1. PICK s \in Seq(S), s2 \in Seq(S) :
          s = SubSeq(y, 1, i) /\ s2 = SubSeq(y, 1, i + 1) /\ s2 = Append(s, y[i + 1])
    BY <1>1, OneMore
  <2>2. PICK l \in S : l = y[i + 1]
    BY <1>1, Growing
  <2>3. x \o s \in Seq(S) /\ u \o s \in Seq(S) /\ <<x \o s, u \o s>> \in R
    BY <1>2, <2>1, ConcatProperties
  <2>4. <<Append(x \o s, l), Append(u \o s, l)>> \in R
    BY <2>3
  <2>5. x \o Append(s, l) = Append(x \o s, l) /\ u \o Append(s, l) = Append(u \o s, l)
    BY AttachLine, SMTT(30)
  <2>. QED BY <2>1, <2>2, <2>4, <2>5
<1>. HIDE DEF In
<1>3. 0 \in N
  BY <1>1
<1>4. Len(y) \in N
  <2>. HIDE DEF N
  <2>1. \A i \in 0 .. Len(y) - 1 : i \in N => i + 1 \in N
    BY <1>1, <1>2 DEF N
  <2>. QED BY <1>1, <1>3, <2>1, Induct
<1>. QED BY <1>4, Growing DEF In

(* Lines that one side has more                                            *)
LEMMA MoreLines ==
  ASSUME NEW S, NEW x \in Seq(S), NEW y \in Seq(S), NEW P, x \in P,
         \A s \in Seq(S), i \in 1 .. Len(y) : s \in P => Append(s, y[i]) \in P
  PROVE  x \o y \in P
<1> DEFINE In(i) == x \o SubSeq(y, 1, i) \in P
           N == {i \in 0 .. Len(y) : In(i)}
<1>1. Len(y) \in Nat /\ In(0)
  <2>1. SubSeq(y, 1, 0) = <<>> /\ Len(y) \in Nat
    BY Growing
  <2>. QED BY <2>1, AttachNone
<1>2. ASSUME NEW i \in 0 .. Len(y) - 1, In(i) PROVE In(i + 1)
  <2>1. PICK s \in Seq(S), s2 \in Seq(S) :
          s = SubSeq(y, 1, i) /\ s2 = SubSeq(y, 1, i + 1) /\ s2 = Append(s, y[i + 1])
    BY <1>1, OneMore
  <2>2. y[i + 1] \in S /\ i + 1 \in 1 .. Len(y)
    BY <1>1, Growing
  <2>3. x \o s \in Seq(S) /\ x \o s \in P
    BY <1>2, <2>1, ConcatProperties
  <2>4. Append(x \o s, y[i + 1]) \in P
    BY <2>2, <2>3
  <2>5. PICK l \in S : l = y[i + 1]
    BY <2>2
  <2>6. x \o s2 = Append(x \o s, l)
    BY <2>1, <2>5, AttachLine
  <2>. QED BY <2>1, <2>4, <2>5, <2>6
<1>. HIDE DEF In
<1>3. 0 \in N
  BY <1>1
<1>4. Len(y) \in N
  <2>. HIDE DEF N
  <2>1. \A i \in 0 .. Len(y) - 1 : i \in N => i + 1 \in N
    BY <1>1, <1>2 DEF N
  <2>. QED BY <1>1, <1>3, <2>1, Induct
<1>. QED BY <1>4, Growing DEF In

(* What holds after each of the sequences that FlattenSeq puts in a row    *)
LEMMA FlatInduct ==
  ASSUME NEW S, NEW ss \in Seq(Seq(S)), NEW R, <<0, <<>>>> \in R,
         \A i \in 0 .. Len(ss) - 1, s \in Seq(S), c \in Seq(S) :
           <<i, s>> \in R /\ c = ss[i + 1] => <<i + 1, s \o c>> \in R
  PROVE  <<Len(ss), FlattenSeq(ss)>> \in R
<1>1. PICK f \in [0 .. Len(ss) -> Seq(S)] : Joins(f, ss) /\ FlattenSeq(ss) = f[Len(ss)]
  BY Flattened
<1> DEFINE In(m) == <<m, f[m]>> \in R
           N == {m \in 0 .. Len(ss) : In(m)}
<1>2. Len(ss) \in Nat /\ In(0)
  BY <1>1 DEF Joins
<1>3. ASSUME NEW m \in 0 .. Len(ss) - 1, In(m) PROVE In(m + 1)
  <2>1. PICK a \in Seq(S), c \in Seq(S) :
          a = f[m] /\ c = ss[m + 1] /\ f[m + 1] = a \o c
    BY <1>1, JoinStep
  <2>2. <<m + 1, a \o c>> \in R
    BY <1>3, <2>1
  <2>. QED BY <2>1, <2>2
<1>. HIDE DEF In
<1>4. 0 \in N
  BY <1>2
<1>5. Len(ss) \in N
  <2>. HIDE DEF N
  <2>1. \A i \in 0 .. Len(ss) - 1 : i \in N => i + 1 \in N
    BY <1>2, <1>3 DEF N
  <2>. QED BY <1>2, <1>4, <2>1, Induct
<1>. QED BY <1>1, <1>5 DEF In

(* A sequence, and what stands for each of its elements                    *)
LEMMA FlatSim ==
  ASSUME NEW S, NEW t \in Seq(S), NEW ss \in Seq(Seq(S)), Len(ss) = Len(t),
         NEW R, <<<<>>, <<>>>> \in R,
         \A i \in 1 .. Len(t), s, r, c \in Seq(S) :
           <<s, r>> \in R /\ c = ss[i] => <<Append(s, t[i]), r \o c>> \in R
  PROVE  <<t, FlattenSeq(ss)>> \in R
<1>1. PICK f \in [0 .. Len(ss) -> Seq(S)] : Joins(f, ss) /\ FlattenSeq(ss) = f[Len(ss)]
  BY Flattened
<1> DEFINE In(m) == <<SubSeq(t, 1, m), f[m]>> \in R
           N == {m \in 0 .. Len(ss) : In(m)}
<1>2. Len(ss) \in Nat /\ Len(t) \in Nat /\ In(0)
  <2>1. SubSeq(t, 1, 0) = <<>> /\ Len(t) \in Nat
    BY Growing
  <2>. QED BY <1>1, <2>1 DEF Joins
<1>3. ASSUME NEW m \in 0 .. Len(ss) - 1, In(m) PROVE In(m + 1)
  <2>1. PICK a \in Seq(S), c \in Seq(S) :
          a = f[m] /\ c = ss[m + 1] /\ f[m + 1] = a \o c
    BY <1>1, JoinStep
  <2>2. PICK s \in Seq(S), s2 \in Seq(S) :
          s = SubSeq(t, 1, m) /\ s2 = SubSeq(t, 1, m + 1) /\ s2 = Append(s, t[m + 1])
    BY <1>2, OneMore
  <2>3. m + 1 \in 1 .. Len(t)
    BY <1>2
  <2>4. <<Append(s, t[m + 1]), a \o c>> \in R
    BY <1>3, <2>1, <2>2, <2>3
  <2>. QED BY <2>1, <2>2, <2>4
<1>. HIDE DEF In
<1>4. 0 \in N
  BY <1>2
<1>5. Len(ss) \in N
  <2>. HIDE DEF N
  <2>1. \A i \in 0 .. Len(ss) - 1 : i \in N => i + 1 \in N
    BY <1>2, <1>3 DEF N
  <2>. QED BY <1>2, <1>4, <2>1, Induct
<1>. QED BY <1>1, <1>5, Growing DEF In

(* The sequences in a row after a beginning                                *)
LEMMA FlatOnto ==
  ASSUME NEW S, NEW x \in Seq(S), NEW ss \in Seq(Seq(S)), NEW P, x \in P,
         \A i \in 1 .. Len(ss), s, c \in Seq(S) : s \in P /\ c = ss[i] => s \o c \in P
  PROVE  x \o FlattenSeq(ss) \in P
<1>1. PICK f \in [0 .. Len(ss) -> Seq(S)] : Joins(f, ss) /\ FlattenSeq(ss) = f[Len(ss)]
  BY Flattened
<1> DEFINE In(m) == x \o f[m] \in P
           N == {m \in 0 .. Len(ss) : In(m)}
<1>2. Len(ss) \in Nat /\ In(0)
  BY <1>1, AttachNone DEF Joins
<1>3. ASSUME NEW m \in 0 .. Len(ss) - 1, In(m) PROVE In(m + 1)
  <2>1. PICK a \in Seq(S), c \in Seq(S) :
          a = f[m] /\ c = ss[m + 1] /\ f[m + 1] = a \o c
    BY <1>1, JoinStep
  <2>2. m + 1 \in 1 .. Len(ss)
    BY <1>2
  <2>3. x \o a \in Seq(S) /\ x \o a \in P
    BY <1>3, <2>1, ConcatProperties
  <2>4. (x \o a) \o c \in P
    BY <2>1, <2>2, <2>3
  <2>5. x \o (a \o c) = (x \o a) \o c
    <3>. HIDE DEF In, N
    <3>. QED BY SMTT(30)
  <2>. QED BY <2>1, <2>4, <2>5
<1>. HIDE DEF In
<1>4. 0 \in N
  BY <1>2
<1>5. Len(ss) \in N
  <2>. HIDE DEF N
  <2>1. \A i \in 0 .. Len(ss) - 1 : i \in N => i + 1 \in N
    BY <1>2, <1>3 DEF N
  <2>. QED BY <1>2, <1>4, <2>1, Induct
<1>. QED BY <1>1, <1>5 DEF In

(* A sequence whose elements are all in a smaller set                      *)
LEMMA Sieved ==
  ASSUME NEW S, NEW t \in Seq(S), NEW T, \A i \in 1 .. Len(t) : t[i] \in T
  PROVE  t \in Seq(T)
<1>1. Len(t) \in Nat /\ t = [i \in 1 .. Len(t) |-> t[i]]
  OBVIOUS
<1>. QED BY <1>1

LEMMA Excerpt ==
  ASSUME NEW S, NEW t \in Seq(S), NEW T, NEW a \in Nat \ {0}, NEW b \in 0 .. Len(t),
         \A i \in a .. b : t[i] \in T
  PROVE  SubSeq(t, a, b) \in Seq(T)
<1>1. a \in Int /\ b \in Int
  OBVIOUS
<1>2. CASE a <= b + 1
  BY <1>1, <1>2, SubSeqProperties
<1>3. CASE ~(a <= b + 1)
  <2>1. SubSeq(t, a, b) = <<>>
    BY <1>1, <1>3
  <2>. QED BY <2>1
<1>. QED BY <1>2, <1>3

LEMMA CutWhole ==
  ASSUME NEW S, NEW t \in Seq(S), NEW i \in 1 .. Len(t) + 1
  PROVE  Before(t, i) \o After(t, i) = t
<1> DEFINE b == Before(t, i)
           c == After(t, i)
<1>1. /\ b \in Seq(S) /\ Len(b) = i - 1 /\ c \in Seq(S) /\ Len(c) = Len(t) - i + 1
      /\ \A j \in 1 .. i - 1 : b[j] = t[j]
      /\ \A j \in 1 .. Len(t) - i + 1 : c[j] = t[i + j - 1]
  BY CutType
<1>. HIDE DEF b, c
<1>2. b \o c \in Seq(S) /\ Len(b \o c) = Len(b) + Len(c)
  BY <1>1, Cat
<1>3. Len(b \o c) = Len(t)
  BY <1>1, <1>2
<1>4. ASSUME NEW j \in 1 .. Len(t) PROVE (b \o c)[j] = t[j]
  <2>1. CASE j <= i - 1
    <3>1. j \in 1 .. Len(b) /\ j \in 1 .. i - 1
      BY <1>1, <2>1
    <3>2. (b \o c)[j] = b[j]
      BY <1>1, <3>1, Cat
    <3>. QED BY <1>1, <3>1, <3>2
  <2>2. CASE ~(j <= i - 1)
    <3>1. PICK h \in 1 .. Len(t) - i + 1 : j = i - 1 + h
      <4>1. j - i + 1 \in 1 .. Len(t) - i + 1 /\ j = i - 1 + (j - i + 1)
        BY <2>2
      <4>. QED BY <4>1
    <3>2. h \in 1 .. Len(c) /\ j = Len(b) + h /\ j = i + h - 1
      BY <1>1, <3>1
    <3>3. (b \o c)[Len(b) + h] = c[h]
      BY <1>1, <3>2, Cat
    <3>4. c[h] = t[i + h - 1]
      BY <1>1, <3>1
    <3>. QED BY <3>2, <3>3, <3>4
  <2>. QED BY <2>1, <2>2
<1> DEFINE u == b \o c
<1>5. u \in Seq(S) /\ Len(u) = Len(t) /\ \A j \in 1 .. Len(t) : u[j] = t[j]
  BY <1>2, <1>3, <1>4
<1>. HIDE DEF u
<1>6. u = t
  BY <1>5, SeqEqual
<1>. QED BY <1>6 DEF u, b, c

(* Max of a set of numbers up to n                                         *)
LEMMA MaxOf ==
  ASSUME NEW n \in Nat, NEW S \in SUBSET (0 .. n), S # {}
  PROVE  Max(S) \in S /\ \A x \in S : Max(S) >= x
<1> DEFINE R == {y \in Nat : \E x \in S : y = n - x}
<1>1. R # {}
  <2>1. PICK x \in S : TRUE
    OBVIOUS
  <2>2. n - x \in R
    OBVIOUS
  <2>. QED BY <2>2
<1>2. PICK y \in R : \A z \in R : y <= z
  <2>1. R \in SUBSET Nat /\ R # {}
    BY <1>1 DEF R
  <2>. HIDE DEF R
  <2>. QED BY <2>1, Least
<1>3. PICK x \in S : y = n - x
  OBVIOUS
<1>4. ASSUME NEW w \in S PROVE x >= w
  <2>1. n - w \in R
    OBVIOUS
  <2>2. y <= n - w
    BY <1>2, <2>1
  <2>. QED BY <1>3, <2>2
<1>. QED BY <1>4 DEF Max

LEMMA AttachLineSeq ==
  ASSUME NEW S, NEW x \in Seq(S), NEW l \in S, NEW z \in Seq(S)
  PROVE  x \o (<<l>> \o z) = Append(x, l) \o z
<1>1. <<l>> \in Seq(S)
  OBVIOUS
<1> DEFINE y == <<l>>
<1>2. y \in Seq(S)
  BY <1>1
<1>3. x \o y = Append(x, l)
  BY AttachLine
<1>. HIDE DEF y
<1>4. x \o (y \o z) = (x \o y) \o z
  BY <1>2, AttachSeq
<1>. QED BY <1>3, <1>4 DEF y

LEMMA CutLine ==
  ASSUME NEW S, NEW t \in Seq(S), NEW i \in 1 .. Len(t)
  PROVE  /\ Before(t, i) \in Seq(S) /\ t[i] \in S /\ After(t, i + 1) \in Seq(S)
         /\ t = Append(Before(t, i), t[i]) \o After(t, i + 1)
<1>1. i \in 1 .. Len(t) + 1 /\ i + 1 \in 1 .. Len(t) + 1 /\ t[i] \in S
  OBVIOUS
<1>2. Before(t, i) \in Seq(S) /\ After(t, i) \in Seq(S) /\ After(t, i + 1) \in Seq(S)
  BY <1>1, CutType
<1>3. Before(t, i) \o After(t, i) = t
  BY <1>1, CutWhole
<1>4. After(t, i) = <<t[i]>> \o After(t, i + 1)
  <2> DEFINE a == After(t, i)
             b == After(t, i + 1)
             l == t[i]
             u == <<l>> \o b
  <2>1. Len(a) = Len(t) - i + 1 /\ \A j \in 1 .. Len(t) - i + 1 : a[j] = t[i + j - 1]
    BY <1>1, CutType
  <2>2. Len(b) = Len(t) - (i + 1) + 1 /\ \A j \in 1 .. Len(t) - (i + 1) + 1 : b[j] = t[(i + 1) + j - 1]
    BY <1>1, CutType
  <2>3. a \in Seq(S) /\ b \in Seq(S) /\ l \in S /\ <<l>> \in Seq(S) /\ Len(t) \in Nat
    BY <1>1, <1>2
  <2>4. a # <<>> /\ Len(a) > 0
    BY <2>1, <2>3
  <2>. HIDE DEF a, b, l
  <2>5. u \in Seq(S) /\ Len(u) = 1 + Len(b) /\ u[1] = l /\ \A j \in 1 .. Len(b) : u[1 + j] = b[j]
    BY <2>3
  <2>6. Len(u) = Len(a)
    BY <2>1, <2>2, <2>3, <2>5
  <2>. HIDE DEF u
  <2>7. ASSUME NEW j \in 1 .. Len(a) PROVE a[j] = u[j]
    <3>1. CASE j = 1
      <4>1. a[1] = t[i + 1 - 1]
        BY <2>1, <2>3, <3>1
      <4>2. i + 1 - 1 = i
        OBVIOUS
      <4>. QED BY <2>5, <3>1, <4>1, <4>2 DEF l
    <3>2. CASE j # 1
      <4>1. PICK h \in 1 .. Len(b) : j = 1 + h
        <5>1. j - 1 \in 1 .. Len(b) /\ j = 1 + (j - 1)
          BY <2>1, <2>2, <2>3, <3>2
        <5>. QED BY <5>1
      <4>2. b[h] = t[(i + 1) + h - 1]
        BY <2>2, <2>3, <4>1
      <4>3. a[j] = t[i + j - 1]
        BY <2>1, <2>3
      <4>4. i + j - 1 = (i + 1) + h - 1
        BY <2>3, <4>1
      <4>. QED BY <2>5, <4>1, <4>2, <4>3, <4>4
    <3>. QED BY <3>1, <3>2
  <2>8. a = u
    BY <2>3, <2>5, <2>6, <2>7, SeqEqual
  <2>. QED BY <2>8 DEF a, b, l, u
<1> DEFINE b == Before(t, i)
           l == t[i]
           c == After(t, i + 1)
<1>5. b \in Seq(S) /\ l \in S /\ c \in Seq(S) /\ t = b \o (<<l>> \o c)
  BY <1>1, <1>2, <1>3, <1>4
<1>. HIDE DEF b, c, l
<1>6. b \o (<<l>> \o c) = Append(b, l) \o c
  BY <1>5, AttachLineSeq
<1>. QED BY <1>5, <1>6 DEF b, c, l

LEMMA OneOrTwo ==
  ASSUME NEW S, NEW t \in Seq(S), NEW i \in 1 .. Len(t)
  PROVE  SubSeq(t, i, i) = <<t[i]>> /\ (i > 1 => SubSeq(t, i - 1, i) = <<t[i - 1], t[i]>>)
<1>1. Len(t) \in Nat /\ i \in Nat /\ i >= 1 /\ i <= Len(t) /\ \A j \in 1 .. Len(t) : t[j] \in S
  OBVIOUS
<1>2. SubSeq(t, i, i) = <<t[i]>>
  <2> DEFINE u == SubSeq(t, i, i)
             v == <<t[i]>>
  <2>1. /\ u \in Seq(S) /\ Len(u) = i - i + 1
        /\ \A j \in 1 .. i - i + 1 : u[j] = t[i + j - 1]
    <3>1. i \in Int /\ i <= i + 1 /\ \A j \in i .. i : t[j] \in S
      BY <1>1
    <3>. QED BY <3>1, SubSeqProperties
  <2>2. v \in Seq(S) /\ Len(v) = 1 /\ v[1] = t[i]
    BY <1>1
  <2>3. i - i + 1 = 1 /\ i + 1 - 1 = i
    BY <1>1
  <2>. HIDE DEF u, v
  <2>4. Len(u) = Len(v) /\ \A j \in 1 .. Len(u) : u[j] = v[j]
    BY <2>1, <2>2, <2>3
  <2>5. u = v
    BY <2>1, <2>2, <2>4, SeqEqual
  <2>. QED BY <2>5 DEF u, v
<1>3. ASSUME i > 1 PROVE SubSeq(t, i - 1, i) = <<t[i - 1], t[i]>>
  <2> DEFINE u == SubSeq(t, i - 1, i)
             v == <<t[i - 1], t[i]>>
  <2>1. /\ u \in Seq(S) /\ Len(u) = i - (i - 1) + 1
        /\ \A j \in 1 .. i - (i - 1) + 1 : u[j] = t[i - 1 + j - 1]
    <3>1. i \in Int /\ i - 1 \in Int /\ i - 1 <= i + 1 /\ \A j \in i - 1 .. i : t[j] \in S
      BY <1>1, <1>3
    <3>. QED BY <3>1, SubSeqProperties
  <2>2. v \in Seq(S) /\ Len(v) = 2 /\ v[1] = t[i - 1] /\ v[2] = t[i]
    <3>1. i - 1 \in 1 .. Len(t)
      BY <1>1, <1>3
    <3>. QED BY <1>1, <3>1
  <2>3. i - (i - 1) + 1 = 2 /\ i - 1 + 1 - 1 = i - 1 /\ i - 1 + 2 - 1 = i
    BY <1>1
  <2>. HIDE DEF u, v
  <2>4. Len(u) = Len(v) /\ \A j \in 1 .. Len(u) : u[j] = v[j]
    BY <2>1, <2>2, <2>3
  <2>5. u = v
    BY <2>1, <2>2, <2>4, SeqEqual
  <2>. QED BY <2>5 DEF u, v
<1>. QED BY <1>2, <1>3

LEMMA CutTwice ==
  ASSUME NEW S, NEW t \in Seq(S), NEW c \in 1 .. Len(t) + 1, NEW a \in 1 .. c
  PROVE  SubSeq(t, a, c - 1) \in Seq(S) /\ Before(t, a) \o SubSeq(t, a, c - 1) = Before(t, c)
<1> DEFINE u == Before(t, c)
           b == Before(t, a)
           v == Before(u, a)
           m == SubSeq(t, a, c - 1)
           w == After(u, a)
<1>1. Len(t) \in Nat /\ a \in 1 .. Len(t) + 1 /\ a \in Nat /\ c \in Nat /\ a >= 1 /\ a <= c /\ c <= Len(t) + 1
  OBVIOUS
<1>2. u \in Seq(S) /\ Len(u) = c - 1 /\ \A j \in 1 .. c - 1 : u[j] = t[j]
  BY CutType
<1>3. b \in Seq(S) /\ Len(b) = a - 1 /\ \A j \in 1 .. a - 1 : b[j] = t[j]
  BY <1>1, CutType
<1>. HIDE DEF u, b
<1>4. a \in 1 .. Len(u) + 1
  BY <1>1, <1>2
<1>5. /\ v \in Seq(S) /\ Len(v) = a - 1 /\ \A j \in 1 .. a - 1 : v[j] = u[j]
      /\ w \in Seq(S) /\ Len(w) = Len(u) - a + 1 /\ \A j \in 1 .. Len(u) - a + 1 : w[j] = u[a + j - 1]
      /\ v \o w = u
  BY <1>2, <1>4, CutType, CutWhole
<1>. HIDE DEF v, w
<1>6. v = b
  <2>1. Len(v) = Len(b) /\ \A j \in 1 .. Len(v) : v[j] = b[j]
    <3>1. \A j \in 1 .. a - 1 : j \in 1 .. c - 1
      BY <1>1
    <3>. QED BY <1>2, <1>3, <1>5, <3>1
  <2>. QED BY <1>3, <1>5, <2>1, SeqEqual
<1>7. m \in Seq(S) /\ Len(m) = c - a /\ \A j \in 1 .. c - a : m[j] = t[a + j - 1]
  <2>1. a \in Int /\ c - 1 \in Int /\ a <= c - 1 + 1 /\ \A j \in a .. c - 1 : t[j] \in S
    BY <1>1
  <2>2. /\ m \in Seq(S) /\ Len(m) = c - 1 - a + 1
        /\ \A j \in 1 .. c - 1 - a + 1 : m[j] = t[a + j - 1]
    BY <2>1, SubSeqProperties
  <2>3. c - 1 - a + 1 = c - a
    BY <1>1
  <2>. HIDE DEF m
  <2>. QED BY <2>2, <2>3
<1>. HIDE DEF m
<1>8. w = m
  <2>1. Len(w) = c - a
    BY <1>1, <1>2, <1>5
  <2>2. ASSUME NEW j \in 1 .. Len(w) PROVE w[j] = m[j]
    <3>1. w[j] = u[a + j - 1] /\ m[j] = t[a + j - 1]
      BY <1>5, <1>7, <2>1
    <3>2. a + j - 1 \in 1 .. c - 1
      BY <1>1, <2>1
    <3>. QED BY <1>2, <3>1, <3>2
  <2>. QED BY <1>5, <1>7, <2>1, <2>2, SeqEqual
<1>. QED BY <1>5, <1>6, <1>7, <1>8 DEF u, b, m

(* What a state is after each number                                       *)
IsRun(f, n, M, start, turn) ==
  f \in [0 .. n -> M] /\ f[0] = start /\ \A i \in 1 .. n : f[i] = turn[i][f[i - 1]]

LEMMA RunExists ==
  ASSUME NEW n \in Nat, NEW M, NEW start \in M, NEW turn \in [1 .. n -> [M -> M]]
  PROVE  \E f : IsRun(f, n, M, start, turn)
<1> DEFINE Upto(f, k) == f[0] = start /\ \A i \in 1 .. k : f[i] = turn[i][f[i - 1]]
           N == {k \in 0 .. n : \E f \in [0 .. k -> M] : Upto(f, k)}
<1>1. 0 \in N
  <2> DEFINE f == [i \in 0 .. 0 |-> start]
  <2>1. f \in [0 .. 0 -> M] /\ f[0] = start
    OBVIOUS
  <2>. HIDE DEF f
  <2>2. Upto(f, 0)
    BY <2>1
  <2>. QED BY <2>1, <2>2
<1>2. ASSUME NEW k \in 0 .. n - 1, k \in N PROVE k + 1 \in N
  <2>1. PICK f \in [0 .. k -> M] : Upto(f, k)
    BY <1>2
  <2>2. k \in 0 .. k /\ k + 1 \in 1 .. n /\ k + 1 \in 0 .. n
    OBVIOUS
  <2>3. PICK new \in M : new = turn[k + 1][f[k]]
    <3>1. turn[k + 1][f[k]] \in M
      BY <2>2
    <3>. QED BY <3>1
  <2> DEFINE g == [i \in 0 .. k + 1 |-> IF i = k + 1 THEN new ELSE f[i]]
  <2>4. g[k + 1] = new /\ g \in [0 .. k + 1 -> M] /\ \A i \in 0 .. k : g[i] = f[i]
    OBVIOUS
  <2>. HIDE DEF g
  <2>5. ASSUME NEW i \in 1 .. k + 1 PROVE g[i] = turn[i][g[i - 1]]
    <3>1. CASE i = k + 1
      <4>1. g[i - 1] = f[k]
        BY <2>4, <3>1
      <4>. QED BY <2>3, <2>4, <3>1, <4>1
    <3>2. CASE i # k + 1
      <4>1. i \in 1 .. k /\ g[i] = f[i] /\ g[i - 1] = f[i - 1]
        BY <2>4, <3>2
      <4>. QED BY <2>1, <4>1
    <3>. QED BY <3>1, <3>2
  <2>6. g[0] = start
    BY <2>1, <2>4
  <2>7. Upto(g, k + 1)
    BY <2>5, <2>6
  <2>. HIDE DEF Upto
  <2>. QED BY <2>2, <2>4, <2>7
<1>3. n \in N
  <2>. HIDE DEF N
  <2>. QED BY <1>1, <1>2, Induct
<1>. QED BY <1>3 DEF IsRun

(* A scan that jumps visits the numbers in W, when each jump from one of   *)
(* them leads to the next.                                                 *)
LEMMA VisitedIs ==
  ASSUME NEW n \in Nat, NEW Next, NEW W \in SUBSET (1 .. n), n >= 1 => 1 \in W,
         \A i \in 1 .. n : Next[i] \in i + 1 .. n + 2,
         \A i \in W : /\ Next[i] <= n => Next[i] \in W
                      /\ \A j \in W : i < j => Next[i] <= j
  PROVE  Visited(n, Next) = W
<1> DEFINE Of(i, f) == IF i > n THEN {} ELSE {i} \cup f[Next[i]]
           Back(k) == n + 2 - k
           Is(i, f) == (i > n => f[i] = {}) /\ (i <= n => f[i] = {i} \cup f[Next[i]])
           Upto(f, k) == \A i \in Back(k) .. n + 2 : Is(i, f)
           N == {k \in 0 .. n + 1 : \E f \in [Back(k) .. n + 2 -> SUBSET (1 .. n)] : Upto(f, k)}
           From == [i \in 1 .. n + 2 |-> W \cap i .. n]
<1>1. 0 \in N
  <2> DEFINE f == [i \in n + 2 .. n + 2 |-> {}]
  <2>1. f \in [Back(0) .. n + 2 -> SUBSET (1 .. n)] /\ \A i \in Back(0) .. n + 2 : i > n /\ f[i] = {}
    OBVIOUS
  <2>. HIDE DEF f
  <2>2. Upto(f, 0)
    BY <2>1
  <2>. QED BY <2>1, <2>2
<1>2. ASSUME NEW k \in 0 .. n, k \in N PROVE k + 1 \in N
  <2> DEFINE a == Back(k)
             b == Back(k + 1)
  <2>1. a \in 2 .. n + 2 /\ b = a - 1 /\ b \in 1 .. n + 1 /\ k + 1 \in 0 .. n + 1
    OBVIOUS
  <2>2. PICK f \in [a .. n + 2 -> SUBSET (1 .. n)] : Upto(f, k)
    BY <1>2
  <2>3. PICK new \in SUBSET (1 .. n) : new = Of(b, f)
    <3>1. b <= n => Next[b] \in a .. n + 2 /\ b \in 1 .. n
      BY <2>1
    <3>2. b <= n => f[Next[b]] \in SUBSET (1 .. n)
      BY <3>1
    <3>3. Of(b, f) \in SUBSET (1 .. n)
      BY <2>1, <3>1, <3>2
    <3>. QED BY <3>3
  <2> DEFINE g == [i \in b .. n + 2 |-> IF i = b THEN new ELSE f[i]]
  <2>. HIDE DEF a, b
  <2>4. g[b] = new /\ \A i \in a .. n + 2 : g[i] = f[i]
    BY <2>1
  <2>5. g \in [b .. n + 2 -> SUBSET (1 .. n)]
    <3>1. \A i \in b .. n + 2 : i = b \/ i \in a .. n + 2
      BY <2>1
    <3>. QED BY <3>1
  <2>. HIDE DEF g
  <2>6. ASSUME NEW i \in b .. n + 2 PROVE Is(i, g)
    <3>1. i \in Int /\ (i = b \/ i \in a .. n + 2)
      BY <2>1
    <3>2. i <= n => Next[i] \in a .. n + 2
      <4>1. i <= n => i \in 1 .. n
        BY <2>1
      <4>. QED BY <2>1, <4>1
    <3>3. i <= n => g[Next[i]] = f[Next[i]]
      BY <2>4, <3>2
    <3>4. CASE i = b
      <4>1. g[i] = new /\ (i > n => new = {}) /\ (i <= n => new = {i} \cup f[Next[i]])
        BY <2>3, <2>4, <3>1, <3>4
      <4>. QED BY <3>1, <3>3, <4>1
    <3>5. CASE i \in a .. n + 2
      <4>1. Is(i, f) /\ g[i] = f[i]
        BY <2>2, <2>4, <3>5 DEF a
      <4>. QED BY <3>1, <3>3, <4>1
    <3>. QED BY <3>1, <3>4, <3>5
  <2>7. Upto(g, k + 1)
    BY <2>6 DEF b
  <2>8. g \in [Back(k + 1) .. n + 2 -> SUBSET (1 .. n)]
    BY <2>5 DEF b
  <2>. HIDE DEF Upto, Back
  <2>. QED BY <2>1, <2>7, <2>8
<1>3. n + 1 \in N
  <2>. HIDE DEF N
  <2>1. \A i \in 0 .. n + 1 - 1 : i \in 0 .. n
    OBVIOUS
  <2>. QED BY <1>1, <1>2, <2>1, Induct
<1>4. \E f : f = [i \in 1 .. n + 2 |-> Of(i, f)]
  <2>1. PICK f \in [Back(n + 1) .. n + 2 -> SUBSET (1 .. n)] : Upto(f, n + 1)
    BY <1>3
  <2>2. Back(n + 1) = 1
    OBVIOUS
  <2>. HIDE DEF Back
  <2>3. f \in [1 .. n + 2 -> SUBSET (1 .. n)] /\ \A i \in 1 .. n + 2 : Is(i, f)
    BY <2>1, <2>2
  <2>4. ASSUME NEW i \in 1 .. n + 2 PROVE f[i] = Of(i, f)
    <3>1. Is(i, f) /\ (i > n <=> ~(i <= n))
      BY <2>3
    <3>. QED BY <3>1, Zenon
  <2>. HIDE DEF Of
  <2>. QED BY <2>3, <2>4
<1> DEFINE from == CHOOSE f : f = [i \in 1 .. n + 2 |-> Of(i, f)]
<1>5. Visited(n, Next) = from[1]
  BY DEF Visited
<1>6. from = [i \in 1 .. n + 2 |-> Of(i, from)]
  <2>. HIDE DEF Of
  <2>. QED BY <1>4
<1>. HIDE DEF from, N, Upto
<1>7. \A i \in 1 .. n + 2 : Is(i, from)
  <2>1. \A i \in 1 .. n + 2 : from[i] = Of(i, from)
    <3>. HIDE DEF Of
    <3>. QED BY <1>6
  <2>2. \A i \in 1 .. n + 2 : i > n <=> ~(i <= n)
    OBVIOUS
  <2>. QED BY <2>1, <2>2, Zenon
<1> DEFINE K == {k \in 0 .. n + 1 : \A i \in Back(k) .. n + 2 : i > n \/ i \in W => from[i] = W \cap i .. n}
<1>8. 0 \in K
  <2>1. \A i \in Back(0) .. n + 2 : i > n /\ W \cap i .. n = {}
    OBVIOUS
  <2>2. \A i \in Back(0) .. n + 2 : from[i] = {}
    BY <1>7
  <2>. QED BY <2>1, <2>2
<1>9. ASSUME NEW k \in 0 .. n, k \in K PROVE k + 1 \in K
  <2> DEFINE b == Back(k + 1)
  <2>1. b \in 1 .. n + 1 /\ Back(k) = b + 1 /\ k + 1 \in 0 .. n + 1
    OBVIOUS
  <2>. HIDE DEF b
  <2>2. \A i \in b + 1 .. n + 2 : i > n \/ i \in W => from[i] = W \cap i .. n
    BY <1>9, <2>1
  <2>. HIDE DEF Back
  <2>3. ASSUME b > n \/ b \in W PROVE from[b] = W \cap b .. n
    <3>1. CASE b > n
      <4>1. from[b] = {} /\ W \cap b .. n = {}
        BY <1>7, <2>1, <3>1
      <4>. QED BY <4>1
    <3>2. CASE b <= n
      <4> DEFINE c == Next[b]
      <4>1. b \in W /\ b \in 1 .. n
        BY <2>1, <2>3, <3>2
      <4>2. c \in b + 1 .. n + 2 /\ (c > n \/ c \in W) /\ \A j \in W : b < j => c <= j
        BY <4>1
      <4>3. from[b] = {b} \cup from[c]
        BY <1>7, <2>1, <3>2
      <4>. HIDE DEF c
      <4>4. from[c] = W \cap c .. n
        BY <2>2, <4>2
      <4>5. \A j : j \in W \cap b .. n <=> j = b \/ j \in W \cap c .. n
        BY <4>1, <4>2
      <4>. QED BY <4>3, <4>4, <4>5
    <3>. QED BY <2>1, <3>1, <3>2
  <2>4. \A i \in b .. n + 2 : i = b \/ i \in b + 1 .. n + 2
    BY <2>1
  <2>. QED BY <2>1, <2>2, <2>3, <2>4 DEF b
<1>10. n + 1 \in K
  <2>. HIDE DEF K
  <2>1. \A i \in 0 .. n + 1 - 1 : i \in 0 .. n
    OBVIOUS
  <2>. QED BY <1>8, <1>9, <2>1, Induct
<1>11. from[1] = W \cap 1 .. n
  <2>1. 1 \in Back(n + 1) .. n + 2 /\ (1 > n \/ 1 \in W)
    OBVIOUS
  <2>. HIDE DEF Back
  <2>. QED BY <1>10, <2>1
<1>. QED BY <1>5, <1>11

(* One piece more *)
LEMMA FlatAppend ==
  ASSUME NEW S, NEW ss \in Seq(Seq(S)), NEW c \in Seq(S)
  PROVE  FlattenSeq(Append(ss, c)) = FlattenSeq(ss) \o c
<1> DEFINE n == Len(ss)
           tt == Append(ss, c)
<1>1. /\ n \in Nat /\ tt \in Seq(Seq(S)) /\ Len(tt) = n + 1 /\ tt[n + 1] = c
      /\ \A i \in 1 .. n : tt[i] = ss[i]
  OBVIOUS
<1>. HIDE DEF tt
<1>2. PICK f \in [0 .. Len(ss) -> Seq(S)] : Joins(f, ss) /\ FlattenSeq(ss) = f[Len(ss)]
  BY Flattened
<1>3. PICK g \in [0 .. Len(tt) -> Seq(S)] : Joins(g, tt) /\ FlattenSeq(tt) = g[Len(tt)]
  BY <1>1, Flattened
<1> DEFINE Same == {i \in 0 .. n : g[i] = f[i]}
<1>4. 0 \in Same
  BY <1>1, <1>2, <1>3 DEF Joins
<1>5. ASSUME NEW i \in 0 .. n - 1, i \in Same
      PROVE  i + 1 \in Same
  <2>1. i + 1 \in 1 .. n /\ i + 1 \in 1 .. Len(tt) /\ i + 1 \in 0 .. n /\ (i + 1) - 1 = i
    BY <1>1
  <2>2. f[i + 1] = f[i] \o ss[i + 1]
    BY <1>2, <2>1 DEF Joins
  <2>3. g[i + 1] = g[i] \o tt[i + 1]
    BY <1>3, <2>1 DEF Joins
  <2>4. tt[i + 1] = ss[i + 1] /\ g[i] = f[i]
    BY <1>1, <1>5, <2>1
  <2>5. g[i + 1] = f[i + 1]
    BY <2>2, <2>3, <2>4
  <2>. QED BY <2>1, <2>5
<1>6. n \in Same
  <2>. HIDE DEF Same, n
  <2>. QED BY <1>1, <1>4, <1>5, Induct
<1>7. g[n + 1] = g[n] \o c
  <2>1. n + 1 \in 1 .. Len(tt) /\ (n + 1) - 1 = n
    BY <1>1
  <2>. QED BY <1>1, <1>3, <2>1 DEF Joins
<1>. QED BY <1>1, <1>2, <1>3, <1>6, <1>7 DEF tt

LEMMA PickedAppend ==
  ASSUME NEW S, NEW t \in Seq(S), NEW l \in S, NEW K
  PROVE  Picked(Append(t, l), K) = Picked(t, K) \o (IF Len(t) + 1 \in K THEN <<l>> ELSE <<>>)
<1> DEFINE n == Len(t)
           u == Append(t, l)
           c == IF n + 1 \in K THEN <<l>> ELSE <<>>
           ss == [i \in 1 .. n |-> IF i \in K THEN <<t[i]>> ELSE <<>>]
           tt == [i \in 1 .. n + 1 |-> IF i \in K THEN <<u[i]>> ELSE <<>>]
<1>1. /\ n \in Nat /\ DOMAIN t = 1 .. n /\ DOMAIN u = 1 .. n + 1 /\ u[n + 1] = l
      /\ \A i \in 1 .. n : u[i] = t[i]
  OBVIOUS
<1>2. c \in Seq(S) /\ \A i \in 1 .. n : t[i] \in S
  OBVIOUS
<1>3. ss \in [1 .. n -> Seq(S)]
  BY <1>2
<1>4. ss \in Seq(Seq(S)) /\ Len(ss) = n
  <2>. HIDE DEF ss
  <2>. QED BY <1>1, <1>3, MakeSeq
<1>5. tt = Append(ss, c)
  <2>1. ASSUME NEW i \in 1 .. n + 1
        PROVE  tt[i] = IF i = n + 1 THEN c ELSE ss[i]
    <3>1. CASE i = n + 1
      BY <1>1, <3>1
    <3>2. CASE i # n + 1
      <4>1. i \in 1 .. n
        BY <1>1, <3>2
      <4>. QED BY <1>1, <3>2, <4>1
    <3>. QED BY <3>1, <3>2
  <2>2. /\ Append(ss, c) \in Seq(Seq(S)) /\ Len(Append(ss, c)) = n + 1
        /\ \A i \in 1 .. n + 1 : Append(ss, c)[i] = IF i = n + 1 THEN c ELSE ss[i]
    <3>. HIDE DEF ss, c, n
    <3>. QED BY <1>1, <1>2, <1>4, AppendProperties
  <2>3. Len(tt) = n + 1
    BY <1>1
  <2>4. tt \in Seq(Seq(S))
    <3>1. tt = [i \in 1 .. n + 1 |-> tt[i]] /\ \A i \in 1 .. n + 1 : tt[i] \in Seq(S)
      <4>1. \A i \in 1 .. n + 1 : tt[i] \in Seq(S)
        <5>1. \A i \in 1 .. n : ss[i] \in Seq(S)
          BY <1>3
        <5>2. \A i \in 1 .. n + 1 : i = n + 1 \/ i \in 1 .. n
          BY <1>1
        <5>. HIDE DEF tt, ss, c, n
        <5>. QED BY <1>2, <2>1, <5>1, <5>2
      <4>. QED BY <4>1
    <3>. HIDE DEF tt
    <3>2. tt \in [1 .. n + 1 -> Seq(S)]
      BY <3>1
    <3>. QED BY <1>1, <3>2, MakeSeq
  <2>. HIDE DEF tt, u, ss, c, n
  <2>. QED BY <2>1, <2>2, <2>3, <2>4, SeqEqual
<1>6. Picked(t, K) = FlattenSeq(ss) /\ Picked(u, K) = FlattenSeq(tt)
  BY <1>1 DEF Picked
<1>. HIDE DEF ss, tt, c
<1>7. FlattenSeq(Append(ss, c)) = FlattenSeq(ss) \o c
  BY <1>2, <1>4, FlatAppend
<1>. QED BY <1>5, <1>6, <1>7 DEF c

LEMMA CatThree ==
  ASSUME NEW S, NEW b \in Seq(S), NEW x \in Seq(S), NEW a \in Seq(S), NEW r, r = b \o x \o a
  PROVE  /\ r \in Seq(S) /\ Len(r) = Len(b) + Len(x) + Len(a)
         /\ Len(b) \in Nat /\ Len(x) \in Nat /\ Len(a) \in Nat
         /\ \A j \in 1 .. Len(b) : r[j] = b[j]
         /\ \A j \in 1 .. Len(x) : r[Len(b) + j] = x[j]
         /\ \A j \in 1 .. Len(a) : r[Len(b) + Len(x) + j] = a[j]
<1> DEFINE s == b \o x
<1>1. /\ s \in Seq(S) /\ Len(s) = Len(b) + Len(x)
      /\ Len(b) \in Nat /\ Len(x) \in Nat
      /\ \A i \in 1 .. Len(b) : s[i] = b[i]
      /\ \A j \in 1 .. Len(x) : s[Len(b) + j] = x[j]
  BY Cat
<1>2. r = s \o a
  OBVIOUS
<1>. HIDE DEF s
<1>3. /\ s \o a \in Seq(S) /\ Len(s \o a) = Len(s) + Len(a) /\ Len(a) \in Nat
      /\ \A i \in 1 .. Len(s) : (s \o a)[i] = s[i]
      /\ \A j \in 1 .. Len(a) : (s \o a)[Len(s) + j] = a[j]
  <2>1. s \in Seq(S)
    BY <1>1
  <2>. QED BY <2>1, Cat
<1>4. /\ \A j \in 1 .. Len(b) : j \in 1 .. Len(s)
      /\ \A j \in 1 .. Len(x) : Len(b) + j \in 1 .. Len(s)
  BY <1>1
<1>. QED BY <1>1, <1>2, <1>3, <1>4

(* Only the numbers of lines count.                                        *)
LEMMA PickedSame ==
  ASSUME NEW t, NEW K, NEW H, \A i \in DOMAIN t : i \in K <=> i \in H
  PROVE  Picked(t, K) = Picked(t, H)
<1>1. [i \in DOMAIN t |-> IF i \in K THEN <<t[i]>> ELSE <<>>]
        = [i \in DOMAIN t |-> IF i \in H THEN <<t[i]>> ELSE <<>>]
  OBVIOUS
<1>. QED BY <1>1 DEF Picked
=============================================================================
