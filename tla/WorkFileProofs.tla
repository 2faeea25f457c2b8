--------------------------- MODULE WorkFileProofs --------------------------
(***************************************************************************)
(* WorkFile for every stub, every number of levels and every text that a   *)
(* user's edits can lead to.                                               *)
(***************************************************************************)
EXTENDS WorkFile, LinesProofs

-----------------------------------------------------------------------------
(* Names and lines *)

LEMMA MethodsAreNumbers ==
  /\ Len(StubOrder) \in Nat /\ DOMAIN StubOrder = 1 .. Len(StubOrder)
  /\ \A i \in 1 .. Len(StubOrder) : StubOrder[i] \in Method
  /\ Method \subseteq 1 .. Len(StubOrder)
  /\ 0 \notin Method /\ Own \notin Method /\ Ctor \notin Method
<1>1. StubOrder \in Seq(1 .. Len(StubOrder)) /\ Len(StubOrder) < 100
  BY LinesAssumption
<1>2. Len(StubOrder) \in Nat /\ DOMAIN StubOrder = 1 .. Len(StubOrder)
      /\ \A i \in 1 .. Len(StubOrder) : StubOrder[i] \in 1 .. Len(StubOrder)
  BY <1>1
<1>3. Method \subseteq 1 .. Len(StubOrder)
  BY <1>2 DEF Method
<1>4. \A i \in 1 .. Len(StubOrder) : StubOrder[i] \in Method
  BY <1>2 DEF Method
<1>5. 0 \notin Method /\ Own \notin Method /\ Ctor \notin Method
  BY <1>1, <1>2, <1>3 DEF Own, Ctor
<1>. QED BY <1>2, <1>3, <1>4, <1>5

LEMMA AllowedAre == \A l : Allowed(l) \subseteq Method
BY DEF Allowed

LEMMA LineIs ==
  ASSUME NEW kinds, NEW in \in Nat, NEW k \in kinds, NEW n \in Method \cup {0, Own, Ctor}
  PROVE  /\ Line(in, k, n) \in LinesOf(kinds)
         /\ Line(in, k, n).in = in /\ Line(in, k, n).k = k /\ Line(in, k, n).n = n
BY DEF Line, LinesOf

-----------------------------------------------------------------------------
(* Each family has its own copy of the operators of Lines.                 *)

LEMMA PyLines ==
  /\ Py!Method = Method /\ Py!Own = Own /\ Py!Ctor = Ctor
  /\ \A in, k, n : Py!Line(in, k, n) = Line(in, k, n)
  /\ \A S : Py!Cardinality(S) = Cardinality(S)
  /\ \A ss : Py!FlattenSeq(ss) = FlattenSeq(ss)
  /\ \A S : Py!Min(S) = Min(S) /\ Py!Max(S) = Max(S)
  /\ \A S, i, t : Py!FirstOf(S, i, t) = FirstOf(S, i, t)
  /\ \A t, S : Py!Picked(t, S) = Picked(t, S)
  /\ \A t, i : Py!Before(t, i) = Before(t, i) /\ Py!After(t, i) = After(t, i)
<1>1. Py!Method = Method /\ Py!Own = Own /\ Py!Ctor = Ctor
  BY DEF Py!Method, Method, Py!Own, Own, Py!Ctor, Ctor
<1>2. \A in, k, n : Py!Line(in, k, n) = Line(in, k, n)
  BY DEF Py!Line, Line
<1>3. \A S : Py!Cardinality(S) = Cardinality(S)
  BY DEF Py!Cardinality, Cardinality
<1>4. \A ss : Py!FlattenSeq(ss) = FlattenSeq(ss)
  BY DEF Py!FlattenSeq, FlattenSeq
<1>5. \A S : Py!Min(S) = Min(S) /\ Py!Max(S) = Max(S)
  BY DEF Py!Min, Min, Py!Max, Max
<1>6. \A S, i, t : Py!FirstOf(S, i, t) = FirstOf(S, i, t)
  BY <1>5 DEF Py!FirstOf, FirstOf
<1>7. \A t, S : Py!Picked(t, S) = Picked(t, S)
  BY <1>4 DEF Py!Picked, Picked
<1>8. \A t, i : Py!Before(t, i) = Before(t, i) /\ Py!After(t, i) = After(t, i)
  BY DEF Py!Before, Before, Py!After, After
<1>. QED BY <1>1, <1>2, <1>3, <1>4, <1>5, <1>6, <1>7, <1>8

LEMMA CommentLines ==
  /\ Co!Method = Method /\ Co!Own = Own
  /\ \A in, k, n : Co!Line(in, k, n) = Line(in, k, n)
  /\ \A ss : Co!FlattenSeq(ss) = FlattenSeq(ss)
  /\ \A t, S : Co!Picked(t, S) = Picked(t, S)
  /\ \A t, i : Co!Before(t, i) = Before(t, i) /\ Co!After(t, i) = After(t, i)
<1>1. Co!Method = Method /\ Co!Own = Own
  BY DEF Co!Method, Method, Co!Own, Own
<1>2. \A in, k, n : Co!Line(in, k, n) = Line(in, k, n)
  BY DEF Co!Line, Line
<1>3. \A ss : Co!FlattenSeq(ss) = FlattenSeq(ss)
  BY DEF Co!FlattenSeq, FlattenSeq
<1>4. \A t, S : Co!Picked(t, S) = Picked(t, S)
  BY <1>3 DEF Co!Picked, Picked
<1>5. \A t, i : Co!Before(t, i) = Before(t, i) /\ Co!After(t, i) = After(t, i)
  BY DEF Co!Before, Before, Co!After, After
<1>. QED BY <1>1, <1>2, <1>3, <1>4, <1>5

-----------------------------------------------------------------------------
(* The languages whose stub is a comment *)

(* The stub: a first line with the class's name, one line per method, and  *)
(* a line of code.                                                         *)
LEMMA CommentStub ==
  ASSUME family \in Comments
  PROVE  /\ Stub \in Texts(family) /\ Len(Stub) = Len(StubOrder) + 2
         /\ Stub[1].n = Own /\ Stub[1].k = IF family = "line" THEN "com" ELSE "head"
         /\ \A i \in 1 .. Len(StubOrder) :
              /\ Stub[1 + i].n = StubOrder[i]
              /\ Stub[1 + i].k = IF family = "line" THEN "com"
                                 ELSE IF i = Len(StubOrder) THEN "last" ELSE "in"
         /\ Stub[Len(Stub)].k = "code" /\ Stub[Len(Stub)].n = 0
<1> DEFINE K == LinesOf(Kinds(family))
           line == family = "line"
           M(i) == IF line THEN Line(0, "com", StubOrder[i])
                   ELSE Line(1, IF i = Len(StubOrder) THEN "last" ELSE "in", StubOrder[i])
           mid == [i \in 1 .. Len(StubOrder) |-> M(i)]
           a == Line(0, IF line THEN "com" ELSE "head", Own)
           z == Line(0, "code", 0)
<1>1. family \in {"line", "block"} /\ Kinds(family) = IF line THEN {"com", "code"}
                                                     ELSE {"head", "in", "last", "close", "one", "code"}
  BY DEF Comments, Kinds, Braces
<1>2. ASSUME NEW i \in 1 .. Len(StubOrder)
      PROVE  /\ M(i) \in K /\ M(i).n = StubOrder[i]
             /\ M(i).k = IF line THEN "com" ELSE IF i = Len(StubOrder) THEN "last" ELSE "in"
  <2>1. StubOrder[i] \in Method
    BY MethodsAreNumbers
  <2>. QED BY <1>1, <2>1 DEF Line, LinesOf
<1>3. a \in K /\ z \in K /\ a.n = Own /\ a.k = (IF line THEN "com" ELSE "head")
      /\ z.k = "code" /\ z.n = 0
  BY <1>1, LineIs, SMTT(30)
<1>. HIDE DEF M, a, z, K
<1> DEFINE N == Len(StubOrder)
<1>0. N \in Nat
  BY MethodsAreNumbers
<1>4. mid \in Seq(K) /\ Len(mid) = Len(StubOrder) /\ \A i \in 1 .. Len(StubOrder) : mid[i] = M(i)
  <2>1. mid \in [1 .. N -> K]
    BY <1>2
  <2>. QED BY <1>0, <2>1, MakeSeq
<1>5. Stub = <<a>> \o mid \o <<z>>
  <2>1. Stub = Co!Full(family)
    BY <1>1 DEF Stub, Braces
  <2>2. DOMAIN StubOrder = 1 .. N
    BY MethodsAreNumbers
  <2>3. CASE line
    BY <2>1, <2>2, <2>3, CommentLines DEF Co!Full, a, z, M
  <2>4. CASE ~line
    BY <2>1, <2>2, <2>4, CommentLines DEF Co!Full, a, z, M
  <2>. QED BY <2>3, <2>4
<1>. HIDE DEF mid
<1>6. <<a>> \in Seq(K) /\ <<z>> \in Seq(K) /\ <<a>>[1] = a /\ <<z>>[1] = z
      /\ Len(<<a>>) = 1 /\ Len(<<z>>) = 1
  BY <1>3
<1> DEFINE am == <<a>> \o mid
<1>7. /\ am \in Seq(K) /\ Len(am) = 1 + Len(StubOrder) /\ am[1] = a
      /\ \A i \in 1 .. Len(StubOrder) : am[1 + i] = M(i)
  BY <1>4, <1>6, Cat, MethodsAreNumbers
<1>. HIDE DEF am
<1>. HIDE DEF N
<1>8. /\ Stub \in Seq(K) /\ Len(Stub) = 1 + Len(StubOrder) + 1
      /\ \A i \in 1 .. 1 + Len(StubOrder) : Stub[i] = am[i]
      /\ Stub[1 + Len(StubOrder) + 1] = z
  <2>1. Stub = am \o <<z>>
    BY <1>5 DEF am
  <2>. QED BY <1>0, <1>6, <1>7, <2>1, Cat DEF N
<1>9. Stub[1] = a /\ Stub[Len(Stub)] = z /\ \A i \in 1 .. Len(StubOrder) : Stub[1 + i] = M(i)
  BY <1>0, <1>7, <1>8 DEF N
<1>10. Stub \in Texts(family) /\ Len(Stub) = Len(StubOrder) + 2
  BY <1>0, <1>8 DEF K, Texts, N
<1>. QED BY <1>2, <1>3, <1>9, <1>10

LEMMA CommentStubLists ==
  ASSUME family \in Comments
  PROVE  /\ \A i \in 1 .. Len(Stub) : Stub[i].n \in Method => i \in Co!Listed(Stub)
         /\ \A n \in Method : \E i \in 1 .. Len(Stub) : Stub[i].n = n
<1> DEFINE N == Len(StubOrder)
<1>1. /\ Stub \in Texts(family) /\ Len(Stub) = N + 2
      /\ Stub[1].n = Own /\ Stub[1].k = (IF family = "line" THEN "com" ELSE "head")
      /\ \A i \in 1 .. N :
           /\ Stub[1 + i].n = StubOrder[i]
           /\ Stub[1 + i].k = IF family = "line" THEN "com" ELSE IF i = N THEN "last" ELSE "in"
      /\ Stub[N + 2].k = "code" /\ Stub[N + 2].n = 0
  BY CommentStub
<1>2. N \in Nat /\ DOMAIN Stub = 1 .. N + 2 /\ 0 \notin Method /\ Own \notin Method
  <2>1. DOMAIN Stub = 1 .. Len(Stub)
    BY <1>1 DEF Texts
  <2>. QED BY <1>1, <2>1, MethodsAreNumbers
<1>3. \A i \in 1 .. N + 2 : i = 1 \/ i = N + 2 \/ \E j \in 1 .. N : i = 1 + j
  <2>1. ASSUME NEW i \in 1 .. N + 2, i # 1, i # N + 2
        PROVE  i - 1 \in 1 .. N /\ i = 1 + (i - 1)
    BY <1>2, <2>1
  <2>. QED BY <2>1
<1>. HIDE DEF N
<1>4. ASSUME NEW i \in 1 .. N + 2, Stub[i].n \in Method
      PROVE  i \in Co!Listed(Stub)
  <2>1. PICK j \in 1 .. N : i = 1 + j
    BY <1>1, <1>2, <1>3, <1>4
  <2>2. CASE Stub[i].k \in {"com", "last"}
    BY <1>2, <1>4, <2>2, CommentLines DEF Co!Listed
  <2>3. CASE family # "line" /\ Stub[i].k = "in"
    <3>1. ASSUME NEW h \in 1 .. i - 1 PROVE ~Co!ClosesBlock(Stub[h])
      <4>1. CASE h = 1
        BY <1>1, <2>3, <4>1 DEF Co!ClosesBlock
      <4>2. CASE h # 1
        <5>1. h \in 1 .. N + 2 /\ h # N + 2
          BY <1>2, <2>1
        <5>2. PICK g \in 1 .. N : h = 1 + g
          BY <1>3, <4>2, <5>1
        <5>3. g # N
          BY <1>2, <2>1, <5>2
        <5>4. Stub[h].k = "in"
          BY <1>1, <2>3, <5>2, <5>3
        <5>. QED BY <5>4 DEF Co!ClosesBlock
      <4>. QED BY <4>1, <4>2
    <3>2. Co!OpensBlock(Stub[1])
      BY <1>1, <2>3 DEF Co!OpensBlock
    <3>3. 1 \in 1 .. i
      BY <1>2, <2>1
    <3>4. i \in Co!InBlock(Stub)
      BY <1>2, <3>1, <3>2, <3>3 DEF Co!InBlock
    <3>. QED BY <1>2, <1>4, <3>4, CommentLines DEF Co!Listed
  <2>. QED BY <1>1, <2>1, <2>2, <2>3
<1>5. ASSUME NEW n \in Method PROVE \E i \in 1 .. N + 2 : Stub[i].n = n
  <2>1. PICK i \in 1 .. N : StubOrder[i] = n
    BY MethodsAreNumbers DEF Method, N
  <2>2. 1 + i \in 1 .. N + 2
    BY <1>2
  <2>. QED BY <1>1, <2>1, <2>2
<1>. QED BY <1>1, <1>4, <1>5

-----------------------------------------------------------------------------
(* Python: what a scan of the lines knows                                  *)

(* The lines of a file: a stub's line has a method's name or none, and a   *)
(* Java file has no block comment that is not a Javadoc (PlainJava).       *)
Fine(f) == {l \in LinesOf(Kinds(f)) :
              /\ l.k = "stub" => l.in > 0 /\ l.n \in Method \cup {0} /\ (f # "py" => l.n = 0)
              /\ f = "java" => l.k # "rem"}

(* Whether the next line stands in quotes                                  *)
PyOdd(t) == Cardinality(Py!Quotes(t)) % 2 = 1

(* Whether a def of the next line would be one of the class                *)
PyOpen(t) == \E a \in Py!OwnClasses(t) : \A j \in Py!Statements(t) :
               a < j => t[j].in > 0 \/ t[j].k \in Py!Docs

PyNames(t) == {t[i].n : i \in Py!Visible(t)}

PyCounts(t, l) == l.k # "com" /\ ~PyOdd(t)

LEMMA Counting ==
  ASSUME NEW n \in Nat, NEW A \in SUBSET (1 .. n)
  PROVE  /\ Cardinality(A) \in Nat /\ Cardinality(A \cup {n + 1}) = Cardinality(A) + 1
         /\ IsFiniteSet(A)
<1>1. IsFiniteSet(1 .. n)
  BY FS_Interval
<1>2. IsFiniteSet(A)
  BY <1>1, FS_Subset
<1>3. n + 1 \notin A
  OBVIOUS
<1>. QED BY <1>2, <1>3, FS_CardinalityType, FS_AddElement

LEMMA PyQuoteLine ==
  ASSUME NEW t \in Seq(Fine("py")), NEW l \in Fine("py")
  PROVE  LET u == Append(t, l)
             n == Len(t)
         IN /\ n \in Nat /\ DOMAIN t = 1 .. n /\ DOMAIN u = 1 .. n + 1
            /\ u[n + 1] = l /\ \A i \in 1 .. n : u[i] = t[i]
            /\ Py!Quotes(t) \subseteq 1 .. n
            /\ Py!Quotes(u) = Py!Quotes(t) \cup (IF l.k = "quote" THEN {n + 1} ELSE {})
            /\ PyOdd(u) <=> ~(PyOdd(t) <=> l.k = "quote")
            /\ Py!Statements(t) \subseteq 1 .. n
            /\ Py!Statements(u) = Py!Statements(t) \cup (IF PyCounts(t, l) THEN {n + 1} ELSE {})
<1> DEFINE u == Append(t, l)
           n == Len(t)
           q == Py!Quotes(t)
           r == Py!Quotes(u)
<1>1. /\ n \in Nat /\ DOMAIN t = 1 .. n /\ DOMAIN u = 1 .. n + 1
      /\ u[n + 1] = l /\ \A i \in 1 .. n : u[i] = t[i]
  OBVIOUS
<1>. HIDE DEF u, n
<1>2. q \subseteq 1 .. n
  BY <1>1 DEF Py!Quotes, Py!Where
<1>3. r = q \cup (IF l.k = "quote" THEN {n + 1} ELSE {})
  BY <1>1 DEF Py!Quotes, Py!Where
<1>. HIDE DEF q, r
<1>4. Cardinality(q) \in Nat /\ Cardinality(q \cup {n + 1}) = Cardinality(q) + 1
  BY <1>1, <1>2, Counting
<1>5. PyOdd(u) <=> ~(PyOdd(t) <=> l.k = "quote")
  <2>1. PyOdd(t) <=> Cardinality(q) % 2 = 1
    BY DEF PyOdd, q
  <2>2. PyOdd(u) <=> Cardinality(r) % 2 = 1
    BY DEF PyOdd, r
  <2>3. CASE l.k = "quote"
    <3>1. Cardinality(r) = Cardinality(q) + 1
      BY <1>3, <1>4, <2>3
    <3>. QED BY <1>4, <2>1, <2>2, <2>3, <3>1
  <2>4. CASE l.k # "quote"
    <3>1. r = q
      BY <1>3, <2>4
    <3>. QED BY <2>1, <2>2, <2>4, <3>1
  <2>. QED BY <2>3, <2>4
<1>6. /\ \A i \in 1 .. n : {j \in r : j <= i} = {j \in q : j <= i}
      /\ {j \in r : j <= n + 1} = r
  <2>1. \A j \in r : j \in q \/ j = n + 1
    BY <1>3
  <2>2. q \subseteq r /\ \A j \in q : j \in Int /\ j <= n
    BY <1>1, <1>2, <1>3
  <2>3. ASSUME NEW i \in 1 .. n PROVE {j \in r : j <= i} = {j \in q : j <= i}
    <3>1. ~(n + 1 <= i)
      BY <1>1
    <3>. QED BY <2>1, <2>2, <3>1
  <2>4. \A j \in r : j <= n + 1
    BY <1>1, <2>1, <2>2
  <2>. QED BY <2>3, <2>4
<1> DEFINE OddAt(x, i) == Cardinality({j \in x : j <= i}) % 2 = 1
<1>7. /\ \A i \in 1 .. n : OddAt(r, i) <=> OddAt(q, i)
      /\ OddAt(r, n + 1) <=> PyOdd(u)
  BY <1>6 DEF PyOdd, r
<1>8. /\ \A i : i \in Py!Statements(t) <=>
                 /\ i \in 1 .. n
                 /\ \/ t[i].k \notin {"com", "quote"} /\ ~(i \notin q /\ OddAt(q, i))
                    \/ i \in q /\ OddAt(q, i)
      /\ \A i : i \in Py!Statements(u) <=>
                 /\ i \in 1 .. n + 1
                 /\ \/ u[i].k \notin {"com", "quote"} /\ ~(i \notin r /\ OddAt(r, i))
                    \/ i \in r /\ OddAt(r, i)
  <2>1. q = Py!Quotes(t) /\ r = Py!Quotes(u)
    BY DEF q, r
  <2>0. \A S : /\ Py!OddIn(S, t) = {i \in S : OddAt(q, i)}
               /\ Py!OddIn(S, u) = {i \in S : OddAt(r, i)}
    BY <2>1, PyLines DEF Py!OddIn
  <2>2. Py!Quoted(t) = {i \in 1 .. n : i \notin q /\ OddAt(q, i)}
    <3>1. Py!Quoted(t) = Py!OddIn(1 .. n \ q, t)
      BY <1>1, <2>1 DEF Py!Quoted
    <3>. HIDE DEF OddAt
    <3>. QED BY <2>0, <3>1
  <2>3. Py!Quoted(u) = {i \in 1 .. n + 1 : i \notin r /\ OddAt(r, i)}
    <3>1. Py!Quoted(u) = Py!OddIn(1 .. n + 1 \ r, u)
      BY <1>1, <2>1 DEF Py!Quoted
    <3>. HIDE DEF OddAt
    <3>. QED BY <2>0, <3>1
  <2>4. Py!OddIn(q, t) = {i \in q : OddAt(q, i)} /\ Py!OddIn(r, u) = {i \in r : OddAt(r, i)}
    BY <2>0
  <2>5. r \subseteq 1 .. n + 1
    BY <1>1, <1>2, <1>3
  <2>. HIDE DEF OddAt
  <2>6. Py!Where(t, LAMBDA x : x.k \notin {"com", "quote"}) = {i \in 1 .. n : t[i].k \notin {"com", "quote"}}
    BY <1>1 DEF Py!Where
  <2>7. Py!Where(u, LAMBDA x : x.k \notin {"com", "quote"}) = {i \in 1 .. n + 1 : u[i].k \notin {"com", "quote"}}
    BY <1>1 DEF Py!Where
  <2>8. \A i : i \in Py!Statements(t) <=>
                 /\ i \in 1 .. n
                 /\ \/ t[i].k \notin {"com", "quote"} /\ ~(i \notin q /\ OddAt(q, i))
                    \/ i \in q /\ OddAt(q, i)
    BY <1>2, <2>1, <2>2, <2>4, <2>6 DEF Py!Statements
  <2>9. \A i : i \in Py!Statements(u) <=>
                 /\ i \in 1 .. n + 1
                 /\ \/ u[i].k \notin {"com", "quote"} /\ ~(i \notin r /\ OddAt(r, i))
                    \/ i \in r /\ OddAt(r, i)
    BY <2>1, <2>3, <2>4, <2>5, <2>7 DEF Py!Statements
  <2>. QED BY <2>8, <2>9
<1>. HIDE DEF OddAt
<1>9. Py!Statements(t) \subseteq 1 .. n
  BY <1>8
<1>10. \A i \in 1 .. n : i \in Py!Statements(u) <=> i \in Py!Statements(t)
  <2>1. \A i \in 1 .. n : i \in r <=> i \in q
    BY <1>1, <1>3
  <2>2. \A i \in 1 .. n : i \in 1 .. n + 1
    BY <1>1
  <2>. QED BY <1>1, <1>7, <1>8, <2>1, <2>2
<1>11. n + 1 \in Py!Statements(u) <=> PyCounts(t, l)
  <2>1. n + 1 \in r <=> l.k = "quote"
    BY <1>1, <1>2, <1>3
  <2>2. n + 1 \in 1 .. n + 1
    BY <1>1
  <2>3. n + 1 \in Py!Statements(u) <=> \/ l.k \notin {"com", "quote"} /\ ~(n + 1 \notin r /\ PyOdd(u))
                                       \/ n + 1 \in r /\ PyOdd(u)
    BY <1>1, <1>7, <1>8, <2>2
  <2>4. l.k = "quote" => l.k # "com"
    OBVIOUS
  <2>. HIDE DEF PyOdd
  <2>. QED BY <1>5, <2>1, <2>3, <2>4 DEF PyCounts
<1>12. Py!Statements(u) \subseteq 1 .. n + 1
  BY <1>8
<1>13. \A i \in 1 .. n + 1 : i \in 1 .. n \/ i = n + 1
  BY <1>1
<1>14. Py!Statements(u) = Py!Statements(t) \cup (IF PyCounts(t, l) THEN {n + 1} ELSE {})
  BY <1>9, <1>10, <1>11, <1>12, <1>13
<1>. QED BY <1>1, <1>2, <1>3, <1>5, <1>9, <1>14 DEF q, r, u, n

(* What the next line changes                                              *)
LEMMA PyNextLine ==
  ASSUME NEW t \in Seq(Fine("py")), NEW l \in Fine("py")
  PROVE  LET u == Append(t, l)
         IN /\ PyOdd(u) <=> ~(PyOdd(t) <=> l.k = "quote")
            /\ PyOpen(u) <=> IF PyCounts(t, l)
                             THEN \/ l.k = "class" /\ l.in = 0 /\ l.n = Own
                                  \/ PyOpen(t) /\ (l.in > 0 \/ l.k \in Py!Docs)
                             ELSE PyOpen(t)
            /\ PyNames(u) = PyNames(t) \cup
                 (IF PyCounts(t, l) /\ Py!IsDef(l) /\ l.in = 1 /\ PyOpen(t) THEN {l.n} ELSE {})
<1> DEFINE u == Append(t, l)
           n == Len(t)
           all == Py!Statements(t)
           more == Py!Statements(u)
           counts == PyCounts(t, l)
           own == Py!OwnClasses(t)
           owns == Py!OwnClasses(u)
           mine == l.k = "class" /\ l.in = 0 /\ l.n = Own
           Stays(x) == x.in > 0 \/ x.k \in Py!Docs
<1>1. /\ n \in Nat /\ DOMAIN t = 1 .. n /\ DOMAIN u = 1 .. n + 1
      /\ u[n + 1] = l /\ \A i \in 1 .. n : u[i] = t[i]
      /\ PyOdd(u) <=> ~(PyOdd(t) <=> l.k = "quote")
      /\ all \subseteq 1 .. n
      /\ more = all \cup (IF counts THEN {n + 1} ELSE {})
  BY PyQuoteLine
<1>2. owns = own \cup (IF counts /\ mine THEN {n + 1} ELSE {})
  <2>1. \A i : i \in own <=> i \in all /\ t[i].k = "class" /\ t[i].in = 0 /\ t[i].n = Own
    BY <1>1, PyLines DEF Py!OwnClasses, Py!TopClasses, Py!Where
  <2>2. \A i : i \in owns <=> i \in more /\ u[i].k = "class" /\ u[i].in = 0 /\ u[i].n = Own
    BY <1>1, PyLines DEF Py!OwnClasses, Py!TopClasses, Py!Where
  <2>. HIDE DEF own, owns, all, more, counts, u, n
  <2>3. n + 1 \notin all
    BY <1>1
  <2>4. \A i \in all : u[i] = t[i]
    BY <1>1
  <2>. QED BY <1>1, <2>1, <2>2, <2>3, <2>4
<1>3. own \subseteq 1 .. n
  BY <1>1 DEF Py!OwnClasses
<1>4. PyOpen(t) <=> \E a \in own : \A j \in all : a < j => Stays(t[j])
  BY DEF PyOpen
<1>5. PyOpen(u) <=> \E a \in owns : \A j \in more : a < j => Stays(u[j])
  BY DEF PyOpen
<1>6. /\ Py!Visible(t) = {i \in all : /\ Py!IsDef(t[i]) /\ t[i].in = 1
                                      /\ \E a \in own : a < i /\ \A j \in all : a < j /\ j <= i => Stays(t[j])}
      /\ Py!Visible(u) = {i \in more : /\ Py!IsDef(u[i]) /\ u[i].in = 1
                                       /\ \E a \in owns : a < i /\ \A j \in more : a < j /\ j <= i => Stays(u[j])}
  BY DEF Py!Visible
<1> DEFINE Shown(i, x, f, o) == /\ Py!IsDef(f[i]) /\ f[i].in = 1
                                /\ \E a \in o : a < i /\ \A j \in x : a < j /\ j <= i => Stays(f[j])
<1>7. /\ PyNames(t) = {t[i].n : i \in {h \in all : Shown(h, all, t, own)}}
      /\ PyNames(u) = {u[i].n : i \in {h \in more : Shown(h, more, u, owns)}}
  BY <1>6 DEF PyNames
<1>. HIDE DEF u, n, all, more, counts, own, owns, Stays
<1>8. \A i \in 1 .. n : i < n + 1 /\ i <= n + 1 /\ i # n + 1
  BY <1>1
<1>9. PyOpen(u) <=> IF counts THEN mine \/ (PyOpen(t) /\ Stays(l)) ELSE PyOpen(t)
  <2>1. CASE ~counts
    <3>1. more = all /\ owns = own
      BY <1>1, <1>2, <2>1
    <3>2. \A j \in all : u[j] = t[j]
      BY <1>1
    <3>. QED BY <1>4, <1>5, <2>1, <3>1, <3>2
  <2>2. CASE counts /\ mine
    <3>1. n + 1 \in owns /\ more = all \cup {n + 1}
      BY <1>1, <1>2, <2>2
    <3>2. \A j \in more : ~(n + 1 < j)
      BY <1>1, <3>1
    <3>. QED BY <1>5, <2>2, <3>1, <3>2
  <2>3. CASE counts /\ ~mine
    <3>1. owns = own /\ more = all \cup {n + 1}
      BY <1>1, <1>2, <2>3
    <3>2. \A j \in all : u[j] = t[j]
      BY <1>1
    <3>3. \A a \in own : a < n + 1
      BY <1>3, <1>8
    <3>. QED BY <1>1, <1>4, <1>5, <2>3, <3>1, <3>2, <3>3
  <2>. QED BY <2>1, <2>2, <2>3
<1>10. ASSUME NEW i \in all
       PROVE  Shown(i, more, u, owns) <=> Shown(i, all, t, own)
  <2>1. i \in 1 .. n /\ i < n + 1 /\ ~(n + 1 <= i) /\ ~(n + 1 < i) /\ u[i] = t[i]
    BY <1>1, <1>8
  <2>2. \A j \in all : u[j] = t[j]
    BY <1>1
  <2>3. \A j \in more : j \in all \/ j = n + 1
    BY <1>1
  <2>4. \A a \in owns : a \in own \/ a = n + 1
    BY <1>2
  <2>5. all \subseteq more /\ own \subseteq owns
    BY <1>1, <1>2
  <2>. QED BY <2>1, <2>2, <2>3, <2>4, <2>5
<1>11. ASSUME counts
       PROVE  Shown(n + 1, more, u, owns) <=> Py!IsDef(l) /\ l.in = 1 /\ PyOpen(t)
  <2>1. more = all \cup {n + 1}
    BY <1>1, <1>11
  <2>2. Py!IsDef(l) => owns = own
    BY <1>2 DEF Py!IsDef
  <2>3. \A j \in all : u[j] = t[j] /\ j <= n + 1
    BY <1>1, <1>8
  <2>4. \A a \in own : a < n + 1
    BY <1>3, <1>8
  <2>5. l.in = 1 => Stays(l)
    BY DEF Stays
  <2>. QED BY <1>1, <1>4, <2>1, <2>2, <2>3, <2>4, <2>5
<1>12. PyNames(u) = PyNames(t) \cup (IF counts /\ Py!IsDef(l) /\ l.in = 1 /\ PyOpen(t) THEN {l.n} ELSE {})
  <2>. HIDE DEF Shown
  <2>1. \A i \in all : i # n + 1 /\ u[i] = t[i]
    BY <1>1, <1>8
  <2>2. CASE ~counts
    <3>1. more = all
      BY <1>1, <2>2
    <3>. QED BY <1>7, <1>10, <2>1, <2>2, <3>1
  <2>3. CASE counts
    <3>1. more = all \cup {n + 1}
      BY <1>1, <2>3
    <3> DEFINE new == Py!IsDef(l) /\ l.in = 1 /\ PyOpen(t)
    <3>2. Shown(n + 1, more, u, owns) <=> new
      BY <1>11, <2>3
    <3>3. u[n + 1] = l
      BY <1>1
    <3>. HIDE DEF new
    <3>4. {h \in more : Shown(h, more, u, owns)} =
            {h \in all : Shown(h, all, t, own)} \cup (IF new THEN {n + 1} ELSE {})
      BY <1>10, <2>1, <3>1, <3>2
    <3>5. PyNames(u) = PyNames(t) \cup (IF new THEN {l.n} ELSE {})
      BY <1>7, <2>1, <3>3, <3>4
    <3>. QED BY <2>3, <3>5 DEF new
  <2>. QED BY <2>2, <2>3
<1>13. PyOpen(u) <=> IF counts THEN mine \/ (PyOpen(t) /\ (l.in > 0 \/ l.k \in Py!Docs))
                     ELSE PyOpen(t)
  BY <1>9 DEF Stays
<1>. QED BY <1>1, <1>12, <1>13 DEF u, counts

PyQuiet(l) == /\ l.k # "quote" /\ (l.in > 0 \/ l.k \in Py!Docs)
              /\ ~(Py!IsDef(l) /\ l.in = 1)

LEMMA PyQuietLine ==
  ASSUME NEW t \in Seq(Fine("py")), NEW l \in Fine("py"), PyQuiet(l)
  PROVE  LET u == Append(t, l)
         IN (PyOdd(u) <=> PyOdd(t)) /\ (PyOpen(u) <=> PyOpen(t)) /\ PyNames(u) = PyNames(t)
<1>1. l.k # "class" \/ l.in # 0
  BY DEF PyQuiet, Py!Docs, Fine, LinesOf
<1>. QED BY <1>1, PyNextLine DEF PyQuiet

-----------------------------------------------------------------------------
(* Python: files that the scan leaves in one state                         *)

(* The second text shows at most the methods of A beyond those of the      *)
(* first, and what follows it is read as it is after the first.            *)
PyLike(A) ==
  {p \in Seq(Fine("py")) \X Seq(Fine("py")) :
     /\ PyOdd(p[1]) <=> PyOdd(p[2])
     /\ PyOpen(p[1]) <=> PyOpen(p[2])
     /\ PyNames(p[2]) \subseteq PyNames(p[1]) \cup A}

LEMMA PyLikeIs ==
  ASSUME NEW A, NEW s, NEW r
  PROVE  <<s, r>> \in PyLike(A) <=>
           /\ s \in Seq(Fine("py")) /\ r \in Seq(Fine("py"))
           /\ PyOdd(s) <=> PyOdd(r)
           /\ PyOpen(s) <=> PyOpen(r)
           /\ PyNames(r) \subseteq PyNames(s) \cup A
BY DEF PyLike

LEMMA PyLikeSelf ==
  ASSUME NEW A, NEW s \in Seq(Fine("py"))
  PROVE  <<s, s>> \in PyLike(A)
BY PyLikeIs

LEMMA PyLikeTwice ==
  ASSUME NEW A, NEW s, NEW r, NEW u, <<s, r>> \in PyLike(A), <<r, u>> \in PyLike(A)
  PROVE  <<s, u>> \in PyLike(A)
BY PyLikeIs

LEMMA PyLikeSame ==
  ASSUME NEW A, NEW s, NEW r, <<s, r>> \in PyLike(A), NEW l \in Fine("py")
  PROVE  <<Append(s, l), Append(r, l)>> \in PyLike(A)
<1>1. /\ s \in Seq(Fine("py")) /\ r \in Seq(Fine("py"))
      /\ PyOdd(s) <=> PyOdd(r)
      /\ PyOpen(s) <=> PyOpen(r)
      /\ PyNames(r) \subseteq PyNames(s) \cup A
  BY PyLikeIs
<1>2. PyCounts(s, l) <=> PyCounts(r, l)
  BY <1>1 DEF PyCounts
<1>3. Append(s, l) \in Seq(Fine("py")) /\ Append(r, l) \in Seq(Fine("py"))
  BY <1>1
<1>4. PyOdd(Append(s, l)) <=> PyOdd(Append(r, l))
  BY <1>1, PyNextLine
<1>5. PyOpen(Append(s, l)) <=> PyOpen(Append(r, l))
  BY <1>1, <1>2, PyNextLine
<1>6. PyNames(Append(r, l)) \subseteq PyNames(Append(s, l)) \cup A
  BY <1>1, <1>2, PyNextLine
<1>. QED BY <1>3, <1>4, <1>5, <1>6, PyLikeIs

(* A line that at most declares a method of A                              *)
PyHarmless(l, A) == PyQuiet(l) \/ (Py!IsDef(l) /\ l.in = 1 /\ l.n \in A)

LEMMA PyLikeLine ==
  ASSUME NEW A, NEW s, NEW r, <<s, r>> \in PyLike(A), NEW l \in Fine("py"), PyHarmless(l, A)
  PROVE  <<s, Append(r, l)>> \in PyLike(A)
<1>1. /\ s \in Seq(Fine("py")) /\ r \in Seq(Fine("py"))
      /\ PyOdd(s) <=> PyOdd(r)
      /\ PyOpen(s) <=> PyOpen(r)
      /\ PyNames(r) \subseteq PyNames(s) \cup A
  BY PyLikeIs
<1>2. Append(r, l) \in Seq(Fine("py"))
  BY <1>1
<1>3. CASE PyQuiet(l)
  <2>1. (PyOdd(Append(r, l)) <=> PyOdd(r)) /\ (PyOpen(Append(r, l)) <=> PyOpen(r))
        /\ PyNames(Append(r, l)) = PyNames(r)
    BY <1>1, <1>3, PyQuietLine
  <2>. QED BY <1>1, <1>2, <2>1, PyLikeIs
<1>4. CASE Py!IsDef(l) /\ l.in = 1 /\ l.n \in A
  <2>1. l.k # "quote" /\ l.k # "class" /\ l.in > 0
    BY <1>4 DEF Py!IsDef
  <2>2. (PyOdd(Append(r, l)) <=> PyOdd(r)) /\ (PyOpen(Append(r, l)) <=> PyOpen(r))
        /\ PyNames(Append(r, l)) \subseteq PyNames(r) \cup {l.n}
    BY <1>1, <2>1, PyNextLine
  <2>3. PyNames(Append(r, l)) \subseteq PyNames(s) \cup A
    BY <1>1, <1>4, <2>2
  <2>. QED BY <1>1, <1>2, <2>2, <2>3, PyLikeIs
<1>. QED BY <1>3, <1>4 DEF PyHarmless

LEMMA PyLikeLines ==
  ASSUME NEW A, NEW s, NEW r, <<s, r>> \in PyLike(A),
         NEW u \in Seq({l \in Fine("py") : PyHarmless(l, A)})
  PROVE  <<s, r \o u>> \in PyLike(A)
<1> DEFINE P == {x \in Seq(Fine("py")) : <<s, x>> \in PyLike(A)}
           F == Fine("py")
<1>1. u \in Seq(F) /\ \A i \in 1 .. Len(u) : u[i] \in F /\ PyHarmless(u[i], A)
  <2>1. \A i \in 1 .. Len(u) : u[i] \in F /\ PyHarmless(u[i], A)
    BY ElementOfSeq
  <2>. HIDE DEF F
  <2>2. Len(u) \in Nat /\ u = [i \in 1 .. Len(u) |-> u[i]]
    OBVIOUS
  <2>. QED BY <2>1, <2>2
<1>2. r \in P
  BY PyLikeIs
<1>3. ASSUME NEW x \in Seq(F), NEW i \in 1 .. Len(u), x \in P PROVE Append(x, u[i]) \in P
  <2>1. <<s, Append(x, u[i])>> \in PyLike(A)
    BY <1>1, <1>3, PyLikeLine
  <2>. QED BY <2>1, PyLikeIs
<1>4. r \in Seq(F)
  BY PyLikeIs
<1>. HIDE DEF P, F
<1>5. r \o u \in P
  BY <1>1, <1>2, <1>3, <1>4, MoreLines
<1>. QED BY <1>5 DEF P

-----------------------------------------------------------------------------
(* Python: the stub and its methods                                        *)

PyStubLine == {l \in Fine("py") :
                 /\ PyQuiet(l) \/ (l.in = 1 /\ l.n \in Method \cup {Ctor})
                 /\ l.k # "class" /\ l.k # "quote" /\ (Py!IsDef(l) => l.in = 1)}

LEMMA PyStub ==
  ASSUME family = "py"
  PROVE  /\ Stub \in Seq(Fine("py")) /\ Len(Stub) > 0
         /\ Stub[1] = Line(0, "class", Own)
         /\ \A i \in 2 .. Len(Stub) : Stub[i] \in PyStubLine
<1> DEFINE a == Line(0, "class", Own)
           b == Line(1, "def", Ctor)
           c == Line(2, "stub", 0)
           M(i) == <<Line(1, "def", StubOrder[i]), Line(2, "doc", StubOrder[i]), Line(2, "stub", StubOrder[i])>>
           N == Len(StubOrder)
           ss == [i \in 1 .. N |-> M(i)]
<1>1. Stub = <<a, b, c>> \o FlattenSeq(ss)
  <2>1. Stub = Py!Full
    BY DEF Stub, Braces
  <2>2. DOMAIN StubOrder = 1 .. N
    BY MethodsAreNumbers
  <2>. QED BY <2>1, <2>2, PyLines DEF Py!Full
<1>2. Kinds("py") = {"class", "def", "defC", "def1", "if", "doc", "olddoc", "mydoc", "quote",
                    "com", "stub", "mine", "text"}
  BY DEF Kinds, Braces
<1>3. a \in Fine("py")
  BY <1>2 DEF Line, LinesOf, Fine
<1>4. b \in PyStubLine /\ c \in PyStubLine
  BY <1>2 DEF Line, LinesOf, Fine, PyStubLine, PyQuiet, Py!IsDef
<1>5. ASSUME NEW i \in 1 .. N PROVE M(i) \in Seq(PyStubLine)
  <2>1. StubOrder[i] \in Method
    BY MethodsAreNumbers
  <2>2. Line(1, "def", StubOrder[i]) \in PyStubLine
    BY <1>2, <2>1 DEF Line, LinesOf, Fine, PyStubLine, PyQuiet, Py!IsDef
  <2>3. Line(2, "doc", StubOrder[i]) \in PyStubLine
    BY <1>2, <2>1 DEF Line, LinesOf, Fine, PyStubLine, PyQuiet, Py!IsDef
  <2>4. Line(2, "stub", StubOrder[i]) \in PyStubLine
    BY <1>2, <2>1 DEF Line, LinesOf, Fine, PyStubLine, PyQuiet, Py!IsDef
  <2>. QED BY <2>2, <2>3, <2>4
<1>6. N \in Nat
  BY MethodsAreNumbers
<1>. HIDE DEF M, N, a, b, c
<1>7. ss \in Seq(Seq(PyStubLine))
  <2>1. ss \in [1 .. N -> Seq(PyStubLine)]
    BY <1>5
  <2>. QED BY <1>6, <2>1, MakeSeq
<1>. HIDE DEF ss
<1> DEFINE z == FlattenSeq(ss)
<1>8. z \in Seq(PyStubLine)
  BY <1>7, FlatType
<1>. HIDE DEF z
<1>9. Len(z) \in Nat /\ \A i \in 1 .. Len(z) : z[i] \in PyStubLine
  BY <1>8
<1>10. PyStubLine \subseteq Fine("py")
  BY DEF PyStubLine
<1>11. z \in Seq(Fine("py"))
  <2>1. z = [i \in 1 .. Len(z) |-> z[i]]
    BY <1>8
  <2>. QED BY <1>9, <1>10, <2>1
<1> DEFINE abc == <<a, b, c>>
<1>12. /\ abc \in Seq(Fine("py")) /\ Len(abc) = 3 /\ abc[1] = a /\ abc[2] \in PyStubLine
       /\ abc[3] \in PyStubLine
  BY <1>3, <1>4, <1>10
<1>. HIDE DEF abc
<1>13. /\ abc \o z \in Seq(Fine("py")) /\ Len(abc \o z) = 3 + Len(z)
       /\ \A i \in 1 .. 3 : (abc \o z)[i] = abc[i]
       /\ \A j \in 1 .. Len(z) : (abc \o z)[3 + j] = z[j]
  <2>1. /\ abc \o z \in Seq(Fine("py")) /\ Len(abc \o z) = Len(abc) + Len(z)
        /\ \A i \in 1 .. Len(abc) : (abc \o z)[i] = abc[i]
        /\ \A j \in 1 .. Len(z) : (abc \o z)[Len(abc) + j] = z[j]
    <3> DEFINE F == Fine("py")
    <3>1. abc \in Seq(F) /\ z \in Seq(F)
      BY <1>11, <1>12
    <3>. HIDE DEF F
    <3>2. abc \o z \in Seq(F) /\ Len(abc \o z) = Len(abc) + Len(z)
      BY <3>1, Cat
    <3>3. \A i \in 1 .. Len(abc) : (abc \o z)[i] = abc[i]
      BY <3>1, Cat
    <3>4. \A j \in 1 .. Len(z) : (abc \o z)[Len(abc) + j] = z[j]
      BY <3>1, Cat
    <3>. QED BY <3>2, <3>3, <3>4 DEF F
  <2>. QED BY <1>12, <2>1
<1>14. Stub = abc \o z
  BY <1>1 DEF abc, z
<1>15. ASSUME NEW i \in 2 .. Len(Stub) PROVE Stub[i] \in PyStubLine
  <2>1. i = 2 \/ i = 3 \/ i - 3 \in 1 .. Len(z)
    BY <1>9, <1>13, <1>14
  <2>2. CASE i - 3 \in 1 .. Len(z)
    <3>1. PICK j \in 1 .. Len(z) : i = 3 + j
      BY <1>9, <2>2
    <3>. QED BY <1>9, <1>13, <1>14, <3>1
  <2>3. CASE i = 2 \/ i = 3
    BY <1>12, <1>13, <1>14, <2>3
  <2>. QED BY <2>1, <2>2, <2>3
<1>. QED BY <1>9, <1>12, <1>13, <1>14, <1>15 DEF a

(* A stub's method: its def, and the lines up to the next def              *)
LEMMA PyBlock ==
  ASSUME family = "py", NEW n
  PROVE  Py!MethodBlock(Stub, n) \in Seq({l \in Fine("py") : PyHarmless(l, {n} \cap (Method \cup {Ctor}))})
<1> DEFINE T == {l \in Fine("py") : PyHarmless(l, {n} \cap (Method \cup {Ctor}))}
           N == Len(Stub)
           defs == Py!Defs(Stub, n)
           a == FirstOf(defs, 1, Stub)
           ends == {i \in DOMAIN Stub : \/ Py!IsDef(Stub[i]) /\ Stub[i].in <= Stub[a].in
                                        \/ i \in Py!TopClasses(Stub) /\ Stub[a].in > 0}
           b == FirstOf(ends, a + 1, Stub)
<1>1. /\ Stub \in Seq(Fine("py")) /\ N > 0
      /\ Stub[1] = Line(0, "class", Own)
      /\ \A i \in 2 .. N : Stub[i] \in PyStubLine
  BY PyStub
<1>2. N \in Nat /\ DOMAIN Stub = 1 .. N
  BY <1>1
<1>3. defs = {i \in 1 .. N : Py!IsDef(Stub[i]) /\ Stub[i].n = n}
  BY <1>2 DEF Py!Defs, Py!Where
<1>4. Py!MethodBlock(Stub, n) = IF a > N THEN <<>> ELSE SubSeq(Stub, a, b - 1)
  BY PyLines DEF Py!MethodBlock
<1>5. 1 \notin defs
  BY <1>1, <1>3 DEF Line, Py!IsDef
<1>6. a \in Nat /\ (a \in defs \/ a = N + 1)
  BY <1>2, <1>3, FirstOfIs
<1>7. ends \subseteq 1 .. N
  BY <1>2
<1>. HIDE DEF defs, a
<1>8. CASE a > N
  <2>1. Py!MethodBlock(Stub, n) = <<>>
    BY <1>4, <1>8
  <2>. QED BY <2>1
<1>9. CASE ~(a > N)
  <2>1. a \in defs /\ a \in 2 .. N
    BY <1>2, <1>3, <1>5, <1>6, <1>9
  <2>2. Stub[a] \in PyStubLine /\ Py!IsDef(Stub[a]) /\ Stub[a].n = n
    BY <1>1, <1>3, <2>1
  <2>3. Stub[a].in = 1 /\ ~PyQuiet(Stub[a])
    BY <2>2 DEF PyStubLine, PyQuiet
  <2>4. Stub[a] \in T
    BY <2>2, <2>3 DEF PyStubLine, PyHarmless
  <2>. HIDE DEF ends
  <2>5. b \in Nat /\ b >= a + 1 /\ b <= N + 1 /\ \A i \in ends : i >= a + 1 => b <= i
    <3>1. a + 1 \in Nat
      BY <1>6
    <3>. QED BY <1>2, <1>6, <1>7, <2>1, <3>1, FirstOfIs
  <2>. HIDE DEF b
  <2>6. ASSUME NEW i \in a + 1 .. b - 1 PROVE Stub[i] \in T
    <3>1. i \in 2 .. N /\ i >= a + 1 /\ ~(b <= i)
      BY <2>1, <2>5
    <3>2. Stub[i] \in PyStubLine
      BY <1>1, <3>1
    <3>3. i \notin ends
      BY <2>5, <3>1
    <3>4. ~Py!IsDef(Stub[i])
      <4>1. SUFFICES ASSUME Py!IsDef(Stub[i]) PROVE FALSE
        OBVIOUS
      <4>2. Stub[i].in = 1
        BY <3>2, <4>1 DEF PyStubLine
      <4>. QED BY <1>2, <2>3, <3>1, <3>3, <4>1, <4>2 DEF ends
    <3>5. PyQuiet(Stub[i])
      <4>1. PyQuiet(Stub[i]) \/ Stub[i].in = 1
        BY <3>2 DEF PyStubLine
      <4>2. Stub[i].k # "quote"
        BY <3>2 DEF PyStubLine
      <4>. QED BY <3>4, <4>1, <4>2 DEF PyQuiet
    <3>. QED BY <3>2, <3>5 DEF PyStubLine, PyHarmless
  <2>7. \A i \in a .. b - 1 : i = a \/ i \in a + 1 .. b - 1
    BY <2>1, <2>5
  <2>8. \A i \in a .. b - 1 : Stub[i] \in T
    BY <2>4, <2>6, <2>7
  <2>. HIDE DEF T
  <2>9. a \in Nat \ {0} /\ b - 1 \in 0 .. N
    BY <1>2, <2>1, <2>5
  <2>10. SubSeq(Stub, a, b - 1) \in Seq(T)
    BY <1>1, <2>8, <2>9, Excerpt
  <2>. QED BY <1>4, <1>9, <2>10 DEF T
<1>. QED BY <1>8, <1>9

(* Some of the stub's methods: harmless where they are of A                *)
LEMMA PyBlocks ==
  ASSUME family = "py", NEW A, NEW n, n \in Method \cup {Ctor} => n \in A
  PROVE  Py!MethodBlock(Stub, n) \in Seq({l \in Fine("py") : PyHarmless(l, A)})
<1> DEFINE B == {n} \cap (Method \cup {Ctor})
           U == {l \in Fine("py") : PyHarmless(l, B)}
           T == {l \in Fine("py") : PyHarmless(l, A)}
<1>1. U \subseteq T
  BY DEF PyHarmless
<1>2. Py!MethodBlock(Stub, n) \in Seq(U)
  BY PyBlock
<1>. HIDE DEF U, T
<1>3. \A i \in 1 .. Len(Py!MethodBlock(Stub, n)) : Py!MethodBlock(Stub, n)[i] \in T
  BY <1>1, <1>2, ElementOfSeq
<1>4. Py!MethodBlock(Stub, n) \in Seq(T)
  BY <1>2, <1>3, Sieved
<1>. QED BY <1>4 DEF T

LEMMA PySlice ==
  ASSUME family = "py", NEW A \in SUBSET Method
  PROVE  /\ Py!Slice(Stub, A) \in Seq(Fine("py"))
         /\ PyNames(Py!Slice(Stub, A)) \subseteq A \cup {Ctor}
<1> DEFINE F == Fine("py")
           B == A \cup {Ctor}
           T == {l \in F : PyHarmless(l, B)}
           N == Len(Stub)
           a == Line(0, "class", Own)
           M(i) == IF Py!IsDef(Stub[i]) /\ Stub[i].n \in A THEN Py!MethodBlock(Stub, Stub[i].n) ELSE <<>>
           ss == [i \in 1 .. N |-> M(i)]
           c == Py!MethodBlock(Stub, Ctor)
<1>1. Stub \in Seq(F) /\ N > 0 /\ Stub[1] = a /\ \A i \in 2 .. N : Stub[i] \in PyStubLine
  BY PyStub
<1>2. N \in Nat /\ DOMAIN Stub = 1 .. N
  BY <1>1
<1>3. Py!TopClasses(Stub) = {1}
  <2>1. Py!TopClasses(Stub) = {i \in 1 .. N : Stub[i].k = "class" /\ Stub[i].in = 0}
    BY <1>2 DEF Py!TopClasses, Py!Where
  <2>2. \A i \in 2 .. N : Stub[i].k # "class"
    BY <1>1 DEF PyStubLine
  <2>3. Stub[1].k = "class" /\ Stub[1].in = 0
    BY <1>1 DEF Line
  <2>4. \A i \in 1 .. N : i = 1 \/ i \in 2 .. N
    BY <1>2
  <2>5. 1 \in 1 .. N
    BY <1>1, <1>2
  <2>. QED BY <2>1, <2>2, <2>3, <2>4, <2>5
<1>4. Min({1}) = 1
  BY MinOf
<1>5. Py!Slice(Stub, A) = (<<a>> \o c) \o FlattenSeq(ss)
  BY <1>1, <1>2, <1>3, <1>4, PyLines DEF Py!Slice
<1>6. c \in Seq(T)
  BY PyBlocks
<1>7. ss \in Seq(Seq(T))
  <2>1. ASSUME NEW i \in 1 .. N PROVE M(i) \in Seq(T)
    <3>1. CASE Py!IsDef(Stub[i]) /\ Stub[i].n \in A
      <4>1. Py!MethodBlock(Stub, Stub[i].n) \in Seq(T)
        BY <3>1, PyBlocks
      <4>. QED BY <3>1, <4>1
    <3>2. CASE ~(Py!IsDef(Stub[i]) /\ Stub[i].n \in A)
      BY <3>2
    <3>. QED BY <3>1, <3>2
  <2>. HIDE DEF M, T, N
  <2>2. ss \in [1 .. N -> Seq(T)]
    BY <2>1
  <2>. QED BY <1>2, <2>2, MakeSeq
<1>8. FlattenSeq(ss) \in Seq(T)
  <2>. HIDE DEF ss, T
  <2>. QED BY <1>7, FlatType
<1>9. a \in F
  <2>1. 1 \in 1 .. N
    BY <1>1, <1>2
  <2>. QED BY <1>1, <2>1
<1>10. <<<<a>>, <<a>>>> \in PyLike(B)
  <2>. HIDE DEF a, F
  <2>1. <<a>> \in Seq(F)
    BY <1>9
  <2>. QED BY <2>1, PyLikeSelf DEF F
<1>11. PyNames(<<a>>) = {}
  <2>1. <<>> \in Seq(F) /\ Append(<<>>, a) = <<a>>
    OBVIOUS
  <2>2. PyNames(<<>>) = {}
    <3>1. Py!Statements(<<>>) = {}
      <4>1. Len(<<>>) = 0 /\ DOMAIN <<>> = {}
        OBVIOUS
      <4>. QED BY <4>1 DEF Py!Statements, Py!OddIn, Py!Quotes, Py!Where
    <3>. QED BY <3>1 DEF PyNames, Py!Visible
  <2>3. ~Py!IsDef(a)
    BY DEF Py!IsDef, Line
  <2>4. PyNames(Append(<<>>, a)) = PyNames(<<>>)
    <3>. HIDE DEF a
    <3>. QED BY <1>9, <2>1, <2>3, PyNextLine
  <2>. QED BY <2>1, <2>2, <2>4
<1>. HIDE DEF a, c, ss, B
<1>12. <<<<a>>, <<a>> \o c>> \in PyLike(B)
  BY <1>6, <1>10, PyLikeLines
<1>13. <<<<a>>, (<<a>> \o c) \o FlattenSeq(ss)>> \in PyLike(B)
  BY <1>8, <1>12, PyLikeLines
<1>. QED BY <1>5, <1>11, <1>13, PyLikeIs DEF B

-----------------------------------------------------------------------------
(* Python: merging                                                         *)

(* The class ends in the file: a docstring that its last block opens is    *)
(* closed, because the file parses.                                        *)
LEMMA PyEndIn ==
  ASSUME NEW t \in Seq(Fine("py")), Py!Parses(t), NEW i \in Py!OwnClasses(t)
  PROVE  Py!BlockEnd(t, i) \in 1 .. Len(t) + 1
<1> DEFINE n == Len(t)
           all == Py!Statements(t)
           q == Py!Quotes(t)
           above == {j \in all : t[j].in <= t[i].in}
           next == FirstOf(above, i + 1, t)
           last == Max({j \in all : j < next})
<1>1. n \in Nat /\ DOMAIN t = 1 .. n
  OBVIOUS
<1>2. q = {j \in 1 .. n : t[j].k = "quote"}
  BY <1>1 DEF Py!Quotes, Py!Where
<1>3. all \subseteq 1 .. n
  BY <1>1, <1>2 DEF Py!Statements, Py!Where, Py!OddIn
<1>4. i \in all /\ i \in 1 .. n
  BY <1>3 DEF Py!OwnClasses
<1>5. Py!BlockEnd(t, i) = IF t[last].k = "quote" THEN FirstOf(q, last + 1, t) + 1 ELSE last + 1
  BY PyLines DEF Py!BlockEnd
<1>. HIDE DEF all, n
<1>6. next \in Nat /\ next >= i + 1
  <2>1. above \in SUBSET (1 .. n) /\ i + 1 \in Nat
    BY <1>3, <1>4
  <2>. HIDE DEF above
  <2>. QED BY <1>1, <1>4, <2>1, FirstOfIs DEF n
<1>. HIDE DEF next
<1> DEFINE S == {j \in all : j < next}
<1>7. last \in S
  <2>1. S \in SUBSET (0 .. n)
    <3>1. \A j \in all : j \in 0 .. n
      BY <1>1, <1>3
    <3>2. \A j \in S : j \in 0 .. n
      BY <3>1
    <3>. HIDE DEF S
    <3>. QED BY <3>2
  <2>0. i \in S
    BY <1>1, <1>4, <1>6
  <2>. HIDE DEF S
  <2>2. Max(S) \in S
    BY <1>1, <2>0, <2>1, MaxOf
  <2>. QED BY <2>2 DEF S
<1>. HIDE DEF last
<1>8. last \in all /\ last \in 1 .. n
  BY <1>3, <1>7
<1>9. CASE t[last].k # "quote"
  <2>1. Py!BlockEnd(t, i) = last + 1
    BY <1>5, <1>9
  <2>. QED BY <1>1, <1>8, <2>1 DEF n
<1>10. CASE t[last].k = "quote"
  <2>1. last \in q
    BY <1>2, <1>8, <1>10
  <2>2. Cardinality({j \in q : j <= last}) % 2 = 1
    <3>1. last \notin Py!Where(t, LAMBDA l : l.k \notin {"com", "quote"})
      BY <1>10 DEF Py!Where
    <3>2. last \in Py!OddIn(q, t)
      BY <1>8, <3>1 DEF all, Py!Statements
    <3>. QED BY <3>2, PyLines DEF Py!OddIn
  <2>3. Cardinality(q) % 2 = 0
    BY PyLines DEF Py!Parses
  <2>4. PICK j \in q : j >= last + 1
    <3>1. SUFFICES ASSUME \A j \in q : ~(j >= last + 1) PROVE FALSE
      OBVIOUS
    <3>2. \A j \in q : j <= last
      BY <1>2, <1>8, <3>1
    <3>3. {j \in q : j <= last} = q
      BY <3>2
    <3> DEFINE y == {j \in q : j <= last}
    <3>4. Cardinality(y) % 2 = 1 /\ Cardinality(q) % 2 = 0 /\ y = q
      BY <2>2, <2>3, <3>3
    <3>. HIDE DEF q, y
    <3>. QED BY <3>4
  <2>5. FirstOf(q, last + 1, t) \in 1 .. n
    <3>1. q \in SUBSET (1 .. n) /\ last + 1 \in Nat /\ n = Len(t)
      BY <1>2, <1>8 DEF n
    <3>. HIDE DEF q
    <3>2. /\ FirstOf(q, last + 1, t) \in q \/ FirstOf(q, last + 1, t) = n + 1
          /\ FirstOf(q, last + 1, t) <= j /\ FirstOf(q, last + 1, t) \in Nat
      BY <1>1, <2>4, <3>1, FirstOfIs
    <3>3. j <= n
      BY <1>1, <3>1
    <3>. QED BY <1>1, <3>1, <3>2, <3>3
  <2>6. Py!BlockEnd(t, i) = FirstOf(q, last + 1, t) + 1
    BY <1>5, <1>10
  <2>. QED BY <1>1, <2>5, <2>6 DEF n
<1>. QED BY <1>9, <1>10

LEMMA PyGrown ==
  ASSUME family = "py", NEW A \in SUBSET Method, NEW t \in Seq(Fine("py")), ~Py!MergeFails(t, A),
         NEW u,
         u = IF Py!MissingFrom(t, A) = {} THEN t
             ELSE Py!InsertIntoClass(t, Py!Blocks(Py!MissingFrom(t, A), LAMBDA n : Py!MethodBlock(Stub, n)))
  PROVE  <<t, u>> \in PyLike(A)
<1> DEFINE F == Fine("py")
           T == {l \in F : PyHarmless(l, A)}
           missing == Py!MissingFrom(t, A)
           N == Len(StubOrder)
           M(n) == IF n \in missing THEN Py!MethodBlock(Stub, n) ELSE <<>>
           ss == [n \in 1 .. N |-> M(n)]
           end == Py!BlockEnd(t, Py!Min(Py!OwnClasses(t)))
<1>1. CASE missing = {}
  <2>1. u = t
    BY <1>1
  <2>. QED BY <2>1, PyLikeSelf
<1>2. CASE missing # {}
  <2>1. Py!Parses(t) /\ Py!OwnClasses(t) # {}
    BY <1>2 DEF Py!MergeFails
  <2>2. end \in 1 .. Len(t) + 1
    <3>1. Py!Statements(t) \subseteq 1 .. Len(t)
      <4>1. DOMAIN t = 1 .. Len(t)
        OBVIOUS
      <4>. QED BY <4>1 DEF Py!Statements, Py!Where, Py!OddIn, Py!Quotes
    <3>2. Py!OwnClasses(t) \in SUBSET Nat
      BY <3>1 DEF Py!OwnClasses
    <3>3. Py!Min(Py!OwnClasses(t)) \in Py!OwnClasses(t)
      BY <2>1, <3>2, MinOf, PyLines
    <3>. QED BY <2>1, <3>3, PyEndIn
  <2>3. missing \subseteq A
    BY DEF Py!MissingFrom
  <2>4. u = (Before(t, end) \o FlattenSeq(ss)) \o After(t, end)
    <3>1. DOMAIN StubOrder = 1 .. N
      BY MethodsAreNumbers
    <3>2. Py!Blocks(missing, LAMBDA n : Py!MethodBlock(Stub, n)) = FlattenSeq(ss)
      BY <3>1, PyLines DEF Py!Blocks
    <3>3. u = Py!InsertIntoClass(t, FlattenSeq(ss))
      BY <1>2, <3>2
    <3>. HIDE DEF ss
    <3>. QED BY <3>3, PyLines DEF Py!InsertIntoClass
  <2>5. ss \in Seq(Seq(T))
    <3>1. ASSUME NEW n \in 1 .. N PROVE M(n) \in Seq(T)
      <4>1. CASE n \in missing
        <5>1. Py!MethodBlock(Stub, n) \in Seq(T)
          BY <2>3, <4>1, PyBlocks
        <5>. QED BY <4>1, <5>1
      <4>2. CASE n \notin missing
        BY <4>2
      <4>. QED BY <4>1, <4>2
    <3>2. N \in Nat
      BY MethodsAreNumbers
    <3>. HIDE DEF M, T, N
    <3>3. ss \in [1 .. N -> Seq(T)]
      BY <3>1
    <3>. QED BY <3>2, <3>3, MakeSeq
  <2>6. FlattenSeq(ss) \in Seq(T)
    <3>. HIDE DEF ss, T
    <3>. QED BY <2>5, FlatType
  <2>. HIDE DEF end, ss, missing
  <2> DEFINE b == Before(t, end)
             c == After(t, end)
             x == FlattenSeq(ss)
  <2>7. b \in Seq(F) /\ c \in Seq(F) /\ b \o c = t
    BY <2>2, CutType, CutWhole
  <2>. HIDE DEF b, c, x
  <2>8. <<b, b \o x>> \in PyLike(A)
    <3>1. <<b, b>> \in PyLike(A)
      BY <2>7, PyLikeSelf
    <3>. QED BY <2>6, <3>1, PyLikeLines DEF x
  <2>9. b \o x \in Seq(F)
    BY <2>8, PyLikeIs
  <2>10. <<b \o c, (b \o x) \o c>> \in PyLike(A)
    <3> DEFINE R == PyLike(A)
    <3>1. \A s, r \in Seq(F), l \in F : <<s, r>> \in R => <<Append(s, l), Append(r, l)>> \in R
      BY PyLikeSame
    <3>2. <<b, b \o x>> \in R
      BY <2>8
    <3>. HIDE DEF R, F
    <3>3. <<b \o c, (b \o x) \o c>> \in R
      BY <2>7, <2>9, <3>1, <3>2, SameTail
    <3>. QED BY <3>3 DEF R
  <2>. QED BY <2>4, <2>7, <2>10 DEF b, c, x
<1>. QED BY <1>1, <1>2
PyDocLine == {l \in Fine("py") : l.k \in Py!Docs}

(* A docstring is no statement that the scan looks at.                     *)
LEMMA PyDocIsQuiet ==
  ASSUME NEW l \in PyDocLine
  PROVE  l \in Fine("py") /\ PyQuiet(l)
BY DEF PyDocLine, PyQuiet, Py!Docs, Py!IsDef

LEMMA PyDocOf ==
  ASSUME NEW b \in Seq(Fine("py"))
  PROVE  /\ Py!DocOf(b) \in Seq(PyDocLine)
         /\ Py!DocOf(b) # <<>> => Py!DocOf(b)[1] \in PyDocLine
<1> DEFINE p == Py!DocPlace(b)
<1>1. CASE p <= Len(b) /\ b[p].k \in Py!Docs
  <2>1. p \in 1 .. Len(b)
    <3>1. p \in Nat /\ p > 0
      <4> DEFINE S == Py!Where(b, Py!EndsWithColon)
                 at == {j \in S : j >= 1}
      <4>1. p = FirstOf(S, 1, b) + 1
        BY PyLines DEF Py!DocPlace
      <4>2. FirstOf(S, 1, b) = IF at = {} THEN Len(b) + 1 ELSE Min(at)
        BY DEF FirstOf
      <4>3. CASE at = {}
        BY <4>1, <4>2, <4>3
      <4>4. CASE at # {}
        <5>1. DOMAIN b = 1 .. Len(b)
          OBVIOUS
        <5>2. at \in SUBSET Nat
          BY <5>1 DEF Py!Where
        <5>. HIDE DEF at
        <5>3. Min(at) \in Nat
          BY <4>4, <5>2, MinOf
        <5>. QED BY <4>1, <4>2, <4>4, <5>3
      <4>. QED BY <4>3, <4>4
    <3>. QED BY <1>1, <3>1
  <2>2. Py!DocOf(b) = <<b[p]>>
    BY <1>1 DEF Py!DocOf
  <2>3. b[p] \in PyDocLine
    BY <1>1, <2>1 DEF PyDocLine
  <2>. QED BY <2>2, <2>3
<1>2. CASE ~(p <= Len(b) /\ b[p].k \in Py!Docs)
  <2>1. Py!DocOf(b) = <<>>
    BY <1>2 DEF Py!DocOf
  <2>. QED BY <2>1
<1>. QED BY <1>1, <1>2

LEMMA PyBlockType ==
  ASSUME NEW t \in Seq(Fine("py")), NEW m
  PROVE  Py!MethodBlock(t, m) \in Seq(Fine("py"))
<1> DEFINE n == Len(t)
           defs == Py!Defs(t, m)
           a == FirstOf(defs, 1, t)
           ends == {i \in DOMAIN t : \/ Py!IsDef(t[i]) /\ t[i].in <= t[a].in
                                     \/ i \in Py!TopClasses(t) /\ t[a].in > 0}
           b == FirstOf(ends, a + 1, t)
<1>1. n \in Nat /\ DOMAIN t = 1 .. n /\ \A i \in 1 .. n : t[i] \in Fine("py")
  OBVIOUS
<1>2. defs \subseteq 1 .. n /\ ends \subseteq 1 .. n
  BY <1>1 DEF Py!Defs, Py!Where
<1>3. Py!MethodBlock(t, m) = IF a > n THEN <<>> ELSE SubSeq(t, a, b - 1)
  BY PyLines DEF Py!MethodBlock
<1>. HIDE DEF ends, defs
<1>4. a \in Nat /\ (a \in defs \/ a = n + 1)
  BY <1>1, <1>2, FirstOfIs
<1>5. a \in 1 .. n + 1
  BY <1>1, <1>2, <1>4
<1>. HIDE DEF a
<1>6. b \in Nat /\ b \in 1 .. n + 1
  <2>1. a + 1 \in Nat
    BY <1>5
  <2>2. b \in Nat /\ (b \in ends \/ b = n + 1)
    BY <1>1, <1>2, <2>1, FirstOfIs
  <2>. QED BY <1>1, <1>2, <2>2
<1>. HIDE DEF b
<1>7. CASE a > n
  BY <1>3, <1>7
<1>8. CASE ~(a > n)
  <2>1. a \in Nat \ {0} /\ b - 1 \in 0 .. n /\ \A i \in a .. b - 1 : i \in 1 .. n
    BY <1>1, <1>5, <1>6
  <2>2. \A i \in a .. b - 1 : t[i] \in Fine("py")
    BY <1>1, <2>1
  <2>3. SubSeq(t, a, b - 1) \in Seq(Fine("py"))
    BY <2>1, <2>2, Excerpt
  <2>. QED BY <1>3, <1>8, <2>3
<1>. QED BY <1>7, <1>8

LEMMA PyLikeQuietPair ==
  ASSUME NEW A, NEW s, NEW r, <<s, r>> \in PyLike(A),
         NEW l \in Fine("py"), NEW m \in Fine("py"), PyQuiet(l), PyQuiet(m)
  PROVE  <<Append(s, l), Append(r, m)>> \in PyLike(A)
<1>1. s \in Seq(Fine("py")) /\ r \in Seq(Fine("py"))
  BY PyLikeIs
<1>2. Append(s, l) \in Seq(Fine("py")) /\ Append(r, m) \in Seq(Fine("py"))
  BY <1>1
<1>3. /\ PyOdd(Append(s, l)) <=> PyOdd(s)
      /\ PyOpen(Append(s, l)) <=> PyOpen(s)
      /\ PyNames(Append(s, l)) = PyNames(s)
  BY <1>1, PyQuietLine
<1>4. /\ PyOdd(Append(r, m)) <=> PyOdd(r)
      /\ PyOpen(Append(r, m)) <=> PyOpen(r)
      /\ PyNames(Append(r, m)) = PyNames(r)
  BY <1>1, PyQuietLine
<1>. QED BY <1>2, <1>3, <1>4, PyLikeIs

LEMMA PyRenewed ==
  ASSUME family = "py", NEW A, NEW t \in Seq(Fine("py"))
  PROVE  <<t, Py!RenewDocs(t, Stub, A)>> \in PyLike(A)
<1> DEFINE F == Fine("py")
           n == Len(t)
           Old(m) == Py!DocOf(Py!MethodBlock(t, m))
           New(m) == Py!DocOf(Py!MethodBlock(Stub, m))
           stale == {m \in A : /\ Py!Where(Py!MethodBlock(t, m), LAMBDA l : l.k = "olddoc") # {}
                               /\ Old(m) # <<>> /\ New(m) # <<>>}
           Place(m) == FirstOf(Py!Where(t, LAMBDA l : l = Old(m)[1]), 1, t)
           At(i) == CHOOSE m \in stale : Place(m) = i
           u == [i \in 1 .. n |-> IF \E m \in stale : Place(m) = i THEN New(At(i))[1] ELSE t[i]]
<1>1. n \in Nat /\ DOMAIN t = 1 .. n /\ \A i \in 1 .. n : t[i] \in F
  OBVIOUS
<1>2. Py!RenewDocs(t, Stub, A) = u
  BY <1>1, PyLines DEF Py!RenewDocs
<1>3. ASSUME NEW m, Old(m) # <<>>
      PROVE  Old(m)[1] \in PyDocLine
  <2>1. Py!MethodBlock(t, m) \in Seq(F)
    BY PyBlockType
  <2>. QED BY <1>3, <2>1, PyDocOf
<1>4. ASSUME NEW m, New(m) # <<>>
      PROVE  New(m)[1] \in PyDocLine
  <2>1. Stub \in Seq(F)
    BY PyStub
  <2>2. Py!MethodBlock(Stub, m) \in Seq(F)
    BY <2>1, PyBlockType
  <2>. QED BY <1>4, <2>2, PyDocOf
<1>. HIDE DEF Old, New
<1>5. ASSUME NEW i \in 1 .. n
      PROVE  u[i] \in F /\ (u[i] = t[i] \/ (t[i] \in PyDocLine /\ u[i] \in PyDocLine))
  <2>1. CASE \E m \in stale : Place(m) = i
    <3>1. At(i) \in stale /\ Place(At(i)) = i
      <4>. HIDE DEF stale, Place
      <4>. QED BY <2>1
    <3>. HIDE DEF At
    <3>2. u[i] = New(At(i))[1] /\ New(At(i)) # <<>> /\ Old(At(i)) # <<>>
      BY <2>1, <3>1
    <3>3. u[i] \in PyDocLine
      BY <1>4, <3>2
    <3> DEFINE W == Py!Where(t, LAMBDA l : l = Old(At(i))[1])
    <3>4. W = {j \in 1 .. n : t[j] = Old(At(i))[1]}
      BY <1>1 DEF Py!Where
    <3>5. i \in W
      <4>1. FirstOf(W, 1, t) = i
        BY <3>1
      <4>2. W \in SUBSET (1 .. n)
        BY <3>4
      <4>. HIDE DEF W
      <4>3. FirstOf(W, 1, t) \in W \/ FirstOf(W, 1, t) = n + 1
        BY <1>1, <4>2, FirstOfIs
      <4>. QED BY <1>1, <4>1, <4>3
    <3>6. t[i] \in PyDocLine
      BY <1>3, <3>2, <3>4, <3>5
    <3>. QED BY <3>3, <3>6, PyDocIsQuiet
  <2>2. CASE ~\E m \in stale : Place(m) = i
    BY <1>1, <2>2
  <2>. QED BY <2>1, <2>2
<1>6. Len(u) = n /\ u \in Seq(F)
  <2>1. DOMAIN u = 1 .. n
    OBVIOUS
  <2>. HIDE DEF u
  <2>2. u \in [1 .. n -> F] \/ u \notin [1 .. n -> F]
    OBVIOUS
  <2>3. u = [i \in 1 .. n |-> u[i]]
    BY <2>1 DEF u
  <2>4. u \in [1 .. n -> F]
    BY <1>5, <2>3
  <2>. QED BY <1>1, <2>4, MakeSeq
<1> DEFINE R == PyLike(A)
<1>7. <<<<>>, <<>>>> \in R
  <2>1. <<>> \in Seq(F)
    OBVIOUS
  <2>. QED BY <2>1, PyLikeSelf
<1>. HIDE DEF u
<1>8. ASSUME NEW i \in 1 .. Len(t), NEW s \in Seq(F), NEW r \in Seq(F), <<s, r>> \in R
      PROVE  <<Append(s, t[i]), Append(r, u[i])>> \in R
  <2>1. t[i] \in F /\ u[i] \in F
    BY <1>1, <1>5
  <2>2. CASE u[i] = t[i]
    BY <1>8, <2>1, <2>2, PyLikeSame
  <2>3. CASE t[i] \in PyDocLine /\ u[i] \in PyDocLine
    BY <1>8, <2>3, PyLikeQuietPair, PyDocIsQuiet
  <2>. QED BY <1>5, <2>2, <2>3
<1>. HIDE DEF R, F
<1>9. <<t, u>> \in R
  BY <1>6, <1>7, <1>8, PointSim DEF F
<1>. QED BY <1>2, <1>9 DEF R

LEMMA PyLikeQuietLines ==
  ASSUME NEW A, NEW s, NEW r, <<s, r>> \in PyLike(A), NEW u \in Seq(PyDocLine)
  PROVE  <<s, r \o u>> \in PyLike(A)
<1> DEFINE T == {l \in Fine("py") : PyHarmless(l, A)}
<1>1. PyDocLine \subseteq T
  BY PyDocIsQuiet DEF PyHarmless
<1>2. \A i \in 1 .. Len(u) : u[i] \in PyDocLine
  BY ElementOfSeq
<1>. HIDE DEF T
<1>3. u \in Seq(T)
  BY <1>1, <1>2, Sieved
<1>. QED BY <1>3, PyLikeLines DEF T

LEMMA PyInjected ==
  ASSUME family = "py", NEW A, NEW t \in Seq(Fine("py"))
  PROVE  <<t, Py!InjectDocs(t, Stub, A)>> \in PyLike(A)
<1> DEFINE F == Fine("py")
           n == Len(t)
           bare == {i \in Py!Where(t, LAMBDA l : Py!IsDef(l) /\ l.n \in A) :
                      ~Py!HasDoc(Py!MethodBlock(t, t[i].n))}
           colons == Py!Where(t, Py!EndsWithColon)
           Place(i) == FirstOf(colons, i, t)
           Copies(m, j) == Cardinality({i \in bare : t[i].n = m /\ Place(i) = j})
           N == Len(StubOrder)
           Some(m, j) == [c \in 1 .. Copies(m, j) |-> Py!DocOf(Py!MethodBlock(Stub, m))]
           All(j) == [m \in 1 .. N |-> FlattenSeq(Some(m, j))]
           At(j) == FlattenSeq(All(j))
           Piece(j) == (IF j <= n THEN <<t[j]>> ELSE <<>>) \o At(j)
           ss == [j \in 1 .. n + 1 |-> Piece(j)]
<1>1. n \in Nat /\ DOMAIN t = 1 .. n /\ \A i \in 1 .. n : t[i] \in F
  OBVIOUS
<1>2. Py!InjectDocs(t, Stub, A) = FlattenSeq(ss)
  BY PyLines DEF Py!InjectDocs
<1>3. ASSUME NEW m, NEW j PROVE Copies(m, j) \in Nat
  <2> DEFINE C == {i \in bare : t[i].n = m /\ Place(i) = j}
  <2>1. C \subseteq 1 .. n
    BY <1>1 DEF Py!Where
  <2>. HIDE DEF C
  <2>2. Cardinality(C) \in Nat
    BY <1>1, <2>1, Counting
  <2>. QED BY <2>2 DEF C
<1>. HIDE DEF Copies
<1>4. ASSUME NEW j PROVE At(j) \in Seq(PyDocLine)
  <2>1. ASSUME NEW m PROVE FlattenSeq(Some(m, j)) \in Seq(PyDocLine)
    <3> DEFINE x == Py!DocOf(Py!MethodBlock(Stub, m))
               y == [c \in 1 .. Copies(m, j) |-> x]
    <3>1. x \in Seq(PyDocLine)
      BY PyStub, PyBlockType, PyDocOf
    <3>. HIDE DEF x
    <3>2. y \in Seq(Seq(PyDocLine))
      <4>1. y \in [1 .. Copies(m, j) -> Seq(PyDocLine)]
        BY <3>1
      <4>. HIDE DEF y
      <4>. QED BY <1>3, <4>1, MakeSeq
    <3>. HIDE DEF y
    <3>3. FlattenSeq(y) \in Seq(PyDocLine)
      BY <3>2, FlatType
    <3>. QED BY <3>3 DEF x, y
  <2>2. N \in Nat
    BY MethodsAreNumbers
  <2>. HIDE DEF Some, N
  <2> DEFINE z == All(j)
  <2>3. z \in Seq(Seq(PyDocLine))
    <3>1. z \in [1 .. N -> Seq(PyDocLine)]
      BY <2>1
    <3>. HIDE DEF z
    <3>. QED BY <2>2, <3>1, MakeSeq
  <2>. HIDE DEF z
  <2>4. FlattenSeq(z) \in Seq(PyDocLine)
    BY <2>3, FlatType
  <2>. QED BY <2>4 DEF z
<1>. HIDE DEF At
<1>5. PyDocLine \subseteq F
  BY PyDocIsQuiet
<1>6. ASSUME NEW j PROVE At(j) \in Seq(F)
  <2>1. \A i \in 1 .. Len(At(j)) : At(j)[i] \in F
    BY <1>4, <1>5, ElementOfSeq
  <2>. HIDE DEF F
  <2>. QED BY <1>4, <2>1, Sieved
<1>7. ss \in Seq(Seq(F)) /\ Len(ss) = n + 1
  <2>1. ASSUME NEW j \in 1 .. n + 1 PROVE Piece(j) \in Seq(F)
    <3>1. (IF j <= n THEN <<t[j]>> ELSE <<>>) \in Seq(F)
      BY <1>1
    <3>. HIDE DEF F
    <3>. QED BY <1>6, <3>1, ConcatProperties
  <2>2. n + 1 \in Nat
    BY <1>1
  <2>. HIDE DEF Piece, F, n
  <2>3. ss \in [1 .. n + 1 -> Seq(F)]
    BY <2>1
  <2>. QED BY <2>2, <2>3, MakeSeq
<1> DEFINE R == PyLike(A)
           Q == {q \in (0 .. n + 1) \X Seq(F) :
                   <<SubSeq(t, 1, IF q[1] <= n THEN q[1] ELSE n), q[2]>> \in R}
<1>8. <<0, <<>>>> \in Q
  <2>1. <<>> \in Seq(F) /\ SubSeq(t, 1, 0) = <<>>
    BY Growing
  <2>2. <<<<>>, <<>>>> \in R
    BY <2>1, PyLikeSelf
  <2>3. (IF 0 <= n THEN 0 ELSE n) = 0 /\ 0 \in 0 .. n + 1
    BY <1>1
  <2>. HIDE DEF R, n, F
  <2>. QED BY <2>1, <2>2, <2>3
<1>9. ASSUME NEW i \in 0 .. n, NEW s \in Seq(F), NEW c \in Seq(F), <<i, s>> \in Q, c = ss[i + 1]
      PROVE  <<i + 1, s \o c>> \in Q
  <2>0. i + 1 \in 0 .. n + 1 /\ i + 1 \in 1 .. n + 1
    BY <1>1
  <2>1. c = Piece(i + 1)
    BY <1>9, <2>0
  <2>2. <<SubSeq(t, 1, i), s>> \in R
    <3>1. (IF i <= n THEN i ELSE n) = i
      OBVIOUS
    <3>. HIDE DEF R, F, n
    <3>. QED BY <1>9, <3>1
  <2>3. s \o c \in Seq(F)
    BY ConcatProperties
  <2>4. CASE i + 1 <= n
    <3>1. PICK x \in Seq(F), x2 \in Seq(F) :
            x = SubSeq(t, 1, i) /\ x2 = SubSeq(t, 1, i + 1) /\ x2 = Append(x, t[i + 1])
      <4>1. i \in 0 .. Len(t) - 1
        BY <1>1, <2>4
      <4>. QED BY <4>1, OneMore
    <3>2. PICK l \in F : l = t[i + 1]
      <4>1. i + 1 \in 1 .. n
        BY <1>1, <2>4
      <4>. QED BY <1>1, <4>1
    <3>3. <<x2, Append(s, l)>> \in R
      BY <2>2, <3>1, <3>2, PyLikeSame
    <3>4. <<x2, Append(s, l) \o At(i + 1)>> \in R
      BY <1>4, <3>3, PyLikeQuietLines
    <3>5. s \o c = Append(s, l) \o At(i + 1)
      <4>1. c = <<l>> \o At(i + 1)
        BY <2>1, <2>4, <3>2
      <4>2. At(i + 1) \in Seq(F)
        BY <1>6
      <4> DEFINE z == At(i + 1)
      <4>3. z \in Seq(F)
        BY <4>2
      <4>. HIDE DEF z, F
      <4>4. s \o (<<l>> \o z) = Append(s, l) \o z
        BY <4>3, AttachLineSeq, SMTT(30)
      <4>. QED BY <4>1, <4>4 DEF z
    <3>6. <<SubSeq(t, 1, i + 1), s \o c>> \in R
      BY <3>1, <3>4, <3>5
    <3>7. (IF i + 1 <= n THEN i + 1 ELSE n) = i + 1
      BY <2>4
    <3>. HIDE DEF R, F, n
    <3>. QED BY <2>0, <2>3, <3>6, <3>7
  <2>5. CASE ~(i + 1 <= n)
    <3>1. i = n
      <4>. HIDE DEF n
      <4>. QED BY <1>1, <2>5
    <3>2. <<SubSeq(t, 1, n), s \o At(i + 1)>> \in R
      BY <1>4, <2>2, <3>1, PyLikeQuietLines
    <3>3. c = At(i + 1)
      <4>1. At(i + 1) \in Seq(F)
        BY <1>6
      <4>2. <<>> \o At(i + 1) = At(i + 1)
        BY <4>1, AttachNone
      <4>. QED BY <2>1, <2>5, <4>2
    <3>4. (IF i + 1 <= n THEN i + 1 ELSE n) = n
      BY <2>5
    <3>. HIDE DEF R, F, n
    <3>. QED BY <2>0, <2>3, <3>2, <3>3, <3>4
  <2>. QED BY <2>4, <2>5
<1>10. <<n + 1, FlattenSeq(ss)>> \in Q
  <2>. HIDE DEF Q, F, ss
  <2>1. \A i \in 0 .. Len(ss) - 1 : i \in 0 .. n
    BY <1>1, <1>7
  <2>. HIDE DEF n
  <2>2. <<Len(ss), FlattenSeq(ss)>> \in Q
    BY <1>7, <1>8, <1>9, <2>1, FlatInduct
  <2>. QED BY <1>7, <2>2
<1>11. <<SubSeq(t, 1, n), FlattenSeq(ss)>> \in R
  <2>1. (IF n + 1 <= n THEN n + 1 ELSE n) = n
    <3>. HIDE DEF n
    <3>. QED BY <1>1
  <2>. HIDE DEF R, F, n, ss
  <2>. QED BY <1>10, <2>1
<1>. HIDE DEF ss
<1>. QED BY <1>2, <1>11, Growing

(* A merge shows at most the methods that it may add.                      *)
LEMMA PyMerge ==
  ASSUME family = "py", NEW A \in SUBSET Method, NEW t \in Seq(Fine("py")), ~Py!MergeFails(t, A)
  PROVE  <<t, Py!Merge(t, Stub, A)>> \in PyLike(A)
<1> DEFINE u == IF Py!MissingFrom(t, A) = {} THEN t
                ELSE Py!InsertIntoClass(t, Py!Blocks(Py!MissingFrom(t, A), LAMBDA n : Py!MethodBlock(Stub, n)))
           w == Py!RenewDocs(u, Stub, A)
<1>1. Py!Merge(t, Stub, A) = Py!InjectDocs(w, Stub, A)
  BY DEF Py!Merge
<1>2. <<t, u>> \in PyLike(A)
  BY PyGrown
<1>. HIDE DEF u
<1>3. <<u, w>> \in PyLike(A)
  BY <1>2, PyLikeIs, PyRenewed
<1>. HIDE DEF w
<1>4. <<w, Py!InjectDocs(w, Stub, A)>> \in PyLike(A)
  BY <1>3, PyLikeIs, PyInjected
<1>5. <<t, w>> \in PyLike(A)
  BY <1>2, <1>3, PyLikeTwice
<1>. QED BY <1>1, <1>4, <1>5, PyLikeTwice

-----------------------------------------------------------------------------
(* Python: the user's edits                                                *)

LEMMA PyLikeQuietLeft ==
  ASSUME NEW A, NEW s, NEW r, <<s, r>> \in PyLike(A), NEW l \in Fine("py"), PyQuiet(l)
  PROVE  <<Append(s, l), r>> \in PyLike(A)
<1>1. s \in Seq(Fine("py")) /\ Append(s, l) \in Seq(Fine("py"))
  BY PyLikeIs
<1>2. /\ PyOdd(Append(s, l)) <=> PyOdd(s)
      /\ PyOpen(Append(s, l)) <=> PyOpen(s)
      /\ PyNames(Append(s, l)) = PyNames(s)
  BY <1>1, PyQuietLine
<1>. QED BY <1>1, <1>2, PyLikeIs

(* A body takes the place of each stub's line.                             *)
LEMMA PyAnswers ==
  ASSUME NEW t \in Seq(Fine("py")), NEW answer,
         \A m \in Method \cup {0} :
           answer[m] \in Seq({l \in Fine("py") : l.in >= 2 /\ l.k # "quote"})
  PROVE  <<t, FlattenSeq([i \in 1 .. Len(t) |->
                            IF t[i].k = "stub" THEN answer[t[i].n] ELSE <<t[i]>>])>> \in PyLike({})
<1> DEFINE F == Fine("py")
           B == {l \in F : l.in >= 2 /\ l.k # "quote"}
           T == {l \in F : PyHarmless(l, {})}
           M(i) == IF t[i].k = "stub" THEN answer[t[i].n] ELSE <<t[i]>>
           ss == [i \in 1 .. Len(t) |-> M(i)]
           R == PyLike({})
<1>1. Len(t) \in Nat /\ \A i \in 1 .. Len(t) : t[i] \in F
  OBVIOUS
<1>2. B \subseteq T
  <2>1. ASSUME NEW l \in B PROVE PyQuiet(l)
    <3>1. l.in \in Nat /\ l.in >= 2 /\ l.k # "quote"
      BY DEF Fine, LinesOf
    <3>. QED BY <3>1 DEF PyQuiet
  <2>. QED BY <2>1 DEF PyHarmless
<1>3. ASSUME NEW m \in Method \cup {0} PROVE answer[m] \in Seq(T)
  <2>1. answer[m] \in Seq(B)
    OBVIOUS
  <2>. HIDE DEF B, T
  <2>2. \A i \in 1 .. Len(answer[m]) : answer[m][i] \in T
    BY <1>2, <2>1, ElementOfSeq
  <2>. QED BY <2>1, <2>2, Sieved
<1>4. T \subseteq F
  OBVIOUS
<1>5. ASSUME NEW m \in Method \cup {0} PROVE answer[m] \in Seq(F)
  <2>. HIDE DEF T, F
  <2>1. answer[m] \in Seq(T)
    BY <1>3
  <2>2. \A i \in 1 .. Len(answer[m]) : answer[m][i] \in F
    BY <1>4, <2>1, ElementOfSeq
  <2>. QED BY <2>1, <2>2, Sieved
<1>6. ASSUME NEW i \in 1 .. Len(t)
      PROVE  /\ M(i) \in Seq(F)
             /\ \A s, r \in Seq(F) : <<s, r>> \in R => <<Append(s, t[i]), r \o M(i)>> \in R
  <2>1. t[i] \in F
    BY <1>1
  <2>2. CASE t[i].k = "stub"
    <3>1. t[i].n \in Method \cup {0} /\ t[i].in > 0
      BY <2>1, <2>2 DEF Fine
    <3>2. M(i) = answer[t[i].n]
      BY <2>2
    <3>3. PyQuiet(t[i])
      BY <2>2, <3>1 DEF PyQuiet, Py!IsDef
    <3>4. M(i) \in Seq(F) /\ M(i) \in Seq(T)
      BY <1>3, <1>5, <3>1, <3>2
    <3>. HIDE DEF M
    <3>5. ASSUME NEW s \in Seq(F), NEW r \in Seq(F), <<s, r>> \in R
          PROVE  <<Append(s, t[i]), r \o M(i)>> \in R
      <4>1. <<Append(s, t[i]), r>> \in R
        BY <2>1, <3>3, <3>5, PyLikeQuietLeft
      <4>. QED BY <3>4, <4>1, PyLikeLines
    <3>. QED BY <3>4, <3>5
  <2>3. CASE t[i].k # "stub"
    <3>1. M(i) = <<t[i]>>
      BY <2>3
    <3>. HIDE DEF M
    <3>2. M(i) \in Seq(F)
      BY <2>1, <3>1
    <3>3. ASSUME NEW s \in Seq(F), NEW r \in Seq(F), <<s, r>> \in R
          PROVE  <<Append(s, t[i]), r \o M(i)>> \in R
      <4>1. <<Append(s, t[i]), Append(r, t[i])>> \in R
        BY <2>1, <3>3, PyLikeSame
      <4>2. r \o <<t[i]>> = Append(r, t[i])
        BY <2>1, AttachLine
      <4>. QED BY <3>1, <4>1, <4>2
    <3>. QED BY <3>2, <3>3
  <2>. QED BY <2>2, <2>3
<1>. HIDE DEF M
<1>7. ss \in Seq(Seq(F)) /\ Len(ss) = Len(t) /\ \A i \in 1 .. Len(t) : ss[i] = M(i)
  <2>1. \A i \in 1 .. Len(t) : ss[i] = M(i)
    OBVIOUS
  <2>2. ss \in [1 .. Len(t) -> Seq(F)]
    BY <1>6
  <2>. HIDE DEF ss, F
  <2>. QED BY <1>1, <2>1, <2>2, MakeSeq
<1>. HIDE DEF ss
<1>8. <<<<>>, <<>>>> \in R
  <2>1. <<>> \in Seq(F)
    OBVIOUS
  <2>. QED BY <2>1, PyLikeSelf
<1>9. ASSUME NEW i \in 1 .. Len(t), NEW s \in Seq(F), NEW r \in Seq(F), NEW c \in Seq(F),
             <<s, r>> \in R, c = ss[i]
      PROVE  <<Append(s, t[i]), r \o c>> \in R
  BY <1>6, <1>7, <1>9
<1>10. t \in Seq(F)
  OBVIOUS
<1>. HIDE DEF R, F
<1>11. <<t, FlattenSeq(ss)>> \in R
  BY <1>7, <1>8, <1>9, <1>10, FlatSim
<1>. QED BY <1>11 DEF R, ss, M

LEMMA PyDoc ==
  ASSUME NEW t \in Seq(Fine("py")), NEW i \in 1 .. Len(t), t[i].k = "doc",
         NEW k \in {"olddoc", "mydoc"}
  PROVE  /\ <<t, [t EXCEPT ![i].k = k]>> \in PyLike({})
         /\ <<t, Before(t, i) \o After(t, i + 1)>> \in PyLike({})
<1> DEFINE F == Fine("py")
           b == Before(t, i)
           l == t[i]
           c == After(t, i + 1)
           m == [l EXCEPT !.k = k]
           u == [t EXCEPT ![i].k = k]
           R == PyLike({})
<1>1. b \in Seq(F) /\ l \in F /\ c \in Seq(F) /\ t = Append(b, l) \o c
  BY CutLine
<1>2. l.k = "doc" /\ PyQuiet(l)
  BY DEF PyQuiet, Py!Docs, Py!IsDef
<1>3. m \in F /\ PyQuiet(m)
  <2>1. l \in LinesOf(Kinds("py")) /\ l.k = "doc"
    BY <1>1 DEF Fine
  <2>2. k \in Kinds("py")
    BY DEF Kinds, Braces
  <2>3. m \in LinesOf(Kinds("py")) /\ m.k = k
    BY <2>1, <2>2 DEF LinesOf
  <2>. HIDE DEF m
  <2>. QED BY <2>3 DEF PyQuiet, Py!Docs, Py!IsDef, Fine
<1>4. <<Append(b, l), b>> \in R
  <2>1. <<b, b>> \in R
    BY <1>1, PyLikeSelf
  <2>. QED BY <1>1, <1>2, <2>1, PyLikeQuietLeft
<1>5. \A s, r \in Seq(F), x \in F : <<s, r>> \in R => <<Append(s, x), Append(r, x)>> \in R
  BY PyLikeSame
<1>6. <<Append(b, l) \o c, b \o c>> \in R
  <2>1. Append(b, l) \in Seq(F)
    BY <1>1
  <2>. HIDE DEF R, F, b, c, l
  <2>. QED BY <1>1, <1>4, <1>5, <2>1, SameTail
<1>7. <<t, u>> \in R
  <2>1. \A j \in 1 .. Len(t) : u[j] = IF j = i THEN m ELSE t[j]
    OBVIOUS
  <2>2. Len(u) = Len(t) /\ DOMAIN u = 1 .. Len(t) /\ Len(t) \in Nat /\ u = [j \in 1 .. Len(t) |-> u[j]]
    OBVIOUS
  <2>. HIDE DEF u, m
  <2>3. u \in Seq(F)
    <3>1. \A j \in 1 .. Len(t) : u[j] \in F
      BY <1>3, <2>1
    <3>. QED BY <2>2, <3>1
  <2>4. ASSUME NEW j \in 1 .. Len(t), NEW s \in Seq(F), NEW r \in Seq(F), <<s, r>> \in R
        PROVE  <<Append(s, t[j]), Append(r, u[j])>> \in R
    <3>1. CASE j = i
      BY <1>1, <1>2, <1>3, <2>1, <2>4, <3>1, PyLikeQuietPair
    <3>2. CASE j # i
      <4>1. t[j] \in F
        OBVIOUS
      <4>. QED BY <2>1, <2>4, <3>2, <4>1, PyLikeSame
    <3>. QED BY <3>1, <3>2
  <2>5. <<<<>>, <<>>>> \in R /\ t \in Seq(F)
    <3>1. <<>> \in Seq(F)
      OBVIOUS
    <3>. QED BY <3>1, PyLikeSelf
  <2>. HIDE DEF R, F
  <2>. QED BY <2>2, <2>3, <2>4, <2>5, PointSim
<1>. QED BY <1>1, <1>6, <1>7

(* Without its last line, a file shows no more.                            *)
LEMMA PyPrefix ==
  ASSUME NEW t \in Seq(Fine("py")), t # <<>>
  PROVE  /\ Before(t, Len(t)) \in Seq(Fine("py"))
         /\ PyNames(Before(t, Len(t))) \subseteq PyNames(t)
<1> DEFINE F == Fine("py")
           b == Before(t, Len(t))
           l == t[Len(t)]
           c == After(t, Len(t) + 1)
<1>1. Len(t) \in 1 .. Len(t)
  OBVIOUS
<1>2. b \in Seq(F) /\ l \in F /\ t = Append(b, l) \o c
  BY <1>1, CutLine
<1>3. c = <<>>
  BY <1>1 DEF After
<1>4. t = Append(b, l)
  BY <1>2, <1>3
<1>. HIDE DEF b, l, F
<1>5. PyNames(b) \subseteq PyNames(Append(b, l))
  BY <1>2, PyNextLine DEF F
<1>. QED BY <1>2, <1>4, <1>5 DEF b, F

LEMMA PyNone ==
  <<>> \in Seq(Fine("py")) /\ PyNames(<<>>) = {}
<1>1. Len(<<>>) = 0 /\ DOMAIN <<>> = {} /\ <<>> \in Seq(Fine("py"))
  OBVIOUS
<1>2. Py!Statements(<<>>) = {}
  BY <1>1 DEF Py!Statements, Py!OddIn, Py!Quotes, Py!Where
<1>. QED BY <1>1, <1>2 DEF PyNames, Py!Visible

(* A text in comments that names no method outside A                       *)
CoNames(A) == {l \in LinesOf(Kinds(family)) : l.n \in Method => l.n \in A}

LEMMA CoNamed ==
  ASSUME NEW A, NEW t
  PROVE  t \in Seq(CoNames(A)) <=> t \in Texts(family) /\ Co!Methods(t) \subseteq A
<1>1. ASSUME t \in Seq(CoNames(A))
      PROVE  t \in Texts(family) /\ Co!Methods(t) \subseteq A
  <2>1. DOMAIN t = 1 .. Len(t) /\ \A i \in 1 .. Len(t) : t[i] \in CoNames(A)
    BY <1>1
  <2>2. \A i \in 1 .. Len(t) : t[i] \in LinesOf(Kinds(family)) /\ (t[i].n \in Method => t[i].n \in A)
    BY <2>1 DEF CoNames
  <2>. HIDE DEF CoNames
  <2>3. t \in Texts(family)
    BY <1>1, <2>2, Sieved DEF Texts
  <2>. QED BY <2>1, <2>2, <2>3, CommentLines DEF Co!Methods
<1>2. ASSUME t \in Texts(family), Co!Methods(t) \subseteq A
      PROVE  t \in Seq(CoNames(A))
  <2>1. DOMAIN t = 1 .. Len(t) /\ \A i \in 1 .. Len(t) : t[i] \in LinesOf(Kinds(family))
    BY <1>2 DEF Texts
  <2>2. \A i \in 1 .. Len(t) : t[i] \in CoNames(A)
    BY <1>2, <2>1, CommentLines DEF Co!Methods, CoNames
  <2>. HIDE DEF CoNames
  <2>. QED BY <1>2, <2>2, Sieved DEF Texts
<1>. QED BY <1>1, <1>2

LEMMA CoSlice ==
  ASSUME family \in Comments, NEW A \in SUBSET Method
  PROVE  Co!Slice(Stub, A) \in Seq(CoNames(A))
<1> DEFINE T == CoNames(A)
           n == Len(Stub)
           M(i) == IF i \in Co!Listed(Stub) /\ Stub[i].n \notin A
                   THEN IF Stub[i].k = "last" THEN <<Line(0, "close", 0)>> ELSE <<>>
                   ELSE <<Stub[i]>>
           ss == [i \in 1 .. n |-> M(i)]
<1>1. /\ n \in Nat /\ DOMAIN Stub = 1 .. n
      /\ \A i \in 1 .. n : Stub[i] \in LinesOf(Kinds(family))
  BY CommentStub DEF Texts
<1>2. Co!Slice(Stub, A) = FlattenSeq(ss)
  BY <1>1, CommentLines DEF Co!Slice
<1>3. ASSUME NEW i \in 1 .. n PROVE M(i) \in Seq(T)
  <2>1. CASE i \in Co!Listed(Stub) /\ Stub[i].n \notin A
    <3>1. CASE Stub[i].k = "last"
      <4>1. family # "line"
        <5>1. Kinds("line") = {"com", "code"}
          BY DEF Kinds, Braces
        <5>. QED BY <1>1, <3>1, <5>1 DEF LinesOf
      <4>2. "close" \in Kinds(family)
        BY <4>1 DEF Kinds, Comments, Braces
      <4>3. Line(0, "close", 0) \in T
        BY <4>2, LineIs, MethodsAreNumbers DEF CoNames
      <4>. HIDE DEF T
      <4>. QED BY <2>1, <3>1, <4>3
    <3>2. CASE Stub[i].k # "last"
      <4>. HIDE DEF T
      <4>. QED BY <2>1, <3>2
    <3>. QED BY <3>1, <3>2
  <2>2. CASE ~(i \in Co!Listed(Stub) /\ Stub[i].n \notin A)
    <3>1. Stub[i].n \in Method => Stub[i].n \in A
      BY <2>2, CommentStubLists
    <3>2. Stub[i] \in T
      BY <1>1, <3>1 DEF CoNames
    <3>. HIDE DEF T
    <3>. QED BY <2>2, <3>2
  <2>. QED BY <2>1, <2>2
<1>. HIDE DEF M, T, n
<1>4. ss \in Seq(Seq(T))
  <2>1. ss \in [1 .. n -> Seq(T)]
    BY <1>3
  <2>. HIDE DEF ss
  <2>. QED BY <1>1, <2>1, MakeSeq
<1>. HIDE DEF ss
<1>. QED BY <1>2, <1>4, FlatType DEF T

LEMMA CoGrown ==
  ASSUME family \in Comments, NEW A \in SUBSET Method, NEW t \in Texts(family)
  PROVE  /\ Co!Extras(t, Stub, A)
              = Picked(Stub, {i \in Co!Listed(Stub) : Stub[i].n \in A /\ ~Co!Present(t, Stub[i].n)})
         /\ \E i \in 1 .. Len(t) + 1 :
              Co!Merge(t, Stub, A) = Before(t, i) \o Co!Extras(t, Stub, A) \o After(t, i)
<1> DEFINE extras == Co!Extras(t, Stub, A)
           last == Co!LeadingEnd(t)
           at == IF last > 0 /\ t[last].k \in {"last", "close"} THEN last ELSE last + 1
<1>1. Co!Merge(t, Stub, A) = IF extras = <<>> THEN t ELSE Before(t, at) \o extras \o After(t, at)
  BY CommentLines DEF Co!Merge, Co!InsertLines
<1>2. /\ Len(t) \in Nat /\ DOMAIN t = 1 .. Len(t) /\ 1 \in 1 .. Len(t) + 1
      /\ t \in Seq(LinesOf(Kinds(family)))
  BY DEF Texts
<1>3. last \in 0 .. Len(t)
  <2> DEFINE leading == {i \in 1 .. Len(t) :
                           \A j \in 1 .. i : t[j].k \notin {"code", "in"} \/ j \in Co!InBlock(t)}
  <2>1. last = IF leading = {} THEN 0 ELSE Max(leading)
    BY <1>2 DEF Co!LeadingEnd, Co!Max, Max
  <2>2. leading \in SUBSET (0 .. Len(t))
    BY <1>2
  <2>. HIDE DEF leading, last
  <2>3. leading # {} => Max(leading) \in leading
    BY <1>2, <2>2, MaxOf
  <2>. QED BY <1>2, <2>1, <2>2, <2>3
<1>4. Co!Extras(t, Stub, A)
        = Picked(Stub, {i \in Co!Listed(Stub) : Stub[i].n \in A /\ ~Co!Present(t, Stub[i].n)})
  BY CommentLines DEF Co!Extras
<1>. HIDE DEF last, extras
<1>5. at \in 1 .. Len(t) + 1
  BY <1>2, <1>3
<1>. HIDE DEF at
<1>6. CASE extras = <<>>
  <2> DEFINE T == LinesOf(Kinds(family))
  <2>. HIDE DEF T
  <2>1. Before(t, 1) \in Seq(T) /\ Before(t, 1) \o After(t, 1) = t
    BY <1>2, CutType, CutWhole DEF T
  <2>2. Before(t, 1) \o <<>> = Before(t, 1)
    BY <2>1, AttachNone
  <2>. QED BY <1>1, <1>2, <1>4, <1>6, <2>1, <2>2 DEF extras
<1>7. CASE extras # <<>>
  BY <1>1, <1>4, <1>5, <1>7 DEF extras
<1>. QED BY <1>6, <1>7

LEMMA CoMerge ==
  ASSUME family \in Comments, NEW A \in SUBSET Method, NEW t \in Texts(family)
  PROVE  Co!Merge(t, Stub, A) \in Seq(CoNames(Co!Methods(t) \cup A))
<1> DEFINE T == CoNames(Co!Methods(t) \cup A)
           K == {i \in Co!Listed(Stub) : Stub[i].n \in A /\ ~Co!Present(t, Stub[i].n)}
           extras == Co!Extras(t, Stub, A)
<1>1. t \in Seq(T)
  BY CoNamed
<1>2. extras \in Seq(T)
  <2>1. Stub \in Seq(LinesOf(Kinds(family)))
    BY CommentStub DEF Texts
  <2>2. ASSUME NEW i \in 1 .. Len(Stub), i \in K PROVE Stub[i] \in T
    <3>1. Stub[i] \in LinesOf(Kinds(family))
      BY <2>1
    <3>. QED BY <2>2, <3>1 DEF CoNames
  <2>3. extras = Picked(Stub, K)
    BY CoGrown
  <2>. HIDE DEF K, T, extras
  <2>. QED BY <2>1, <2>2, <2>3, PickedType
<1>3. PICK i \in 1 .. Len(t) + 1 : Co!Merge(t, Stub, A) = Before(t, i) \o extras \o After(t, i)
  BY CoGrown
<1>. HIDE DEF extras, T
<1>4. Before(t, i) \in Seq(T) /\ After(t, i) \in Seq(T)
  BY <1>1, CutType
<1>5. Before(t, i) \o extras \o After(t, i) \in Seq(T)
  BY <1>2, <1>4, ConcatProperties
<1>. QED BY <1>3, <1>5 DEF T

(* All lines of the file are still there, and so is each method.           *)
LEMMA CoMergeHas ==
  ASSUME family \in Comments, NEW A \in SUBSET Method, NEW t \in Texts(family)
  PROVE  /\ \A j \in 1 .. Len(t) : \E k \in DOMAIN Co!Merge(t, Stub, A) : Co!Merge(t, Stub, A)[k] = t[j]
         /\ \A n \in A : Co!Present(Co!Merge(t, Stub, A), n)
<1> DEFINE T == LinesOf(Kinds(family))
           extras == Co!Extras(t, Stub, A)
           r == Co!Merge(t, Stub, A)
           K == {i \in Co!Listed(Stub) : Stub[i].n \in A /\ ~Co!Present(t, Stub[i].n)}
<1>1. t \in Seq(T) /\ Stub \in Seq(T)
  BY CommentStub DEF Texts
<1>2. extras = Picked(Stub, K)
  BY CoGrown
<1>3. PICK i \in 1 .. Len(t) + 1 : r = Before(t, i) \o extras \o After(t, i)
  BY CoGrown
<1>. HIDE DEF T, K, extras, r
<1>4. extras \in Seq(T)
  <2>1. \A j \in 1 .. Len(Stub) : j \in K => Stub[j] \in T
    BY <1>1
  <2>. QED BY <1>1, <1>2, <2>1, PickedType
<1> DEFINE b == Before(t, i)
           a == After(t, i)
<1>5. /\ b \in Seq(T) /\ Len(b) = i - 1 /\ a \in Seq(T) /\ Len(a) = Len(t) - i + 1
      /\ \A j \in 1 .. i - 1 : b[j] = t[j]
      /\ \A j \in 1 .. Len(t) - i + 1 : a[j] = t[i + j - 1]
  BY <1>1, CutType
<1>. HIDE DEF a, b
<1>6. /\ r \in Seq(T) /\ Len(r) = Len(b) + Len(extras) + Len(a)
      /\ Len(b) \in Nat /\ Len(extras) \in Nat /\ Len(a) \in Nat
      /\ \A j \in 1 .. Len(b) : r[j] = b[j]
      /\ \A j \in 1 .. Len(extras) : r[Len(b) + j] = extras[j]
      /\ \A j \in 1 .. Len(a) : r[Len(b) + Len(extras) + j] = a[j]
  <2>1. r = b \o extras \o a
    BY <1>3 DEF a, b
  <2>2. b \in Seq(T) /\ a \in Seq(T)
    BY <1>5
  <2>3. ASSUME NEW w, w = b \o extras \o a
        PROVE  /\ w \in Seq(T) /\ Len(w) = Len(b) + Len(extras) + Len(a)
               /\ Len(b) \in Nat /\ Len(extras) \in Nat /\ Len(a) \in Nat
               /\ \A j \in 1 .. Len(b) : w[j] = b[j]
               /\ \A j \in 1 .. Len(extras) : w[Len(b) + j] = extras[j]
               /\ \A j \in 1 .. Len(a) : w[Len(b) + Len(extras) + j] = a[j]
    BY <1>4, <2>2, <2>3, CatThree
  <2>. QED BY <2>1, <2>3
<1>7. /\ DOMAIN r = 1 .. Len(r) /\ Len(t) \in Nat /\ DOMAIN t = 1 .. Len(t)
      /\ Len(b) = i - 1 /\ Len(a) = Len(t) - i + 1 /\ i \in Int
  BY <1>1, <1>5, <1>6
<1>8. Len(r) \in Nat /\ Len(r) = Len(t) + Len(extras)
  BY <1>6, <1>7
<1>9. ASSUME NEW j \in 1 .. Len(t)
      PROVE  \E k \in DOMAIN r : r[k] = t[j]
  <2>1. CASE j <= i - 1
    <3>1. j \in 1 .. i - 1 /\ j \in 1 .. Len(b) /\ j \in 1 .. Len(r)
      BY <1>6, <1>7, <1>8, <2>1
    <3>2. b[j] = t[j] /\ r[j] = b[j]
      BY <1>5, <1>6, <3>1
    <3>. QED BY <1>7, <3>1, <3>2
  <2>2. CASE ~(j <= i - 1)
    <3>1. /\ j - i + 1 \in 1 .. Len(a) /\ i + (j - i + 1) - 1 = j
          /\ j - i + 1 \in 1 .. Len(t) - i + 1
          /\ Len(b) + Len(extras) + (j - i + 1) \in 1 .. Len(r)
      BY <1>6, <1>7, <1>8, <2>2
    <3>2. a[j - i + 1] = t[i + (j - i + 1) - 1]
      BY <1>5, <3>1
    <3>3. r[Len(b) + Len(extras) + (j - i + 1)] = a[j - i + 1]
      BY <1>6, <3>1
    <3>. QED BY <1>7, <3>1, <3>2, <3>3
  <2>. QED BY <2>1, <2>2
<1>10. ASSUME NEW n \in A PROVE Co!Present(r, n)
  <2>1. CASE Co!Present(t, n)
    <3>1. PICK j \in 1 .. Len(t) : t[j].n = n
      BY <1>8, <2>1 DEF Co!Present
    <3>. QED BY <1>9, <3>1 DEF Co!Present
  <2>2. CASE ~Co!Present(t, n)
    <3>1. PICK j \in 1 .. Len(Stub) : Stub[j].n = n /\ j \in Co!Listed(Stub)
      BY CommentStubLists
    <3>2. j \in K
      BY <2>2, <3>1 DEF K
    <3>3. PICK k \in 1 .. Len(extras) : extras[k] = Stub[j]
      BY <1>1, <1>2, <3>2, PickedHas
    <3>4. Len(b) + k \in 1 .. Len(r) /\ r[Len(b) + k] = Stub[j]
      BY <1>6, <3>3
    <3>. QED BY <1>7, <3>1, <3>4 DEF Co!Present
  <2>. QED BY <2>1, <2>2
<1>. QED BY <1>9, <1>10 DEF r

(* A file that has them all is left alone.                                 *)
LEMMA CoMergeSettles ==
  ASSUME family \in Comments, NEW A \in SUBSET Method, NEW t \in Texts(family),
         \A n \in A : Co!Present(t, n)
  PROVE  Co!Merge(t, Stub, A) = t
<1> DEFINE K == {i \in Co!Listed(Stub) : Stub[i].n \in A /\ ~Co!Present(t, Stub[i].n)}
<1>1. Co!Extras(t, Stub, A) = Picked(Stub, K)
  BY CoGrown
<1>2. \A i \in 1 .. Len(Stub) : i \notin K
  OBVIOUS
<1>. HIDE DEF K
<1>3. Co!Extras(t, Stub, A) = <<>>
  BY <1>1, <1>2, CommentStub, PickedNone DEF Texts
<1>. QED BY <1>3 DEF Co!Merge

LEMMA CoAnswers ==
  ASSUME family \in Comments, NEW A, NEW t \in Seq(CoNames(A)), NEW answer
  PROVE  Answered(t, answer) \in Seq(CoNames(A))
<1> DEFINE T == CoNames(A)
           n == Len(t)
           M(i) == IF t[i].k = "stub" \/ (family = "js" /\ t[i].k = "sig1" /\ t[i].n \in Method)
                   THEN answer[t[i].n] ELSE <<t[i]>>
           ss == [i \in 1 .. n |-> M(i)]
           S == {m \in Methods(t) : ~Solved(t, m)}
           B(m) == IF m \in S THEN <<Line(0, "code", m)>> ELSE <<>>
           N == Len(StubOrder)
           bs == [m \in 1 .. N |-> B(m)]
<1>1. family # "js" /\ family \notin Braces /\ family # "py" /\ family # "rb"
  BY DEF Comments, Braces
<1>2. n \in Nat /\ DOMAIN t = 1 .. n /\ N \in Nat /\ DOMAIN StubOrder = 1 .. N
  BY MethodsAreNumbers
<1>3. Answered(t, answer) = FlattenSeq(ss) \o FlattenSeq(bs)
  BY <1>2 DEF Answered, Blocks
<1>4. ASSUME NEW i \in 1 .. n PROVE M(i) \in Seq(T)
  <2>1. t[i] \in T
    OBVIOUS
  <2>2. t[i].k # "stub"
    <3>1. t[i].k \in Kinds(family)
      BY <2>1 DEF CoNames, LinesOf
    <3>2. "stub" \notin Kinds(family)
      BY DEF Kinds, Comments, Braces
    <3>. QED BY <3>1, <3>2
  <2>3. M(i) = <<t[i]>>
    BY <1>1, <2>2
  <2>. HIDE DEF T, M
  <2>. QED BY <2>1, <2>3
<1>5. ASSUME NEW m \in 1 .. N PROVE B(m) \in Seq(T)
  <2>1. CASE m \in S
    <3>1. m \in Co!Methods(t)
      BY <1>1, <2>1 DEF Methods
    <3>2. m \in Method /\ m \in A
      BY <3>1, CoNamed, CommentLines DEF Co!Methods
    <3>3. "code" \in Kinds(family)
      BY DEF Kinds, Comments, Braces
    <3>4. Line(0, "code", m) \in T
      BY <3>2, <3>3, LineIs DEF CoNames
    <3>. HIDE DEF T, S
    <3>. QED BY <2>1, <3>4
  <2>2. CASE m \notin S
    <3>. HIDE DEF T, S
    <3>. QED BY <2>2
  <2>. QED BY <2>1, <2>2
<1>. HIDE DEF M, B, T, n, N
<1>6. ss \in Seq(Seq(T)) /\ bs \in Seq(Seq(T))
  <2>1. ss \in [1 .. n -> Seq(T)] /\ bs \in [1 .. N -> Seq(T)]
    BY <1>4, <1>5
  <2>. HIDE DEF ss, bs
  <2>. QED BY <1>2, <2>1, MakeSeq
<1>. HIDE DEF ss, bs
<1>7. FlattenSeq(ss) \in Seq(T) /\ FlattenSeq(bs) \in Seq(T)
  BY <1>6, FlatType
<1>. QED BY <1>3, <1>7, ConcatProperties DEF T

-----------------------------------------------------------------------------
(* Braces: what a scan of the lines knows                                  *)

LEMMA BrLines ==
  /\ Br!Method = Method /\ Br!Own = Own /\ Br!Ctor = Ctor
  /\ \A in, k, n : Br!Line(in, k, n) = Line(in, k, n)
  /\ \A S : Br!Cardinality(S) = Cardinality(S)
  /\ \A ss : Br!FlattenSeq(ss) = FlattenSeq(ss)
  /\ \A S, i, t : Br!FirstOf(S, i, t) = FirstOf(S, i, t)
  /\ \A t, S : Br!Picked(t, S) = Picked(t, S)
  /\ \A t, i : Br!Before(t, i) = Before(t, i) /\ Br!After(t, i) = After(t, i)
<1>1. Br!Method = Method /\ Br!Own = Own /\ Br!Ctor = Ctor
  BY DEF Br!Method, Method, Br!Own, Own, Br!Ctor, Ctor
<1>2. \A in, k, n : Br!Line(in, k, n) = Line(in, k, n)
  BY DEF Br!Line, Line
<1>3. \A S : Br!Cardinality(S) = Cardinality(S)
  BY DEF Br!Cardinality, Cardinality
<1>4. \A ss : Br!FlattenSeq(ss) = FlattenSeq(ss)
  BY DEF Br!FlattenSeq, FlattenSeq
<1>5. \A S : Br!Min(S) = Min(S)
  BY DEF Br!Min, Min
<1>6. \A S, i, t : Br!FirstOf(S, i, t) = FirstOf(S, i, t)
  BY <1>5 DEF Br!FirstOf, FirstOf
<1>7. \A t, S : Br!Picked(t, S) = Picked(t, S)
  BY <1>4 DEF Br!Picked, Picked
<1>8. \A t, i : Br!Before(t, i) = Before(t, i) /\ Br!After(t, i) = After(t, i)
  BY DEF Br!Before, Before, Br!After, After
<1>. QED BY <1>1, <1>2, <1>3, <1>4, <1>6, <1>7, <1>8

(* Java has the lines of JavaScript but one.                               *)
BrLine == {l \in Fine("js") : family = "java" => l.k # "rem"}

LEMMA BrLineIs ==
  /\ family \in Braces => Fine(family) = BrLine
  /\ \A l \in BrLine : l.in \in Nat /\ l.n \in Method \cup {0, Own, Ctor} /\ l.k \in Kinds("js")
BY DEF BrLine, Fine, Braces, Kinds, LinesOf

BrStep(l) == IF Br!OpensBrace(l) THEN 1 ELSE IF l.k = "close" THEN 0 - 1 ELSE 0

(* How many of the numbers in o are passed, less those in c                *)
Balance(n, o, c) ==
  [i \in 0 .. n |-> Cardinality({j \in o : j <= i}) - Cardinality({j \in c : j <= i})]

Counts(i, o, c) == IF i \in o THEN (IF i \in c THEN 0 ELSE 1) ELSE IF i \in c THEN 0 - 1 ELSE 0

Climbs(d, n, o, c) == /\ d[0] = 0 /\ \A i \in 0 .. n : d[i] \in Int
                      /\ \A i \in 0 .. n - 1 : d[i + 1] = d[i] + Counts(i + 1, o, c)

LEMMA BalanceClimbs ==
  ASSUME NEW n \in Nat, NEW o \in SUBSET (1 .. n), NEW c \in SUBSET (1 .. n)
  PROVE  Climbs(Balance(n, o, c), n, o, c)
<1> DEFINE d == Balance(n, o, c)
           Upto(S, i) == {j \in S : j <= i}
<1>1. d = [i \in 0 .. n |-> Cardinality(Upto(o, i)) - Cardinality(Upto(c, i))]
  BY DEF Balance
<1>2. ASSUME NEW S \in SUBSET (1 .. n)
      PROVE  /\ Cardinality(Upto(S, 0)) = 0
             /\ \A i \in 0 .. n : Cardinality(Upto(S, i)) \in Nat
             /\ \A i \in 0 .. n - 1 : Cardinality(Upto(S, i + 1)) =
                  IF i + 1 \in S THEN Cardinality(Upto(S, i)) + 1 ELSE Cardinality(Upto(S, i))
  <2>0. \A j \in S : j \in Nat /\ j >= 1 /\ ~(j <= 0)
    OBVIOUS
  <2>1. Upto(S, 0) = {}
    BY <2>0
  <2>2. ASSUME NEW i \in 0 .. n
        PROVE  /\ Cardinality(Upto(S, i)) \in Nat
               /\ Cardinality(Upto(S, i) \cup {i + 1}) = Cardinality(Upto(S, i)) + 1
    <3>0. i \in Nat
      OBVIOUS
    <3>1. \A j \in S : j <= i => j \in 1 .. i
      BY <2>0, <3>0
    <3>2. Upto(S, i) \in SUBSET (1 .. i)
      BY <3>1, Zenon
    <3>. HIDE DEF Upto
    <3>. QED BY <3>0, <3>2, Counting
  <2>3. ASSUME NEW i \in 0 .. n - 1
        PROVE  Upto(S, i + 1) = IF i + 1 \in S THEN Upto(S, i) \cup {i + 1} ELSE Upto(S, i)
    <3>1. \A j \in S : j <= i + 1 <=> j <= i \/ j = i + 1
      OBVIOUS
    <3>. QED BY <3>1
  <2>4. \A i \in 0 .. n - 1 : i \in 0 .. n
    OBVIOUS
  <2>5. Cardinality(Upto(S, 0)) = 0
    BY <2>1, FS_EmptySet
  <2>. HIDE DEF Upto
  <2>. QED BY <2>2, <2>3, <2>4, <2>5
<1> DEFINE O(i) == Cardinality(Upto(o, i))
           C(i) == Cardinality(Upto(c, i))
<1>3. /\ O(0) = 0 /\ C(0) = 0 /\ \A i \in 0 .. n : O(i) \in Nat /\ C(i) \in Nat
      /\ \A i \in 0 .. n - 1 : /\ O(i + 1) = IF i + 1 \in o THEN O(i) + 1 ELSE O(i)
                               /\ C(i + 1) = IF i + 1 \in c THEN C(i) + 1 ELSE C(i)
  <2>. HIDE DEF Upto
  <2>. QED BY <1>2
<1>4. d = [i \in 0 .. n |-> O(i) - C(i)]
  BY <1>1
<1>. HIDE DEF O, C, Upto, d
<1>5. 0 \in 0 .. n /\ \A i \in 0 .. n - 1 : i \in 0 .. n /\ i + 1 \in 0 .. n
  OBVIOUS
<1>6. \A i \in 0 .. n : d[i] = O(i) - C(i) /\ O(i) \in Nat /\ C(i) \in Nat
  BY <1>3, <1>4
<1>7. ASSUME NEW i \in 0 .. n - 1 PROVE d[i + 1] = d[i] + Counts(i + 1, o, c)
  <2>1. d[i] = O(i) - C(i) /\ d[i + 1] = O(i + 1) - C(i + 1) /\ O(i) \in Nat /\ C(i) \in Nat
    BY <1>5, <1>6
  <2>2. CASE i + 1 \in o
    BY <1>3, <2>1, <2>2 DEF Counts
  <2>3. CASE i + 1 \notin o
    BY <1>3, <2>1, <2>3 DEF Counts
  <2>. QED BY <2>2, <2>3
<1>8. d[0] = 0 /\ \A i \in 0 .. n : d[i] \in Int
  BY <1>3, <1>5, <1>6
<1>. QED BY <1>7, <1>8 DEF Climbs, d

LEMMA BrDepth ==
  ASSUME NEW t \in Seq(BrLine)
  PROVE  LET d == Br!Depth(t)
         IN /\ d[0] = 0 /\ \A i \in 0 .. Len(t) : d[i] \in Int
            /\ \A i \in 0 .. Len(t) - 1 : d[i + 1] = d[i] + BrStep(t[i + 1])
<1> DEFINE n == Len(t)
           o == {i \in 1 .. n : Br!OpensBrace(t[i])}
           c == {i \in 1 .. n : t[i].k = "close"}
           d == Br!Depth(t)
<1>1. n \in Nat /\ DOMAIN t = 1 .. n
  OBVIOUS
<1>2. d = Balance(n, o, c)
  BY <1>1, BrLines DEF Br!Depth, Br!Where, Balance
<1>3. o \in SUBSET (1 .. n) /\ c \in SUBSET (1 .. n)
  OBVIOUS
<1>4. \A i \in 0 .. n - 1 : i + 1 \in 1 .. n
  BY <1>1
<1>5. \A i \in 0 .. n - 1 : Counts(i + 1, o, c) = BrStep(t[i + 1])
  BY <1>4 DEF BrStep, Br!OpensBrace, Counts
<1>. HIDE DEF o, c, d, n
<1>6. Climbs(d, n, o, c)
  BY <1>1, <1>2, <1>3, BalanceClimbs
<1>. QED BY <1>5, <1>6 DEF Climbs, d, n

LEMMA BrDepthMore ==
  ASSUME NEW t \in Seq(BrLine), NEW l \in BrLine
  PROVE  LET u == Append(t, l)
         IN /\ \A i \in 0 .. Len(t) : Br!Depth(u)[i] = Br!Depth(t)[i]
            /\ Br!Depth(u)[Len(t) + 1] = Br!Depth(t)[Len(t)] + BrStep(l)
<1> DEFINE u == Append(t, l)
           n == Len(t)
           d == Br!Depth(t)
           e == Br!Depth(u)
           N == {i \in 0 .. n : e[i] = d[i]}
<1>1. /\ n \in Nat /\ u \in Seq(BrLine) /\ Len(u) = n + 1 /\ u[n + 1] = l
      /\ \A i \in 1 .. n : u[i] = t[i]
  OBVIOUS
<1>2. d[0] = 0 /\ \A i \in 0 .. n - 1 : d[i + 1] = d[i] + BrStep(t[i + 1])
  BY BrDepth
<1>3. e[0] = 0 /\ \A i \in 0 .. n : e[i + 1] = e[i] + BrStep(u[i + 1])
  <2>. HIDE DEF u
  <2>1. Len(u) - 1 = n
    BY <1>1
  <2>. QED BY <1>1, <2>1, BrDepth
<1>. HIDE DEF u, n, d, e
<1>4. 0 \in N
  BY <1>1, <1>2, <1>3
<1>5. ASSUME NEW i \in 0 .. n - 1, i \in N PROVE i + 1 \in N
  <2>1. u[i + 1] = t[i + 1] /\ i \in 0 .. n /\ i + 1 \in 0 .. n
    BY <1>1
  <2>. QED BY <1>2, <1>3, <1>5, <2>1
<1>6. 0 .. n \subseteq N
  <2>. HIDE DEF N
  <2>. QED BY <1>1, <1>4, <1>5, Induct
<1>7. e[n + 1] = d[n] + BrStep(l)
  BY <1>1, <1>3, <1>6
<1>. QED BY <1>6, <1>7 DEF u, n, d, e
BrHead(l) == l.k \in {"sig", "sig1", "head"}

BrMine(l) == l.k = "class" /\ l.n = Own

BrIn(t) == Br!ClassStart(t) <= Len(t)

(* How deep the next line is in the class                                  *)
BrRel(t) == Br!Depth(t)[Len(t)] - Br!Depth(t)[Br!ClassStart(t)]

(* Whether a head on the next line would be that of a method               *)
BrHere(t) == BrIn(t) /\ ~Br!HasSpan(t) /\ BrRel(t) = 0

LEMMA BrScan ==
  ASSUME NEW t \in Seq(BrLine)
  PROVE  LET n == Len(t)
             a == Br!ClassStart(t)
             d == Br!Depth(t)
             Back(j) == d[j] = d[a] - 1
         IN /\ n \in Nat /\ a \in 1 .. n + 1 /\ (a <= n => BrMine(t[a]))
            /\ \A i \in 1 .. n : BrMine(t[i]) => a <= i
            /\ Br!HasSpan(t) <=> a <= n /\ \E j \in a + 1 .. n : Back(j)
            /\ Br!HasSpan(t) => Br!ClassClose(t) \in a + 1 .. n
            /\ Br!Visible(t) = {i \in 1 .. n : /\ a < i /\ BrHead(t[i]) /\ d[i - 1] = d[a]
                                               /\ \A j \in a + 1 .. i : ~Back(j)}
<1> DEFINE n == Len(t)
           own == {i \in 1 .. n : BrMine(t[i])}
           a == Br!ClassStart(t)
           d == Br!Depth(t)
           braces == {i \in 1 .. n : Br!OpensBrace(t[i]) \/ t[i].k = "sig1"}
           brace == FirstOf(braces, a, t)
           back == {j \in 1 .. n : d[j] = d[brace] - 1}
           close == Br!BraceClose(t, a)
<1>1. n \in Nat /\ DOMAIN t = 1 .. n
  OBVIOUS
<1>2. a = FirstOf(own, 1, t)
  BY <1>1, BrLines DEF Br!ClassStart, Br!Where, BrMine
<1>3. a \in 1 .. n + 1 /\ (a <= n => BrMine(t[a])) /\ \A i \in 1 .. n : BrMine(t[i]) => a <= i
  <2>1. a \in Nat /\ ((a \in own /\ a >= 1) \/ a = n + 1)
        /\ \A j \in own : j >= 1 => a <= j
    <3>1. own \in SUBSET (1 .. n)
      OBVIOUS
    <3>. HIDE DEF own, a
    <3>. QED BY <1>1, <1>2, <3>1, FirstOfIs
  <2>. HIDE DEF a
  <2>2. \A i \in 1 .. n : BrMine(t[i]) => i \in own /\ i >= 1
    OBVIOUS
  <2>. QED BY <1>1, <2>1, <2>2
<1>4. close = IF brace > n \/ t[brace].k = "sig1" THEN brace ELSE FirstOf(back, brace + 1, t)
  BY <1>1, BrLines DEF Br!BraceClose, Br!Where
<1>5. braces \in SUBSET (1 .. n) /\ back \in SUBSET (1 .. n)
  OBVIOUS
<1>6. Br!ClassClose(t) = close /\ (Br!HasSpan(t) <=> close <= n)
  BY DEF Br!ClassClose, Br!HasSpan
<1>7. Br!Visible(t) = {i \in a + 1 .. close - 1 : BrHead(t[i]) /\ d[i - 1] = d[a]}
  BY DEF Br!Visible, BrHead
<1>8. brace = a
  <2>1. CASE a = n + 1
    <3>1. {j \in braces : j >= a} = {}
      BY <1>1, <2>1
    <3>. QED BY <2>1, <3>1 DEF FirstOf
  <2>2. CASE a <= n
    <3>1. a \in braces /\ a \in Nat
      BY <1>3, <2>2 DEF BrMine, Br!OpensBrace
    <3>2. brace \in Nat /\ (brace >= a \/ brace = n + 1) /\ brace <= a
      <4>. HIDE DEF braces, a
      <4>. QED BY <1>1, <1>3, <1>5, <3>1, FirstOfIs
    <3>. HIDE DEF brace, a
    <3>. QED BY <1>1, <1>3, <2>2, <3>2
  <2>. QED BY <1>3, <2>1, <2>2
<1>9. \A j : j \in back <=> j \in 1 .. n /\ d[j] = d[a] - 1
  BY <1>8
<1>. HIDE DEF brace, braces, own, a, d, close, back, n
<1>10. CASE a = n + 1
  <2>1. close = n + 1
    BY <1>1, <1>4, <1>8, <1>10
  <2>2. ~(n + 1 <= n) /\ \A i \in 1 .. n : ~(a < i)
    BY <1>1, <1>10
  <2>3. a + 1 .. close - 1 = {}
    BY <1>1, <1>10, <2>1
  <2>. QED BY <1>1, <1>3, <1>6, <1>7, <1>10, <2>1, <2>2, <2>3 DEF a, d, n
<1>11. CASE a <= n
  <2>1. t[a].k # "sig1" /\ ~(a > n)
    BY <1>1, <1>3, <1>11 DEF BrMine
  <2>2. close = FirstOf(back, a + 1, t)
    BY <1>4, <1>8, <2>1
  <2>3. /\ close \in Nat /\ ((close \in back /\ close >= a + 1) \/ close = n + 1)
        /\ \A j \in back : j >= a + 1 => close <= j
    <3>1. a + 1 \in Nat /\ Len(t) = n
      BY <1>1, <1>3 DEF n
    <3>. HIDE DEF close
    <3>. QED BY <1>1, <1>5, <2>2, <3>1, FirstOfIs
  <2>4. Br!HasSpan(t) <=> \E j \in a + 1 .. n : d[j] = d[a] - 1
    <3>1. ASSUME close <= n PROVE \E j \in a + 1 .. n : d[j] = d[a] - 1
      <4>1. close \in back /\ close \in a + 1 .. n
        BY <1>1, <1>3, <2>3, <3>1
      <4>. QED BY <1>9, <4>1
    <3>2. ASSUME NEW j \in a + 1 .. n, d[j] = d[a] - 1 PROVE close <= n
      <4>1. j \in 1 .. n /\ j >= a + 1
        BY <1>1, <1>3
      <4>2. close <= j
        BY <1>9, <2>3, <3>2, <4>1
      <4>. QED BY <1>1, <2>3, <4>1, <4>2
    <3>. QED BY <1>6, <3>1, <3>2
  <2>5. Br!HasSpan(t) => Br!ClassClose(t) \in a + 1 .. n
    BY <1>1, <1>3, <1>6, <2>3
  <2>6. ASSUME NEW i \in 1 .. n, a < i
        PROVE  i <= close - 1 <=> \A j \in a + 1 .. i : d[j] # d[a] - 1
    <3>1. ASSUME i <= close - 1, NEW j \in a + 1 .. i, d[j] = d[a] - 1 PROVE FALSE
      <4>1. j \in 1 .. n /\ j >= a + 1
        BY <1>1, <1>3
      <4>2. close <= j
        BY <1>9, <2>3, <3>1, <4>1
      <4>. QED BY <1>1, <1>3, <2>3, <3>1, <4>2
    <3>2. ASSUME ~(i <= close - 1) PROVE \E j \in a + 1 .. i : d[j] = d[a] - 1
      <4>1. close \in back /\ close \in a + 1 .. i
        BY <1>1, <1>3, <2>3, <3>2
      <4>. QED BY <1>9, <4>1
    <3>. QED BY <3>1, <3>2
  <2>7. \A i : i \in a + 1 .. close - 1 <=> i \in 1 .. n /\ a < i /\ i <= close - 1
    <3>1. a \in Int /\ a >= 1 /\ close \in Int /\ close <= n + 1
      BY <1>1, <1>3, <1>5, <2>3
    <3>. QED BY <1>1, <3>1
  <2>8. Br!Visible(t) = {i \in 1 .. n : /\ a < i /\ BrHead(t[i]) /\ d[i - 1] = d[a]
                                        /\ \A j \in a + 1 .. i : d[j] # d[a] - 1}
    BY <1>7, <2>6, <2>7
  <2>. QED BY <1>1, <1>3, <1>11, <2>4, <2>5, <2>8 DEF a, d, n
<1>. QED BY <1>1, <1>3, <1>10, <1>11

(* What the next line changes                                              *)
LEMMA BrNextLine ==
  ASSUME NEW t \in Seq(BrLine), NEW l \in BrLine
  PROVE  LET u == Append(t, l)
         IN /\ BrIn(u) <=> BrIn(t) \/ BrMine(l)
            /\ BrIn(t) => BrRel(t) \in Int /\ BrRel(u) = BrRel(t) + BrStep(l)
            /\ ~BrIn(t) /\ BrMine(l) => BrRel(u) = 0
            /\ Br!HasSpan(t) => BrIn(t)
            /\ Br!HasSpan(u) <=> Br!HasSpan(t) \/ (BrIn(t) /\ BrRel(u) = 0 - 1)
            /\ Br!Methods(u) = Br!Methods(t) \cup
                 (IF BrHere(t) /\ BrHead(l) THEN {l.n} \cap Method ELSE {})
<1> DEFINE u == Append(t, l)
           n == Len(t)
           a == Br!ClassStart(t)
           b == Br!ClassStart(u)
           d == Br!Depth(t)
           e == Br!Depth(u)
<1>1. /\ n \in Nat /\ u \in Seq(BrLine) /\ Len(u) = n + 1 /\ u[n + 1] = l
      /\ \A i \in 1 .. n : u[i] = t[i]
  OBVIOUS
<1>2. /\ a \in 1 .. n + 1 /\ (a <= n => BrMine(t[a]))
      /\ \A i \in 1 .. n : BrMine(t[i]) => a <= i
      /\ Br!HasSpan(t) <=> a <= n /\ \E j \in a + 1 .. n : d[j] = d[a] - 1
      /\ Br!Visible(t) = {i \in 1 .. n : /\ a < i /\ BrHead(t[i]) /\ d[i - 1] = d[a]
                                         /\ \A j \in a + 1 .. i : d[j] # d[a] - 1}
  BY BrScan
<1>3. /\ b \in 1 .. n + 2 /\ (b <= n + 1 => BrMine(u[b]))
      /\ \A i \in 1 .. n + 1 : BrMine(u[i]) => b <= i
      /\ Br!HasSpan(u) <=> b <= n + 1 /\ \E j \in b + 1 .. n + 1 : e[j] = e[b] - 1
      /\ Br!Visible(u) = {i \in 1 .. n + 1 : /\ b < i /\ BrHead(u[i]) /\ e[i - 1] = e[b]
                                             /\ \A j \in b + 1 .. i : e[j] # e[b] - 1}
  <2>. HIDE DEF u
  <2>1. Len(u) = n + 1 /\ Len(u) + 1 = n + 2
    BY <1>1
  <2>. QED BY <1>1, <2>1, BrScan
<1>4. /\ \A i \in 0 .. n : e[i] = d[i] /\ d[i] \in Int
      /\ e[n + 1] = d[n] + BrStep(l)
  BY BrDepth, BrDepthMore
<1>5. BrIn(t) <=> a <= n
  BY DEF BrIn
<1>6. BrIn(u) <=> b <= n + 1
  BY <1>1 DEF BrIn
<1>7. BrRel(t) = d[n] - d[a]
  BY DEF BrRel
<1>8. BrRel(u) = e[n + 1] - e[b]
  BY <1>1 DEF BrRel
<1>9. Br!Methods(t) = {t[i].n : i \in Br!Visible(t)} \cap Method
  BY BrLines DEF Br!Methods
<1>10. Br!Methods(u) = {u[i].n : i \in Br!Visible(u)} \cap Method
  BY BrLines DEF Br!Methods
<1>11. BrStep(l) \in Int
  BY DEF BrStep
<1>. HIDE DEF u, n, a, b, d, e, BrIn, BrRel
<1>12. CASE a <= n
  <2>1. b = a
    <3>1. a \in 1 .. n /\ a \in 1 .. n + 1
      BY <1>1, <1>2, <1>12
    <3>2. BrMine(u[a])
      BY <1>1, <1>2, <3>1
    <3>3. b <= a
      BY <1>3, <3>1, <3>2
    <3>4. b \in 1 .. n /\ b <= n + 1
      BY <1>1, <1>2, <1>3, <1>12, <3>3
    <3>5. BrMine(t[b])
      BY <1>1, <1>3, <3>4
    <3>6. a <= b
      BY <1>2, <3>4, <3>5
    <3>. QED BY <1>2, <1>3, <3>3, <3>6
  <2>2. BrIn(t) /\ BrIn(u)
    BY <1>1, <1>2, <1>5, <1>6, <1>12, <2>1
  <2>3. e[a] = d[a] /\ d[a] \in Int /\ d[n] \in Int /\ e[n] = d[n]
    BY <1>1, <1>2, <1>4, <1>12
  <2>4. BrRel(t) \in Int /\ BrRel(u) = BrRel(t) + BrStep(l)
    BY <1>4, <1>7, <1>8, <1>11, <2>1, <2>3
  <2>5. \A j : j \in a + 1 .. n + 1 <=> j \in a + 1 .. n \/ j = n + 1
    <3>1. a \in Int /\ a <= n
      BY <1>1, <1>2, <1>12
    <3>. QED BY <1>1, <3>1
  <2>6. \A j \in a + 1 .. n : j \in 0 .. n
    BY <1>1, <1>2
  <2>7. e[n + 1] = d[a] - 1 <=> BrRel(u) = 0 - 1
    BY <1>4, <1>8, <1>11, <2>1, <2>3
  <2>8. Br!HasSpan(u) <=> Br!HasSpan(t) \/ BrRel(u) = 0 - 1
    <3>1. Br!HasSpan(u) <=> \E j \in a + 1 .. n + 1 : e[j] = d[a] - 1
      BY <1>3, <1>6, <2>1, <2>2, <2>3
    <3>2. Br!HasSpan(t) <=> \E j \in a + 1 .. n : e[j] = d[a] - 1
      BY <1>2, <1>4, <1>12, <2>6
    <3>. QED BY <2>5, <2>7, <3>1, <3>2
  <2>9. \A i \in 1 .. n : i \in Br!Visible(u) <=> i \in Br!Visible(t)
    <3>1. ASSUME NEW i \in 1 .. n
          PROVE  i \in Br!Visible(u) <=> i \in Br!Visible(t)
      <4>1. u[i] = t[i] /\ e[i - 1] = d[i - 1] /\ i \in 1 .. n + 1 /\ \A j \in a + 1 .. i : e[j] = d[j]
        <5>1. i - 1 \in 0 .. n /\ i \in 1 .. n + 1 /\ \A j \in a + 1 .. i : j \in 0 .. n
          BY <1>1, <1>2
        <5>. QED BY <1>1, <1>4, <5>1
      <4>. QED BY <1>2, <1>3, <2>1, <2>3, <4>1
    <3>. QED BY <3>1
  <2>10. n + 1 \in Br!Visible(u) <=> BrHere(t) /\ BrHead(l)
    <3>1. n + 1 \in 1 .. n + 1 /\ a < n + 1 /\ n + 1 - 1 = n
      BY <1>1, <1>2, <1>12
    <3>2. n + 1 \in Br!Visible(u) <=>
            BrHead(l) /\ d[n] = d[a] /\ \A j \in a + 1 .. n + 1 : e[j] # d[a] - 1
      BY <1>1, <1>3, <2>1, <2>3, <3>1
    <3>3. d[n] = d[a] <=> BrRel(t) = 0
      BY <1>7, <2>3
    <3>4. Br!HasSpan(u) <=> \E j \in a + 1 .. n + 1 : e[j] = d[a] - 1
      BY <1>3, <1>6, <2>1, <2>2, <2>3
    <3>5. BrHead(l) /\ BrRel(t) = 0 => BrRel(u) # 0 - 1
      BY <2>4 DEF BrHead, BrStep, Br!OpensBrace
    <3>. QED BY <2>2, <2>8, <3>2, <3>3, <3>4, <3>5 DEF BrHere
  <2>11. Br!Visible(t) \subseteq 1 .. n /\ Br!Visible(u) \subseteq 1 .. n + 1
    BY <1>2, <1>3
  <2>12. Br!Methods(u) = Br!Methods(t) \cup (IF BrHere(t) /\ BrHead(l) THEN {l.n} \cap Method ELSE {})
    <3>1. \A i \in 1 .. n + 1 : i \in 1 .. n \/ i = n + 1
      BY <1>1
    <3> DEFINE new == BrHere(t) /\ BrHead(l)
               v == Br!Visible(t)
               w == Br!Visible(u)
    <3>. HIDE DEF new
    <3>4. n + 1 \in w <=> new
      BY <2>10 DEF new
    <3>. HIDE DEF v, w
    <3>2. \A i : i \in w <=> i \in v \/ (new /\ i = n + 1)
      BY <2>9, <2>11, <3>1, <3>4 DEF v, w
    <3>3. \A i \in v : u[i] = t[i]
      BY <1>1, <2>11 DEF v
    <3>5. Br!Methods(u) = {u[i].n : i \in w} \cap Method /\ Br!Methods(t) = {t[i].n : i \in v} \cap Method
      BY <1>9, <1>10 DEF v, w
    <3>6. {u[i].n : i \in w} = {t[i].n : i \in v} \cup (IF new THEN {l.n} ELSE {})
      BY <1>1, <3>2, <3>3
    <3>7. Br!Methods(u) = Br!Methods(t) \cup (IF new THEN {l.n} \cap Method ELSE {})
      BY <3>5, <3>6
    <3>. QED BY <3>7 DEF new
  <2>13. (BrIn(u) <=> BrIn(t) \/ BrMine(l)) /\ (Br!HasSpan(t) => BrIn(t))
    BY <2>2
  <2>. QED BY <2>2, <2>4, <2>8, <2>12, <2>13 DEF u
<1>13. CASE a = n + 1
  <2>1. ~BrIn(t) /\ ~Br!HasSpan(t)
    BY <1>1, <1>2, <1>5, <1>13
  <2>2. \A i \in 1 .. n : ~BrMine(u[i])
    BY <1>1, <1>2, <1>13
  <2>3. b = (IF BrMine(l) THEN n + 1 ELSE n + 2)
    BY <1>1, <1>3, <2>2
  <2>4. BrIn(u) <=> BrMine(l)
    BY <1>1, <1>6, <2>3
  <2>5. BrMine(l) => BrRel(u) = 0
    <3>1. e[n + 1] \in Int
      BY <1>1, <1>4, <1>11
    <3>. QED BY <1>8, <2>3, <3>1
  <2>6. ~Br!HasSpan(u)
    BY <1>1, <1>3, <2>3
  <2>7. Br!Visible(t) = {} /\ Br!Visible(u) = {}
    <3>1. \A i \in 1 .. n : ~(a < i)
      BY <1>1, <1>13
    <3>2. \A i \in 1 .. n + 1 : ~(b < i)
      BY <1>1, <2>3
    <3>. QED BY <1>2, <1>3, <3>1, <3>2
  <2>8. Br!Methods(u) = {} /\ Br!Methods(t) = {}
    BY <1>9, <1>10, <2>7
  <2>. QED BY <2>1, <2>4, <2>5, <2>6, <2>8 DEF u, BrHere
<1>. QED BY <1>1, <1>2, <1>12, <1>13

LEMMA BrNone ==
  ASSUME NEW t \in Seq({l \in BrLine : ~BrMine(l)})
  PROVE  t \in Seq(BrLine) /\ ~BrIn(t) /\ ~Br!HasSpan(t) /\ Br!Methods(t) = {}
<1>1. \A i \in 1 .. Len(t) : t[i] \in BrLine /\ ~BrMine(t[i])
  BY ElementOfSeq
<1>2. t \in Seq(BrLine)
  <2>. HIDE DEF BrMine
  <2>. QED BY <1>1, Sieved
<1>3. Br!ClassStart(t) = Len(t) + 1 /\ Len(t) \in Nat /\ ~Br!HasSpan(t)
  BY <1>1, <1>2, BrScan
<1>4. Br!Visible(t) = {}
  <2>1. \A i \in 1 .. Len(t) : ~(Len(t) + 1 < i)
    BY <1>3
  <2>. QED BY <1>2, <1>3, <2>1, BrScan
<1>5. Br!Methods(t) = {}
  BY <1>4 DEF Br!Methods
<1>. QED BY <1>2, <1>3, <1>5 DEF BrIn

LEMMA BrInside ==
  ASSUME NEW t \in Seq(BrLine), BrIn(t), ~Br!HasSpan(t)
  PROVE  BrRel(t) \in Nat
<1> DEFINE P == {x \in Seq(BrLine) : BrIn(x) /\ ~Br!HasSpan(x) => BrRel(x) \in Nat}
<1>1. <<>> \in P
  <2>1. <<>> \in Seq({l \in BrLine : ~BrMine(l)}) /\ <<>> \in Seq(BrLine)
    OBVIOUS
  <2>. QED BY <2>1, BrNone
<1>2. ASSUME NEW x \in Seq(BrLine), NEW i \in 1 .. Len(t), x \in P
      PROVE  Append(x, t[i]) \in P
  <2> DEFINE l == t[i]
             u == Append(x, l)
  <2>1. l \in BrLine /\ u \in Seq(BrLine)
    OBVIOUS
  <2>2. /\ BrIn(u) <=> BrIn(x) \/ BrMine(l)
        /\ BrIn(x) => BrRel(x) \in Int /\ BrRel(u) = BrRel(x) + BrStep(l)
        /\ ~BrIn(x) /\ BrMine(l) => BrRel(u) = 0
        /\ Br!HasSpan(u) <=> Br!HasSpan(x) \/ (BrIn(x) /\ BrRel(u) = 0 - 1)
    BY <2>1, BrNextLine
  <2>3. BrStep(l) \in {0 - 1, 0, 1}
    BY DEF BrStep
  <2>. HIDE DEF l, u
  <2>4. ASSUME BrIn(u), ~Br!HasSpan(u) PROVE BrRel(u) \in Nat
    BY <1>2, <2>2, <2>3, <2>4
  <2>. QED BY <2>1, <2>4 DEF u, l
<1>3. <<>> \in Seq(BrLine) /\ <<>> \o t = t
  BY AttachNone
<1>. HIDE DEF P
<1>4. <<>> \o t \in P
  BY <1>1, <1>2, <1>3, MoreLines
<1>. QED BY <1>3, <1>4 DEF P

-----------------------------------------------------------------------------
(* Braces: lines that close all that they open                             *)

(* Of the API's methods they declare at most those of A.                   *)
BrBody(y, A) ==
  LET d == Br!Depth(y)
  IN /\ y \in Seq(BrLine) /\ d[Len(y)] = 0
     /\ \A i \in 1 .. Len(y) :
          /\ d[i] >= 0 /\ ~BrMine(y[i])
          /\ BrHead(y[i]) /\ d[i - 1] = 0 /\ y[i].n \in Method => y[i].n \in A

LEMMA BrBodyAfter ==
  ASSUME NEW s \in Seq(BrLine), NEW A, NEW y, BrBody(y, A)
  PROVE  /\ s \o y \in Seq(BrLine)
         /\ BrIn(s \o y) <=> BrIn(s)
         /\ Br!HasSpan(s \o y) <=> Br!HasSpan(s)
         /\ BrIn(s) => BrRel(s \o y) = BrRel(s)
         /\ Br!Methods(s \o y) \subseteq Br!Methods(s) \cup (IF BrHere(s) THEN A ELSE {})
<1> DEFINE n == Len(y)
           d == Br!Depth(y)
           In(i, x) == /\ BrIn(x) <=> BrIn(s)
                       /\ Br!HasSpan(x) <=> Br!HasSpan(s)
                       /\ BrIn(s) => BrRel(x) = BrRel(s) + d[i]
                       /\ Br!Methods(x) \subseteq Br!Methods(s) \cup (IF BrHere(s) THEN A ELSE {})
           At(i) == s \o SubSeq(y, 1, i)
           N == {i \in 0 .. n : In(i, At(i))}
<1>1. /\ y \in Seq(BrLine) /\ n \in Nat /\ d[n] = 0
      /\ \A i \in 1 .. n : /\ d[i] >= 0 /\ ~BrMine(y[i])
                           /\ BrHead(y[i]) /\ d[i - 1] = 0 /\ y[i].n \in Method => y[i].n \in A
  BY DEF BrBody
<1>2. /\ d[0] = 0 /\ \A i \in 0 .. n : d[i] \in Int
      /\ \A i \in 0 .. n - 1 : d[i + 1] = d[i] + BrStep(y[i + 1])
  BY <1>1, BrDepth
<1>3. BrIn(s) => BrRel(s) \in Int
  <2> DEFINE e == Br!Depth(s)
             a == Br!ClassStart(s)
             m == Len(s)
  <2>1. m \in Nat /\ a \in 1 .. m + 1 /\ \A i \in 0 .. m : e[i] \in Int
    BY BrScan, BrDepth
  <2>2. BrRel(s) = e[m] - e[a] /\ (BrIn(s) <=> a <= m)
    BY DEF BrRel, BrIn
  <2>. HIDE DEF e, a, m
  <2>3. BrIn(s) => a \in 0 .. m /\ m \in 0 .. m
    BY <2>1, <2>2
  <2>. QED BY <2>1, <2>2, <2>3
<1>4. BrIn(s) /\ ~Br!HasSpan(s) => BrRel(s) \in Nat
  BY BrInside
<1>5. 0 \in N
  <2>1. At(0) = s
    BY <1>1, Growing, AttachNone
  <2>. HIDE DEF At, d, n
  <2>. QED BY <1>1, <1>2, <1>3, <2>1
<1>6. ASSUME NEW i \in 0 .. n - 1, In(i, At(i)) PROVE In(i + 1, At(i + 1))
  <2>1. PICK z \in Seq(BrLine), z2 \in Seq(BrLine) :
          z = SubSeq(y, 1, i) /\ z2 = SubSeq(y, 1, i + 1) /\ z2 = Append(z, y[i + 1])
    <3>1. y \in Seq(BrLine) /\ i \in 0 .. Len(y) - 1
      BY <1>1
    <3>. HIDE DEF In, At, d, n
    <3>. QED BY <3>1, OneMore
  <2>2. PICK l \in BrLine : l = y[i + 1]
    BY <1>1, Growing
  <2>3. PICK x \in Seq(BrLine) : x = At(i)
    BY <2>1, ConcatProperties
  <2>4. At(i + 1) = Append(x, l)
    BY <2>1, <2>2, <2>3, AttachLine
  <2>5. /\ BrIn(Append(x, l)) <=> BrIn(x) \/ BrMine(l)
        /\ BrIn(x) => BrRel(x) \in Int /\ BrRel(Append(x, l)) = BrRel(x) + BrStep(l)
        /\ Br!HasSpan(x) => BrIn(x)
        /\ Br!HasSpan(Append(x, l)) <=> Br!HasSpan(x) \/ (BrIn(x) /\ BrRel(Append(x, l)) = 0 - 1)
        /\ Br!Methods(Append(x, l)) = Br!Methods(x) \cup
             (IF BrHere(x) /\ BrHead(l) THEN {l.n} \cap Method ELSE {})
    BY BrNextLine
  <2>6. /\ i \in 0 .. n /\ d[i] \in Int /\ d[i] >= 0 /\ d[i + 1] = d[i] + BrStep(l) /\ d[i + 1] \in Int
        /\ d[i + 1] >= 0 /\ ~BrMine(l)
        /\ BrHead(l) /\ d[i] = 0 /\ l.n \in Method => l.n \in A
    <3>1. i + 1 \in 1 .. n /\ i + 1 \in 0 .. n /\ i \in 0 .. n /\ i + 1 - 1 = i /\ (i = 0 \/ i \in 1 .. n)
      BY <1>1
    <3>. HIDE DEF d
    <3>. QED BY <1>1, <1>2, <2>2, <3>1
  <2>7. BrStep(l) \in Int
    BY DEF BrStep
  <2>. HIDE DEF d, n, At
  <2>8. In(i, x)
    BY <1>6, <2>3
  <2>9. BrIn(Append(x, l)) <=> BrIn(s)
    BY <2>5, <2>6, <2>8
  <2>10. BrIn(s) => BrRel(Append(x, l)) = BrRel(s) + d[i + 1]
    BY <1>3, <2>5, <2>6, <2>7, <2>8
  <2>11. Br!HasSpan(Append(x, l)) <=> Br!HasSpan(s)
    BY <1>3, <1>4, <2>5, <2>6, <2>8, <2>10
  <2>12. BrHere(x) => BrHere(s) /\ d[i] = 0
    BY <1>3, <1>4, <2>6, <2>8 DEF BrHere
  <2>13. Br!Methods(Append(x, l)) \subseteq Br!Methods(s) \cup (IF BrHere(s) THEN A ELSE {})
    BY <2>5, <2>6, <2>8, <2>12
  <2>. QED BY <2>4, <2>9, <2>10, <2>11, <2>13
<1>. HIDE DEF In
<1>7. n \in N
  <2>. HIDE DEF N
  <2>1. \A i \in 0 .. n - 1 : i \in N => i + 1 \in N
    <3>1. \A i \in 0 .. n - 1 : i + 1 \in 0 .. n
      BY <1>1
    <3>. HIDE DEF n, At
    <3>. QED BY <1>6, <3>1 DEF N
  <2>. HIDE DEF n
  <2>. QED BY <1>1, <1>5, <2>1, Induct
<1>8. At(n) = s \o y
  BY <1>1, Growing
<1>9. s \o y \in Seq(BrLine)
  BY <1>1, ConcatProperties
<1>. HIDE DEF At, d, n
<1>10. In(n, s \o y)
  BY <1>7, <1>8
<1>. QED BY <1>1, <1>3, <1>9, <1>10 DEF In

(* Lines that neither open nor close, and are no head                      *)
BrQuiet == {l \in BrLine : BrStep(l) = 0 /\ ~BrHead(l)}

LEMMA BrQuietBody ==
  ASSUME NEW y \in Seq(BrQuiet), NEW A
  PROVE  BrBody(y, A)
<1> DEFINE n == Len(y)
           d == Br!Depth(y)
           N == {i \in 0 .. n : d[i] = 0}
<1>1. \A i \in 1 .. n : y[i] \in BrLine /\ BrStep(y[i]) = 0 /\ ~BrHead(y[i])
  BY ElementOfSeq DEF BrQuiet
<1>2. y \in Seq(BrLine) /\ n \in Nat
  BY <1>1, Sieved
<1>3. d[0] = 0 /\ \A i \in 0 .. n - 1 : d[i + 1] = d[i] + BrStep(y[i + 1])
  BY <1>2, BrDepth
<1>. HIDE DEF d
<1>4. ASSUME NEW i \in 0 .. n - 1, i \in N PROVE i + 1 \in N
  <2>1. i + 1 \in 1 .. n /\ i + 1 \in 0 .. n
    BY <1>2
  <2>2. d[i + 1] = 0 + 0
    BY <1>1, <1>3, <1>4, <2>1
  <2>. QED BY <2>1, <2>2
<1>5. 0 \in N
  BY <1>2, <1>3
<1>6. n \in N /\ 0 .. n \subseteq N
  <2>. HIDE DEF N, n
  <2>. QED BY <1>2, <1>4, <1>5, Induct
<1>7. \A i \in 1 .. n : d[i] = 0 /\ ~BrMine(y[i])
  <2>1. \A i \in 1 .. n : d[i] = 0
    BY <1>6
  <2>2. \A i \in 1 .. n : y[i].k # "class"
    BY <1>1 DEF BrStep, Br!OpensBrace
  <2>. QED BY <2>1, <2>2 DEF BrMine
<1>. QED BY <1>1, <1>2, <1>6, <1>7 DEF BrBody, d

-----------------------------------------------------------------------------
(* Braces: files that the scan leaves in one state                         *)

BrSame(s, r) == /\ BrIn(s) <=> BrIn(r)
                /\ Br!HasSpan(s) <=> Br!HasSpan(r)
                /\ BrIn(s) => BrRel(s) = BrRel(r)

(* What follows the second text is read as it is after the first, and the  *)
(* second shows at most the methods of A beyond those of the first.        *)
BrLike(A) ==
  {p \in Seq(BrLine) \X Seq(BrLine) :
     BrSame(p[1], p[2]) /\ Br!Methods(p[2]) \subseteq Br!Methods(p[1]) \cup A}

LEMMA BrLikeIs ==
  ASSUME NEW A, NEW s, NEW r
  PROVE  <<s, r>> \in BrLike(A) <=>
           /\ s \in Seq(BrLine) /\ r \in Seq(BrLine) /\ BrSame(s, r)
           /\ Br!Methods(r) \subseteq Br!Methods(s) \cup A
BY DEF BrLike

LEMMA BrLikeSelf ==
  ASSUME NEW A, NEW s \in Seq(BrLine)
  PROVE  <<s, s>> \in BrLike(A)
BY BrLikeIs DEF BrSame

LEMMA BrLikeTwice ==
  ASSUME NEW A, NEW s, NEW r, NEW u, <<s, r>> \in BrLike(A), <<r, u>> \in BrLike(A)
  PROVE  <<s, u>> \in BrLike(A)
BY BrLikeIs DEF BrSame

LEMMA BrLikeSame ==
  ASSUME NEW A, NEW s, NEW r, <<s, r>> \in BrLike(A), NEW l \in BrLine
  PROVE  <<Append(s, l), Append(r, l)>> \in BrLike(A)
<1>1. /\ s \in Seq(BrLine) /\ r \in Seq(BrLine) /\ BrSame(s, r)
      /\ Br!Methods(r) \subseteq Br!Methods(s) \cup A
  BY BrLikeIs
<1>2. Append(s, l) \in Seq(BrLine) /\ Append(r, l) \in Seq(BrLine)
  BY <1>1
<1>3. BrHere(s) <=> BrHere(r)
  BY <1>1 DEF BrSame, BrHere
<1>4. BrIn(Append(s, l)) <=> BrIn(Append(r, l))
  BY <1>1, BrNextLine DEF BrSame
<1>5. BrIn(Append(s, l)) => BrRel(Append(s, l)) = BrRel(Append(r, l))
  BY <1>1, BrNextLine DEF BrSame
<1>6. Br!HasSpan(Append(s, l)) <=> Br!HasSpan(Append(r, l))
  BY <1>1, <1>4, <1>5, BrNextLine DEF BrSame
<1>7. Br!Methods(Append(r, l)) \subseteq Br!Methods(Append(s, l)) \cup A
  BY <1>1, <1>3, BrNextLine
<1>. QED BY <1>2, <1>4, <1>5, <1>6, <1>7, BrLikeIs DEF BrSame

LEMMA BrLikeBody ==
  ASSUME NEW A, NEW s, NEW r, <<s, r>> \in BrLike(A), NEW y, BrBody(y, A)
  PROVE  <<s, r \o y>> \in BrLike(A)
<1>1. /\ s \in Seq(BrLine) /\ r \in Seq(BrLine) /\ BrSame(s, r)
      /\ Br!Methods(r) \subseteq Br!Methods(s) \cup A
  BY BrLikeIs
<1>2. /\ r \o y \in Seq(BrLine)
      /\ BrIn(r \o y) <=> BrIn(r)
      /\ Br!HasSpan(r \o y) <=> Br!HasSpan(r)
      /\ BrIn(r) => BrRel(r \o y) = BrRel(r)
      /\ Br!Methods(r \o y) \subseteq Br!Methods(r) \cup A
  BY <1>1, BrBodyAfter
<1>. QED BY <1>1, <1>2, BrLikeIs DEF BrSame

(* A body takes the place of a line that neither opens nor closes.         *)
LEMMA BrLikeSwap ==
  ASSUME NEW A, NEW s, NEW r, <<s, r>> \in BrLike(A),
         NEW l \in BrLine, BrStep(l) = 0,
         NEW y, BrBody(y, IF BrHead(l) THEN {l.n} \cap Method ELSE {})
  PROVE  <<Append(s, l), r \o y>> \in BrLike(A)
<1> DEFINE C == IF BrHead(l) THEN {l.n} \cap Method ELSE {}
<1>1. /\ s \in Seq(BrLine) /\ r \in Seq(BrLine) /\ BrSame(s, r)
      /\ Br!Methods(r) \subseteq Br!Methods(s) \cup A
  BY BrLikeIs
<1>2. /\ r \o y \in Seq(BrLine)
      /\ BrIn(r \o y) <=> BrIn(r)
      /\ Br!HasSpan(r \o y) <=> Br!HasSpan(r)
      /\ BrIn(r) => BrRel(r \o y) = BrRel(r)
      /\ Br!Methods(r \o y) \subseteq Br!Methods(r) \cup (IF BrHere(r) THEN C ELSE {})
  BY <1>1, BrBodyAfter
<1> DEFINE u == Append(s, l)
<1>3. u \in Seq(BrLine) /\ ~BrMine(l)
  BY <1>1 DEF BrMine, BrStep, Br!OpensBrace
<1>4. /\ BrIn(u) <=> BrIn(s)
      /\ BrIn(s) => BrRel(u) = BrRel(s)
      /\ Br!HasSpan(u) <=> Br!HasSpan(s) \/ (BrIn(s) /\ BrRel(s) = 0 - 1)
      /\ Br!Methods(u) = Br!Methods(s) \cup (IF BrHere(s) THEN C ELSE {})
  BY <1>1, <1>3, BrNextLine
<1>5. Br!HasSpan(u) <=> Br!HasSpan(s)
  BY <1>1, <1>4, BrInside
<1>6. BrHere(s) <=> BrHere(r)
  BY <1>1 DEF BrSame, BrHere
<1>7. Br!Methods(r \o y) \subseteq Br!Methods(u) \cup A
  BY <1>1, <1>2, <1>4, <1>6
<1>8. BrSame(u, r \o y)
  BY <1>1, <1>2, <1>4, <1>5 DEF BrSame
<1>. QED BY <1>2, <1>3, <1>7, <1>8, BrLikeIs

LEMMA BrBodyMore ==
  ASSUME NEW A, NEW B, NEW y, BrBody(y, A), A \cap Method \subseteq B
  PROVE  BrBody(y, B)
BY DEF BrBody

-----------------------------------------------------------------------------
(* Braces: the stub and its methods                                        *)

(* Each method with a body is a doc, the head, a stub and the brace.       *)
BrStubLine == {l \in BrLine : l.k \in {"import", "class", "sig1", "doc", "sig", "stub", "close", "export"}}

BrWell(t) ==
  \A i \in 1 .. Len(t) : t[i].k = "sig" =>
    /\ i - 1 \in 1 .. Len(t) /\ i + 1 \in 1 .. Len(t) /\ i + 2 \in 1 .. Len(t)
    /\ t[i - 1].k = "doc" /\ t[i + 1].k = "stub" /\ t[i + 2].k = "close"

LEMMA BrWellCat ==
  ASSUME NEW s \in Seq(BrStubLine), NEW y \in Seq(BrStubLine), BrWell(s), BrWell(y)
  PROVE  s \o y \in Seq(BrStubLine) /\ BrWell(s \o y)
<1> DEFINE u == s \o y
           m == Len(s)
           n == Len(y)
<1>1. /\ u \in Seq(BrStubLine) /\ Len(u) = m + n /\ m \in Nat /\ n \in Nat
      /\ \A i \in 1 .. m : u[i] = s[i]
      /\ \A j \in 1 .. n : u[m + j] = y[j]
  BY Cat
<1>. HIDE DEF u
<1>2. ASSUME NEW i \in 1 .. m, u[i].k = "sig"
      PROVE  /\ i - 1 \in 1 .. Len(u) /\ i + 1 \in 1 .. Len(u) /\ i + 2 \in 1 .. Len(u)
             /\ u[i - 1].k = "doc" /\ u[i + 1].k = "stub" /\ u[i + 2].k = "close"
  <2>1. /\ i - 1 \in 1 .. m /\ i + 1 \in 1 .. m /\ i + 2 \in 1 .. m
        /\ s[i - 1].k = "doc" /\ s[i + 1].k = "stub" /\ s[i + 2].k = "close"
    BY <1>1, <1>2 DEF BrWell
  <2>. HIDE DEF m, n
  <2>. QED BY <1>1, <2>1
<1>3. ASSUME NEW j \in 1 .. n, u[m + j].k = "sig"
      PROVE  /\ m + j - 1 \in 1 .. Len(u) /\ m + j + 1 \in 1 .. Len(u) /\ m + j + 2 \in 1 .. Len(u)
             /\ u[m + j - 1].k = "doc" /\ u[m + j + 1].k = "stub" /\ u[m + j + 2].k = "close"
  <2>0. y[j].k = "sig"
    BY <1>1, <1>3
  <2>1. /\ j - 1 \in 1 .. n /\ j + 1 \in 1 .. n /\ j + 2 \in 1 .. n
        /\ y[j - 1].k = "doc" /\ y[j + 1].k = "stub" /\ y[j + 2].k = "close"
    BY <2>0 DEF BrWell
  <2>. HIDE DEF m, n
  <2>2. u[m + (j - 1)].k = "doc" /\ u[m + (j + 1)].k = "stub" /\ u[m + (j + 2)].k = "close"
    BY <1>1, <2>1
  <2>3. m + (j - 1) = m + j - 1 /\ m + (j + 1) = m + j + 1 /\ m + (j + 2) = m + j + 2
    BY <1>1
  <2>. QED BY <1>1, <2>1, <2>2, <2>3
<1>4. ASSUME NEW i \in 1 .. Len(u) PROVE i \in 1 .. m \/ \E j \in 1 .. n : i = m + j
  <2>. HIDE DEF m, n
  <2>1. i \in 1 .. m \/ (i - m \in 1 .. n /\ i = m + (i - m))
    BY <1>1
  <2>. QED BY <2>1
<1>5. BrWell(u)
  <2>. HIDE DEF m, n
  <2>1. ASSUME NEW i \in 1 .. Len(u), u[i].k = "sig"
        PROVE  /\ i - 1 \in 1 .. Len(u) /\ i + 1 \in 1 .. Len(u) /\ i + 2 \in 1 .. Len(u)
               /\ u[i - 1].k = "doc" /\ u[i + 1].k = "stub" /\ u[i + 2].k = "close"
    <3>1. CASE i \in 1 .. m
      BY <1>2, <2>1, <3>1
    <3>2. CASE \E j \in 1 .. n : i = m + j
      <4>1. PICK j \in 1 .. n : i = m + j
        BY <3>2
      <4>2. u[m + j].k = "sig"
        BY <2>1, <4>1
      <4>3. /\ m + j - 1 \in 1 .. Len(u) /\ m + j + 1 \in 1 .. Len(u) /\ m + j + 2 \in 1 .. Len(u)
            /\ u[m + j - 1].k = "doc" /\ u[m + j + 1].k = "stub" /\ u[m + j + 2].k = "close"
        BY <1>3, <4>2
      <4>4. i - 1 = m + j - 1 /\ i + 1 = m + j + 1 /\ i + 2 = m + j + 2
        BY <1>1, <4>1
      <4>. QED BY <4>3, <4>4
    <3>. QED BY <1>4, <3>1, <3>2
  <2>. QED BY <2>1 DEF BrWell
<1>. QED BY <1>1, <1>5 DEF u

LEMMA BrStub ==
  ASSUME family \in Braces
  PROVE  Stub \in Seq(BrStubLine) /\ BrWell(Stub) /\ Stub \in Seq(BrLine) /\ BrIn(Stub)
<1> DEFINE N == Len(StubOrder)
           class == Line(0, "class", Own)
           one == Line(1, "sig1", Ctor)
           head == <<class, one>>
           last == Line(0, "close", 0)
           export == Line(0, "export", 0)
           I(m) == IF m \in Imports THEN <<Line(0, "import", m)>> ELSE <<>>
           imports == [m \in 1 .. N |-> I(m)]
           M(i) == <<Line(1, "doc", StubOrder[i]), Line(1, "sig", StubOrder[i]), Line(2, "stub", 0), Line(1, "close", 0)>>
           methods == [i \in 1 .. N |-> M(i)]
           J(i) == Line(1, "sig1", StubOrder[i])
           ones == [i \in 1 .. N |-> J(i)]
           T == BrStubLine
           Good == {x \in Seq(T) : BrWell(x)}
<1>1. N \in Nat /\ DOMAIN StubOrder = 1 .. N /\ \A i \in 1 .. N : StubOrder[i] \in Method
  BY MethodsAreNumbers
<1>2. \A x, y \in Good : x \o y \in Good
  BY BrWellCat
<1>3. \A in \in {0, 1, 2}, n \in Method \cup {0, Own, Ctor} :
        /\ \A k \in {"import", "class", "sig1", "doc", "sig", "close", "export"} : Line(in, k, n) \in T
        /\ Line(2, "stub", 0) \in T
  <2>1. {"import", "class", "sig1", "doc", "sig", "close", "export", "stub"} \subseteq Kinds("js")
    BY DEF Kinds, Braces
  <2>2. ASSUME NEW in \in {0, 1, 2}, NEW n \in Method \cup {0, Own, Ctor},
               NEW k \in {"import", "class", "sig1", "doc", "sig", "close", "export"}
        PROVE  Line(in, k, n) \in T
    <3>1. in \in Nat /\ k \in Kinds("js") /\ k # "stub" /\ k # "rem"
      BY <2>1
    <3>2. Line(in, k, n) \in LinesOf(Kinds("js"))
      BY <3>1, LineIs, Zenon
    <3>3. Line(in, k, n).k = k
      BY DEF Line
    <3>. QED BY <3>1, <3>2, <3>3 DEF BrStubLine, BrLine, Fine
  <2>3. Line(2, "stub", 0) \in T
    <3>1. Line(2, "stub", 0) \in LinesOf(Kinds("js")) /\ Line(2, "stub", 0).k = "stub"
          /\ Line(2, "stub", 0).n = 0 /\ Line(2, "stub", 0).in = 2
      BY <2>1, LineIs
    <3>. QED BY <3>1 DEF BrStubLine, BrLine, Fine
  <2>. QED BY <2>2, <2>3
<1>4. \A x \in Seq(T) : (\A i \in 1 .. Len(x) : x[i].k # "sig") => x \in Good
  BY DEF BrWell
<1>0. /\ <<>> \in Good
       /\ \A z \in T : z.k # "sig" => <<z>> \in Good
       /\ \A x, y \in T : x.k # "sig" /\ y.k # "sig" => <<x, y>> \in Good
  <2>. HIDE DEF T, Good
  <2>1. <<>> \in Seq(T) /\ \A i \in 1 .. Len(<<>>) : FALSE
    OBVIOUS
  <2>2. ASSUME NEW x \in T, x.k # "sig" PROVE <<x>> \in Good
    <3>1. <<x>> \in Seq(T) /\ Len(<<x>>) = 1 /\ \A i \in 1 .. 1 : <<x>>[i] = x
      OBVIOUS
    <3>. QED BY <1>4, <2>2, <3>1
  <2>3. ASSUME NEW x \in T, NEW y \in T, x.k # "sig", y.k # "sig" PROVE <<x, y>> \in Good
    <3>1. <<x, y>> \in Seq(T) /\ Len(<<x, y>>) = 2 /\ \A i \in 1 .. 2 : <<x, y>>[i] \in {x, y}
      OBVIOUS
    <3>. QED BY <1>4, <2>3, <3>1
  <2>. QED BY <1>4, <2>1, <2>2, <2>3
<1>5. head \in Good /\ head[1] = class /\ Len(head) = 2
  <2>1. class \in T /\ one \in T
    BY <1>3
  <2>2. head \in Seq(T) /\ Len(head) = 2 /\ head[1] = class /\ head[2] = one
    BY <2>1
  <2>3. class.k # "sig" /\ one.k # "sig"
    BY DEF Line
  <2>. HIDE DEF head, T, Good, class, one
  <2>. QED BY <1>4, <2>2, <2>3
<1>6. <<last>> \in Good /\ <<last, export>> \in Good
  <2>1. last \in T /\ export \in T /\ last.k # "sig" /\ export.k # "sig"
    BY <1>3 DEF Line
  <2>. HIDE DEF T, Good, last, export
  <2>. QED BY <1>0, <2>1
<1>7. ASSUME NEW i \in 1 .. N PROVE M(i) \in Good
  <2> DEFINE d == Line(1, "doc", StubOrder[i])
             s == Line(1, "sig", StubOrder[i])
             b == Line(2, "stub", 0)
             c == Line(1, "close", 0)
             y == <<d, s, b, c>>
  <2>1. d \in T /\ s \in T /\ b \in T /\ c \in T
    BY <1>1, <1>3
  <2>2. d.k = "doc" /\ s.k = "sig" /\ b.k = "stub" /\ c.k = "close"
    BY DEF Line
  <2>. HIDE DEF d, s, b, c, T
  <2>3. y \in Seq(T) /\ Len(y) = 4 /\ y[1] = d /\ y[2] = s /\ y[3] = b /\ y[4] = c
    BY <2>1
  <2>. HIDE DEF y
  <2>4. \A j \in 1 .. 4 : y[j].k = "sig" => j = 2
    BY <2>2, <2>3
  <2>5. BrWell(y)
    BY <2>2, <2>3, <2>4 DEF BrWell
  <2>. QED BY <2>3, <2>5 DEF y, d, s, b, c
<1>8. ASSUME NEW m \in 1 .. N PROVE I(m) \in Good
  <2>1. CASE m \in Imports
    <3>1. m \in Method
      BY <2>1, WorkFileAssumption
    <3>2. Line(0, "import", m) \in T /\ Line(0, "import", m).k # "sig"
      BY <1>3, <3>1 DEF Line
    <3> DEFINE x == Line(0, "import", m)
    <3>3. x \in T /\ x.k # "sig" /\ I(m) = <<x>>
      BY <2>1, <3>2
    <3>. HIDE DEF x, T, Good, I
    <3>. QED BY <1>0, <3>3
  <2>2. CASE m \notin Imports
    <3>1. I(m) = <<>>
      BY <2>2
    <3>. HIDE DEF I, T, Good
    <3>. QED BY <1>0, <3>1
  <2>. QED BY <2>1, <2>2
<1>9. \A i \in 1 .. N : J(i) \in T /\ J(i).k # "sig"
  BY <1>1, <1>3 DEF Line
<1>. HIDE DEF M, I, J, N
<1>10. ones \in Good
  <2>1. ones \in [1 .. N -> T]
    BY <1>9
  <2>2. \A i \in 1 .. N : ones[i] = J(i)
    OBVIOUS
  <2>. HIDE DEF ones, T, Good
  <2>3. ones \in Seq(T) /\ Len(ones) = N
    BY <1>1, <2>1, MakeSeq
  <2>. QED BY <1>4, <1>9, <2>2, <2>3
<1>11. ASSUME NEW ss \in [1 .. N -> Good] PROVE FlattenSeq(ss) \in Good
  <2>1. ss \in Seq(Seq(T)) /\ Len(ss) = N /\ \A i \in 1 .. N : ss[i] \in Good
    <3>1. ss \in [1 .. N -> Seq(T)]
      OBVIOUS
    <3>. HIDE DEF T
    <3>. QED BY <1>1, <3>1, MakeSeq
  <2>2. <<>> \in Good
    BY <1>0
  <2>3. \A x \in Good : x \in Seq(T)
    OBVIOUS
  <2>. HIDE DEF T, Good
  <2>4. <<>> \o FlattenSeq(ss) \in Good
    <3>1. <<>> \in Seq(T)
      OBVIOUS
    <3>2. \A i \in 1 .. Len(ss), s, c \in Seq(T) : s \in Good /\ c = ss[i] => s \o c \in Good
      BY <1>2, <2>1
    <3>. QED BY <2>1, <2>2, <3>1, <3>2, FlatOnto
  <2>5. FlattenSeq(ss) \in Seq(T)
    BY <2>1, FlatType
  <2>. QED BY <2>4, <2>5, AttachNone
<1>12. methods \in [1 .. N -> Good] /\ imports \in [1 .. N -> Good]
  BY <1>7, <1>8
<1>. HIDE DEF methods, imports, ones
<1> DEFINE pre == IF family = "java" THEN FlattenSeq(imports) ELSE <<>>
           mid == IF family = "java" THEN FlattenSeq(methods) ELSE ones
           post == IF family = "java" THEN <<last>> ELSE <<last, export>>
<1>13. pre \in Good /\ mid \in Good /\ post \in Good
  <2>1. <<>> \in Good
    BY <1>0
  <2>. HIDE DEF T, Good
  <2>. QED BY <1>6, <1>10, <1>11, <1>12, <2>1
<1>14. Stub = pre \o head \o mid \o post
  <2>1. Stub = Br!Full(family)
    BY DEF Stub, Braces
  <2>2. CASE family = "java"
    BY <1>1, <2>1, <2>2, BrLines DEF Br!Full, Br!Blocks, M, I, imports, methods
  <2>3. CASE family # "java"
    <3>1. Stub = head \o ones \o post
      BY <1>1, <2>1, <2>3, BrLines DEF Br!Full, J, ones
    <3>2. <<>> \o head = head
      BY <1>5, AttachNone
    <3>. QED BY <2>3, <3>1, <3>2
  <2>. QED BY <2>2, <2>3
<1>15. \A x \in Good : x \in Seq(T)
  OBVIOUS
<1> DEFINE ph == pre \o head
           phm == ph \o mid
           all == phm \o post
<1>. HIDE DEF pre, mid, post, head, Good
<1>16. ph \in Good /\ ph \in Seq(T)
  BY <1>2, <1>5, <1>13, <1>15
<1>17. Len(pre) \in Nat /\ Len(ph) = Len(pre) + 2 /\ ph[Len(pre) + 1] = class
  <2>. HIDE DEF T, class
  <2>1. pre \in Seq(T) /\ head \in Seq(T) /\ Len(head) = 2 /\ head[1] = class
    BY <1>5, <1>13, <1>15
  <2>2. /\ Len(pre \o head) = Len(pre) + Len(head) /\ Len(pre) \in Nat
        /\ \A j \in 1 .. Len(head) : (pre \o head)[Len(pre) + j] = head[j]
    BY <2>1, Cat
  <2>3. 1 \in 1 .. Len(head)
    BY <2>1
  <2>. QED BY <2>1, <2>2, <2>3
<1>. HIDE DEF ph
<1>18. phm \in Good /\ phm \in Seq(T)
  BY <1>2, <1>13, <1>15, <1>16
<1>19. Len(phm) \in Nat /\ Len(phm) >= Len(ph) /\ phm[Len(pre) + 1] = class
  <2>. HIDE DEF T, class
  <2>1. mid \in Seq(T)
    BY <1>13, <1>15
  <2>. QED BY <1>16, <1>17, <2>1, Cat
<1>. HIDE DEF phm
<1>20. all \in Good /\ all \in Seq(T)
  BY <1>2, <1>13, <1>15, <1>18
<1>21. Len(all) \in Nat /\ Len(all) >= Len(phm) /\ all[Len(pre) + 1] = class
  <2>. HIDE DEF T, class
  <2>1. post \in Seq(T)
    BY <1>13, <1>15
  <2>. QED BY <1>17, <1>18, <1>19, <2>1, Cat
<1>22. Stub = all
  BY <1>14 DEF ph, phm
<1>. HIDE DEF all
<1>23. Stub \in Seq(BrLine)
  <2>1. \A i \in 1 .. Len(Stub) : Stub[i] \in BrLine
    BY <1>20, <1>22 DEF BrStubLine
  <2>. HIDE DEF T
  <2>. QED BY <1>20, <1>22, <2>1, Sieved
<1>24. BrIn(Stub)
  <2>1. BrMine(class)
    BY DEF BrMine, Line
  <2>2. Len(pre) + 1 \in 1 .. Len(Stub) /\ Stub[Len(pre) + 1] = class
    BY <1>17, <1>19, <1>21, <1>22
  <2>3. Br!ClassStart(Stub) <= Len(pre) + 1 /\ Br!ClassStart(Stub) \in 1 .. Len(Stub) + 1
    BY <1>23, <2>1, <2>2, BrScan
  <2>. HIDE DEF class
  <2>. QED BY <2>2, <2>3 DEF BrIn
<1>. QED BY <1>20, <1>22, <1>23, <1>24 DEF Good

(* Without a plain block comment the Javadoc of a signature is in the line *)
(* before it.                                                              *)
LEMMA BrDocLine ==
  ASSUME NEW t, NEW i \in Nat, i > 0, \A j \in 1 .. i - 1 : t[j].k # "rem"
  PROVE  Br!DocLine(t, i) =
           IF t[i].k = "torn" THEN i
           ELSE IF t[i].k # "quotesig" /\ i > 1 /\ t[i - 1].k \in Br!Docs THEN i - 1
           ELSE 0
<1> DEFINE opened == {j \in 1 .. i - 1 : t[j].k \in Br!Docs \cup {"torn"}}
           last == Br!Max(opened)
<1>1. Br!DocLine(t, i) =
        IF t[i].k = "torn" THEN i
        ELSE IF t[i].k # "quotesig" /\ opened # {} /\ t[i - 1].k \in Br!Docs \cup {"rem"} THEN last
        ELSE 0
  BY DEF Br!DocLine
<1>2. ASSUME i > 1, t[i - 1].k \in Br!Docs
      PROVE  opened # {} /\ last = i - 1
  <2>1. i - 1 \in opened /\ \A j \in opened : j \in Nat /\ i - 1 >= j
    BY <1>2
  <2>2. last = CHOOSE x \in opened : \A y \in opened : x >= y
    BY DEF Br!Max
  <2>. HIDE DEF opened, last
  <2>3. last \in opened /\ last >= i - 1
    BY <2>1, <2>2
  <2>. QED BY <2>1, <2>3
<1>3. ASSUME opened # {}, t[i - 1].k \in Br!Docs \cup {"rem"}
      PROVE  i > 1 /\ t[i - 1].k \in Br!Docs
  <2>1. i > 1 /\ i - 1 \in 1 .. i - 1
    BY <1>3
  <2>. QED BY <1>3, <2>1
<1>. HIDE DEF opened, last
<1>. QED BY <1>1, <1>2, <1>3

(* A method of the stub: one line, or the four                             *)
LEMMA BrMethod ==
  ASSUME family \in Braces, NEW i \in 1 .. Len(Stub), Stub[i].k \in {"sig", "sig1"}
  PROVE  BrBody(Br!DocAndBlock(Stub, i), {Stub[i].n})
<1> DEFINE n == Len(Stub)
           d == Br!Depth(Stub)
           A == {Stub[i].n}
           from == IF Br!DocLine(Stub, i) = 0 THEN i ELSE Br!DocLine(Stub, i)
           close == Br!BraceClose(Stub, i)
           braces == {j \in 1 .. n : Br!OpensBrace(Stub[j]) \/ Stub[j].k = "sig1"}
           brace == FirstOf(braces, i, Stub)
           back == {j \in 1 .. n : d[j] = d[brace] - 1}
<1>1. /\ Stub \in Seq(BrLine) /\ Stub \in Seq(BrStubLine) /\ BrWell(Stub)
      /\ n \in Nat /\ DOMAIN Stub = 1 .. n
  BY BrStub
<1>2. \A j \in 1 .. n : Stub[j].k \in {"import", "class", "sig1", "doc", "sig", "stub", "close", "export"}
  <2>1. \A j \in 1 .. n : Stub[j] \in BrStubLine
    BY <1>1
  <2>. QED BY <2>1 DEF BrStubLine
<1>3. Br!DocAndBlock(Stub, i) = SubSeq(Stub, from, close)
  BY DEF Br!DocAndBlock
<1>4. close = IF brace > n \/ Stub[brace].k = "sig1" THEN brace ELSE FirstOf(back, brace + 1, Stub)
  BY <1>1, BrLines DEF Br!BraceClose, Br!Where
<1>5. brace = i
  <2>1. i \in braces /\ i \in Nat /\ i >= i
    BY <1>1 DEF Br!OpensBrace
  <2>2. brace \in Nat /\ (brace >= i \/ brace = n + 1) /\ brace <= i
    <3>1. braces \in SUBSET (1 .. n)
      OBVIOUS
    <3>. HIDE DEF braces
    <3>. QED BY <1>1, <2>1, <3>1, FirstOfIs
  <2>. HIDE DEF brace, braces
  <2>. QED BY <1>1, <2>1, <2>2
<1>6. (\A j \in 1 .. n : Stub[j] \in BrLine) /\ i \in Nat /\ i >= 1 /\ i <= n
  BY <1>1
<1>9. Br!DocLine(Stub, i) =
        IF Stub[i].k = "torn" THEN i
        ELSE IF Stub[i].k # "quotesig" /\ i > 1 /\ Stub[i - 1].k \in Br!Docs THEN i - 1
        ELSE 0
  <2>1. i > 0 /\ \A j \in 1 .. i - 1 : Stub[j].k # "rem"
    BY <1>1, <1>2, <1>6
  <2>. QED BY <1>6, <2>1, BrDocLine
<1>. HIDE DEF brace, braces, d, close
<1>7. CASE Stub[i].k = "sig1"
  <2>1. close = i
    BY <1>4, <1>5, <1>7
  <2>2. BrBody(<<Stub[i]>>, A)
    <3> DEFINE y == <<Stub[i]>>
               e == Br!Depth(y)
    <3>1. y \in Seq(BrLine) /\ Len(y) = 1 /\ y[1] = Stub[i]
      BY <1>6
    <3>2. e[0] = 0 /\ \A j \in 0 .. 1 - 1 : e[j + 1] = e[j] + BrStep(y[j + 1])
      <4>. HIDE DEF y
      <4>. QED BY <3>1, BrDepth
    <3>3. BrStep(Stub[i]) = 0 /\ ~BrMine(Stub[i])
      BY <1>7 DEF BrStep, BrMine, Br!OpensBrace
    <3>. HIDE DEF y, e
    <3>4. e[1] = 0
      BY <3>1, <3>2, <3>3
    <3>5. \A j \in 1 .. Len(y) : j = 1
      BY <3>1
    <3>. QED BY <3>1, <3>3, <3>4, <3>5 DEF BrBody, e, y
  <2>3. CASE Br!DocLine(Stub, i) = 0
    <3>1. SubSeq(Stub, i, i) = <<Stub[i]>>
      BY <1>1, OneOrTwo
    <3>. QED BY <1>3, <2>1, <2>2, <2>3, <3>1
  <2>4. CASE Br!DocLine(Stub, i) # 0
    <3>1. i > 1 /\ i - 1 \in 1 .. n /\ Stub[i - 1].k \in Br!Docs /\ from = i - 1
      <4>1. i > 1 /\ Stub[i - 1].k \in Br!Docs /\ Br!DocLine(Stub, i) = i - 1
        BY <1>7, <1>9, <2>4
      <4>. QED BY <1>1, <2>4, <4>1
    <3>2. Stub[i - 1].k = "doc" /\ Stub[i - 1] \in BrLine
      BY <1>2, <1>6, <3>1 DEF Br!Docs
    <3>3. Stub[i - 1] \in BrQuiet
      BY <3>2 DEF BrQuiet, BrStep, BrHead, Br!OpensBrace
    <3>4. SubSeq(Stub, i - 1, i) = <<Stub[i - 1], Stub[i]>>
      BY <1>1, <3>1, OneOrTwo
    <3> DEFINE y == <<Stub[i - 1], Stub[i]>>
               e == Br!Depth(y)
    <3>5. y \in Seq(BrLine) /\ Len(y) = 2 /\ y[1] = Stub[i - 1] /\ y[2] = Stub[i]
      BY <1>6, <3>2
    <3>6. e[0] = 0 /\ \A j \in 0 .. 2 - 1 : e[j + 1] = e[j] + BrStep(y[j + 1])
      <4>. HIDE DEF y
      <4>. QED BY <3>5, BrDepth
    <3>7. BrStep(Stub[i]) = 0 /\ ~BrMine(Stub[i]) /\ ~BrMine(Stub[i - 1])
      BY <1>7, <3>2 DEF BrStep, BrMine, Br!OpensBrace
    <3>8. BrStep(Stub[i - 1]) = 0 /\ ~BrHead(Stub[i - 1])
      BY <3>3 DEF BrQuiet
    <3>. HIDE DEF y, e
    <3>9. e[1] = 0 /\ e[2] = 0
      <4>1. e[0 + 1] = e[0] + BrStep(y[0 + 1]) /\ e[1 + 1] = e[1] + BrStep(y[1 + 1])
        BY <3>6
      <4>. QED BY <3>5, <3>6, <3>7, <3>8, <4>1
    <3>10. \A j \in 1 .. Len(y) : j = 1 \/ j = 2
      BY <3>5
    <3>11. BrBody(y, A)
      BY <3>5, <3>7, <3>8, <3>9, <3>10 DEF BrBody, e
    <3>. QED BY <1>3, <2>1, <3>1, <3>4, <3>11 DEF y
  <2>. QED BY <2>3, <2>4
<1>8. CASE Stub[i].k = "sig"
  <2>1. /\ i - 1 \in 1 .. n /\ i + 1 \in 1 .. n /\ i + 2 \in 1 .. n
        /\ Stub[i - 1].k = "doc" /\ Stub[i + 1].k = "stub" /\ Stub[i + 2].k = "close"
    BY <1>1, <1>8 DEF BrWell
  <2>2. from = i - 1
    <3>1. i > 1 /\ i - 1 # 0
      BY <1>1, <2>1
    <3>. QED BY <1>8, <1>9, <2>1, <3>1 DEF Br!Docs
  <2>3. /\ \A j \in 0 .. n : d[j] \in Int
        /\ \A j \in 0 .. n - 1 : d[j + 1] = d[j] + BrStep(Stub[j + 1])
    BY <1>1, BrDepth DEF d
  <2>4. BrStep(Stub[i + 1]) = 0 /\ BrStep(Stub[i + 2]) = 0 - 1
    BY <2>1 DEF BrStep, Br!OpensBrace
  <2>5. d[i + 1] = d[i] /\ d[i + 2] = d[i] - 1 /\ d[i] \in Int
    <3>1. i \in 0 .. n - 1 /\ i + 1 \in 0 .. n - 1 /\ i \in 0 .. n /\ i + 1 + 1 = i + 2
      BY <1>6, <2>1
    <3>2. d[i + 1] = d[i] + BrStep(Stub[i + 1]) /\ d[i + 1 + 1] = d[i + 1] + BrStep(Stub[i + 1 + 1])
      BY <2>3, <3>1
    <3>3. d[i] \in Int
      BY <2>3, <3>1
    <3>. QED BY <2>4, <3>1, <3>2, <3>3
  <2>6. close = i + 2
    <3>1. close = FirstOf(back, i + 1, Stub)
      BY <1>4, <1>5, <1>6, <1>8
    <3>2. i + 2 \in back /\ i + 1 \notin back /\ back \in SUBSET (1 .. n)
      BY <1>5, <2>1, <2>5
    <3>. HIDE DEF back
    <3>3. close \in Nat /\ ((close \in back /\ close >= i + 1) \/ close = n + 1) /\ close <= i + 2
      <4>1. i + 1 \in Nat /\ i + 2 >= i + 1
        BY <1>6
      <4>. QED BY <1>1, <3>1, <3>2, <4>1, FirstOfIs
    <3>4. close # i + 1
      <4>1. i + 2 <= n
        BY <1>1, <2>1
      <4>. QED BY <1>6, <3>2, <3>3, <4>1
    <3>5. i + 2 <= n
      BY <1>1, <2>1
    <3>. QED BY <1>1, <1>6, <3>3, <3>4, <3>5
  <2> DEFINE y == SubSeq(Stub, i - 1, i + 2)
             e == Br!Depth(y)
  <2>7. /\ y \in Seq(BrLine) /\ Len(y) = 4
        /\ y[1] = Stub[i - 1] /\ y[2] = Stub[i] /\ y[3] = Stub[i + 1] /\ y[4] = Stub[i + 2]
    <3>1. i - 1 \in Int /\ i + 2 \in Int /\ i - 1 <= i + 2 + 1
          /\ \A j \in i - 1 .. i + 2 : Stub[j] \in BrLine
      BY <1>6, <2>1
    <3>2. /\ y \in Seq(BrLine) /\ Len(y) = i + 2 - (i - 1) + 1
          /\ \A j \in 1 .. i + 2 - (i - 1) + 1 : y[j] = Stub[i - 1 + j - 1]
      BY <3>1, SubSeqProperties
    <3>3. i + 2 - (i - 1) + 1 = 4 /\ i - 1 + 1 - 1 = i - 1 /\ i - 1 + 2 - 1 = i
          /\ i - 1 + 3 - 1 = i + 1 /\ i - 1 + 4 - 1 = i + 2
      BY <1>6
    <3>. HIDE DEF y
    <3>. QED BY <3>2, <3>3
  <2>8. e[0] = 0 /\ \A j \in 0 .. 4 - 1 : e[j + 1] = e[j] + BrStep(y[j + 1])
    <3>. HIDE DEF y
    <3>. QED BY <2>7, BrDepth
  <2>9. /\ BrStep(Stub[i - 1]) = 0 /\ BrStep(Stub[i]) = 1
        /\ ~BrMine(Stub[i - 1]) /\ ~BrMine(Stub[i]) /\ ~BrMine(Stub[i + 1]) /\ ~BrMine(Stub[i + 2])
        /\ ~BrHead(Stub[i - 1]) /\ ~BrHead(Stub[i + 1]) /\ ~BrHead(Stub[i + 2])
    BY <1>8, <2>1 DEF BrStep, BrMine, BrHead, Br!OpensBrace
  <2>. HIDE DEF y, e
  <2>10. e[1] = 0 /\ e[2] = 1 /\ e[3] = 1 /\ e[4] = 0
    <3>1. /\ e[0 + 1] = e[0] + BrStep(y[0 + 1]) /\ e[1 + 1] = e[1] + BrStep(y[1 + 1])
          /\ e[2 + 1] = e[2] + BrStep(y[2 + 1]) /\ e[3 + 1] = e[3] + BrStep(y[3 + 1])
      BY <2>8
    <3>. QED BY <2>4, <2>7, <2>8, <2>9, <3>1
  <2>11. \A j \in 1 .. Len(y) : j = 1 \/ j = 2 \/ j = 3 \/ j = 4
    BY <2>7
  <2>12. BrBody(y, A)
    BY <2>7, <2>9, <2>10, <2>11 DEF BrBody, e
  <2>. QED BY <1>3, <2>2, <2>6, <2>12 DEF y
<1>. QED BY <1>7, <1>8

LEMMA BrStubBlock ==
  ASSUME family \in Braces, NEW n
  PROVE  BrBody(Br!MethodBlock(Stub, n), {n})
<1> DEFINE N == Len(Stub)
           named == {i \in 1 .. N : Stub[i].k \in {"sig", "sig1", "head", "quotesig", "torn"} /\ Stub[i].n = n}
           a == FirstOf(named, 1, Stub)
<1>1. Stub \in Seq(BrStubLine) /\ N \in Nat /\ DOMAIN Stub = 1 .. N
  BY BrStub
<1>2. Br!MethodBlock(Stub, n) = IF a > N THEN <<>> ELSE Br!DocAndBlock(Stub, a)
  BY <1>1, BrLines DEF Br!MethodBlock, Br!Named, Br!Where
<1>3. a \in named \/ a = N + 1
  <2>1. named \in SUBSET (1 .. N)
    OBVIOUS
  <2>. HIDE DEF named
  <2>. QED BY <1>1, <2>1, FirstOfIs
<1>. HIDE DEF a
<1>4. CASE a = N + 1
  <2>1. Br!MethodBlock(Stub, n) = <<>>
    BY <1>1, <1>2, <1>4
  <2>2. <<>> \in Seq(BrQuiet)
    OBVIOUS
  <2>. QED BY <2>1, <2>2, BrQuietBody
<1>5. CASE a \in named
  <2>1. a \in 1 .. N /\ Stub[a].n = n /\ ~(a > N)
    BY <1>1, <1>5
  <2>2. Stub[a] \in BrStubLine
    BY <1>1, <2>1
  <2>3. Stub[a].k \in {"sig", "sig1"}
    BY <1>5, <2>2 DEF BrStubLine
  <2>. QED BY <1>2, <2>1, <2>3, BrMethod
<1>. QED BY <1>3, <1>4, <1>5

(* The doc of a method of the stub                                         *)
LEMMA BrDocOf ==
  ASSUME family \in Braces, NEW n
  PROVE  Br!Kept(Br!MethodBlock(Stub, n), LAMBDA l : l.k = "doc") \in Seq(BrQuiet)
<1> DEFINE b == Br!MethodBlock(Stub, n)
           K == {i \in DOMAIN b : b[i].k = "doc"}
<1>1. b \in Seq(BrLine)
  BY BrStubBlock DEF BrBody
<1>. HIDE DEF b
<1>2. Br!Kept(b, LAMBDA l : l.k = "doc") = Picked(b, K)
  BY BrLines DEF Br!Kept, Br!Where
<1>3. ASSUME NEW i \in 1 .. Len(b), i \in K PROVE b[i] \in BrQuiet
  <2>1. b[i].k = "doc" /\ b[i] \in BrLine
    BY <1>1, <1>3
  <2>. QED BY <2>1 DEF BrQuiet, BrStep, BrHead, Br!OpensBrace
<1>. HIDE DEF K
<1>4. Picked(b, K) \in Seq(BrQuiet)
  BY <1>1, <1>3, PickedType
<1>. QED BY <1>2, <1>4 DEF b

LEMMA BrLikeBodies ==
  ASSUME NEW A, NEW s, NEW r, <<s, r>> \in BrLike(A),
         NEW ss, ss \in Seq(Seq(BrLine)), \A i \in 1 .. Len(ss) : BrBody(ss[i], A)
  PROVE  <<s, r \o FlattenSeq(ss)>> \in BrLike(A)
<1> DEFINE P == {x \in Seq(BrLine) : <<s, x>> \in BrLike(A)}
<1>1. r \in P /\ r \in Seq(BrLine)
  BY BrLikeIs
<1>2. ASSUME NEW i \in 1 .. Len(ss), NEW x \in Seq(BrLine), NEW c \in Seq(BrLine), x \in P, c = ss[i]
      PROVE  x \o c \in P
  <2>1. <<s, x \o c>> \in BrLike(A)
    BY <1>2, BrLikeBody
  <2>. QED BY <2>1, BrLikeIs
<1>. HIDE DEF P
<1>3. r \o FlattenSeq(ss) \in P
  BY <1>1, <1>2, FlatOnto
<1>. QED BY <1>3 DEF P

(* What a merge adds: imports before the class, methods before its end     *)
LEMMA BrGrown ==
  ASSUME family \in Braces, NEW A \in SUBSET Method, NEW t \in Seq(BrLine),
         ~Br!MergeFails(family, t, A)
  PROVE  <<t, Br!Grown(family, t, Stub, A)>> \in BrLike(A)
<1> DEFINE S == Br!MissingFrom(family, t, A)
           N == Len(StubOrder)
           B(n) == IF n \in S THEN Br!MethodBlock(Stub, n) ELSE <<>>
           ss == [n \in 1 .. N |-> B(n)]
           extras == FlattenSeq(ss)
           needed == IF family = "java" THEN Br!NeededImports(t, Stub, extras) ELSE <<>>
           a == Br!ClassStart(t)
           close == Br!ClassClose(t)
           b == Before(t, a)
           m == SubSeq(t, a, close - 1)
           c == After(t, close)
           R == BrLike(A)
<1>1. N \in Nat /\ DOMAIN StubOrder = 1 .. N
  BY MethodsAreNumbers
<1>2. Br!Grown(family, t, Stub, A) = IF extras = <<>> THEN t ELSE b \o needed \o m \o extras \o c
  BY <1>1, BrLines DEF Br!Grown, Br!Blocks
<1>3. S \subseteq A
  BY DEF Br!MissingFrom
<1>4. ASSUME NEW n \in 1 .. N PROVE BrBody(B(n), A)
  <2>1. CASE n \in S
    <3>1. BrBody(Br!MethodBlock(Stub, n), {n}) /\ {n} \cap Method \subseteq A
      BY <1>3, <2>1, BrStubBlock
    <3>. HIDE DEF S
    <3>. QED BY <2>1, <3>1, BrBodyMore
  <2>2. CASE n \notin S
    <3>1. <<>> \in Seq(BrQuiet)
      OBVIOUS
    <3>2. BrBody(<<>>, A)
      BY <3>1, BrQuietBody
    <3>. HIDE DEF S
    <3>. QED BY <2>2, <3>2
  <2>. QED BY <2>1, <2>2
<1>. HIDE DEF S, B
<1>5. ss \in Seq(Seq(BrLine)) /\ Len(ss) = N /\ \A i \in 1 .. N : BrBody(ss[i], A)
  <2>1. ss \in [1 .. N -> Seq(BrLine)]
    BY <1>4 DEF BrBody
  <2>2. \A i \in 1 .. N : ss[i] = B(i)
    OBVIOUS
  <2>. HIDE DEF ss
  <2>3. ss \in Seq(Seq(BrLine)) /\ Len(ss) = N
    BY <1>1, <2>1, MakeSeq
  <2>. QED BY <1>4, <2>2, <2>3
<1>6. CASE extras = <<>>
  BY <1>2, <1>6, BrLikeSelf
<1>7. CASE extras # <<>>
  <2>1. S # {}
    <3>1. ASSUME S = {} PROVE extras = <<>>
      <4>1. \A i \in 1 .. N : ss[i] = <<>>
        BY <3>1 DEF B
      <4>. HIDE DEF ss
      <4>2. ss \in Seq(Seq({}))
        <5>1. \A i \in 1 .. Len(ss) : ss[i] \in Seq({})
          BY <1>5, <4>1
        <5>. QED BY <1>5, <5>1, Sieved
      <4>3. extras \in Seq({})
        BY <4>2, FlatType
      <4>4. Len(extras) = 0
        <5>1. SUFFICES ASSUME Len(extras) # 0 PROVE FALSE
          OBVIOUS
        <5>2. 1 \in 1 .. Len(extras)
          BY <4>3, <5>1
        <5>3. extras[1] \in {}
          BY <4>3, <5>2, ElementOfSeq
        <5>. QED BY <5>3
      <4>. QED BY <4>3, <4>4
    <3>. QED BY <1>7, <3>1
  <2>2. Br!HasSpan(t)
    BY <2>1 DEF Br!MergeFails, S
  <2>3. a \in 1 .. Len(t) + 1 /\ close \in a + 1 .. Len(t) /\ Len(t) \in Nat
    BY <2>2, BrScan
  <2>. HIDE DEF a, close, ss
  <2>4. close \in 1 .. Len(t) + 1 /\ a \in 1 .. close
    BY <2>3
  <2>5. b \in Seq(BrLine) /\ m \in Seq(BrLine) /\ c \in Seq(BrLine) /\ t = (b \o m) \o c
    BY <2>3, <2>4, CutType, CutTwice, CutWhole
  <2>6. needed \in Seq(BrQuiet)
    <3>1. CASE family = "java"
      <4> DEFINE K == {i \in DOMAIN Stub :
                         /\ Stub[i].k = "import" /\ \E j \in DOMAIN extras : extras[j].n = Stub[i].n
                         /\ \A j \in DOMAIN t : t[j] # Stub[i]}
      <4>1. needed = Picked(Stub, K)
        BY <3>1, BrLines DEF Br!NeededImports, Br!Kept, Br!Where
      <4>2. Stub \in Seq(BrLine)
        BY BrStub
      <4>3. ASSUME NEW i \in 1 .. Len(Stub), i \in K PROVE Stub[i] \in BrQuiet
        <5>1. Stub[i].k = "import" /\ Stub[i] \in BrLine
          BY <4>2, <4>3
        <5>. QED BY <5>1 DEF BrQuiet, BrStep, BrHead, Br!OpensBrace
      <4>. HIDE DEF K
      <4>4. Picked(Stub, K) \in Seq(BrQuiet)
        BY <4>2, <4>3, PickedType
      <4>. QED BY <4>1, <4>4
    <3>2. CASE family # "java"
      BY <3>2
    <3>. QED BY <3>1, <3>2
  <2>. HIDE DEF b, m, c, needed, extras, R
  <2>7. <<b, b \o needed>> \in R
    BY <2>5, <2>6, BrLikeSelf, BrLikeBody, BrQuietBody DEF R
  <2>8. \A s, r \in Seq(BrLine), l \in BrLine : <<s, r>> \in R => <<Append(s, l), Append(r, l)>> \in R
    BY BrLikeSame DEF R
  <2>9. b \o needed \in Seq(BrLine)
    BY <2>7, BrLikeIs DEF R
  <2>10. <<b \o m, b \o needed \o m>> \in R
    BY <2>5, <2>7, <2>8, <2>9, SameTail
  <2>11. <<b \o m, b \o needed \o m \o extras>> \in R
    BY <1>5, <2>10, BrLikeBodies DEF R, extras
  <2>12. b \o m \in Seq(BrLine) /\ b \o needed \o m \o extras \in Seq(BrLine)
    BY <2>11, BrLikeIs DEF R
  <2>13. <<(b \o m) \o c, b \o needed \o m \o extras \o c>> \in R
    BY <2>5, <2>8, <2>11, <2>12, SameTail
  <2>. QED BY <1>2, <1>7, <2>5, <2>13 DEF R
<1>. QED BY <1>6, <1>7

LEMMA BrInjected ==
  ASSUME family = "java", NEW A, NEW t \in Seq(BrLine)
  PROVE  <<t, Br!InjectDocs(t, Stub, A)>> \in BrLike(A)
<1> DEFINE n == Len(t)
           Place(m) == Br!FirstOf(Br!Named(t, m), 1, t)
           Doc(m) == Br!Kept(Br!MethodBlock(Stub, m), LAMBDA l : l.k = "doc")
           Of(i) == {m \in A : Place(m) = i}
           From(b) == {m \in A : Place(m) <= n /\ Br!DocLine(t, Place(m)) = b}
           Old == {b \in 1 .. n : t[b].k = "olddoc" /\ From(b) # {}}
           torn == Br!Line(1, "torn", 0)
           NewDoc(b) == IF \E m \in A : From(b) = {m} THEN Doc(CHOOSE m \in From(b) : TRUE)
                        ELSE <<torn>>
           gone == {i \in 1 .. n : \E b \in Old : b < i /\ \A j \in b .. i : ~Br!IsPublic(t[j])}
           M(i) == IF i \in Old THEN NewDoc(i)
                   ELSE IF i \in gone THEN <<>>
                   ELSE IF Of(i) # {} /\ Br!DocLine(t, i) = 0
                   THEN IF t[i].k = "quotesig" THEN <<[t[i] EXCEPT !.k = "torn"]>>
                        ELSE Doc(CHOOSE m \in Of(i) : TRUE) \o <<t[i]>>
                   ELSE <<t[i]>>
           ss == [i \in 1 .. n |-> M(i)]
           R == BrLike(A)
<1>1. n \in Nat /\ DOMAIN t = 1 .. n /\ \A i \in 1 .. n : t[i] \in BrLine
  OBVIOUS
<1>2. Br!InjectDocs(t, Stub, A) = FlattenSeq(ss)
  <2>1. Br!InjectDocs(t, Stub, A) = Br!FlattenSeq(ss)
    BY <1>1 DEF Br!InjectDocs
  <2>. HIDE DEF ss
  <2>. QED BY <2>1, BrLines
<1>9. gone = {}
  <2>1. ASSUME NEW b \in Old PROVE b + 1 \in 1 .. n /\ Br!IsPublic(t[b + 1])
    <3>1. PICK m \in A : Place(m) <= n /\ Br!DocLine(t, Place(m)) = b
      BY <2>1
    <3> DEFINE named == {i \in 1 .. n : t[i].k \in {"sig", "sig1", "head", "quotesig", "torn"}
                                       /\ t[i].n = m}
               i == FirstOf(named, 1, t)
    <3>2. Place(m) = i
      BY <1>1, BrLines DEF Br!Named, Br!Where
    <3>3. i \in named
      <4>1. named \in SUBSET (1 .. n)
        OBVIOUS
      <4>. HIDE DEF named
      <4>2. i \in named \/ i = n + 1
        BY <1>1, <4>1, FirstOfIs
      <4>. HIDE DEF i
      <4>. QED BY <1>1, <3>1, <3>2, <4>2
    <3>. HIDE DEF i, Place
    <3>4. i \in Nat /\ i > 0 /\ i \in 1 .. n
      BY <1>1, <3>3
    <3>5. \A j \in 1 .. i - 1 : t[j].k # "rem"
      <4>1. \A j \in 1 .. i - 1 : t[j] \in BrLine
        BY <1>1, <3>4
      <4>. QED BY <4>1 DEF BrLine
    <3>6. Br!DocLine(t, i) =
            IF t[i].k = "torn" THEN i
            ELSE IF t[i].k # "quotesig" /\ i > 1 /\ t[i - 1].k \in Br!Docs THEN i - 1
            ELSE 0
      BY <3>4, <3>5, BrDocLine
    <3>7. b \in 1 .. n /\ t[b].k = "olddoc" /\ Br!DocLine(t, i) = b
      BY <2>1, <3>1, <3>2
    <3>8. i = b + 1
      BY <1>1, <3>4, <3>6, <3>7
    <3>9. Br!IsPublic(t[i])
      BY <3>3 DEF Br!IsPublic
    <3>. QED BY <3>4, <3>8, <3>9
  <2>2. \A b \in Old : b \in 1 .. n
    OBVIOUS
  <2>. HIDE DEF Old
  <2>3. ASSUME NEW i \in gone PROVE FALSE
    <3>1. PICK b \in Old : i \in 1 .. n /\ b < i /\ \A j \in b .. i : ~Br!IsPublic(t[j])
      BY <2>3
    <3>2. b + 1 \in b .. i
      BY <1>1, <2>2, <3>1
    <3>. QED BY <2>1, <3>1, <3>2
  <2>. QED BY <2>3
<1>10. torn \in BrQuiet
  <2>1. torn = Line(1, "torn", 0)
    BY BrLines
  <2>2. "torn" \in Kinds("js")
    BY DEF Kinds, Braces
  <2>3. torn \in LinesOf(Kinds("js")) /\ torn.k = "torn"
    <3>1. 1 \in Nat /\ 0 \in Method \cup {0, Own, Ctor}
      OBVIOUS
    <3>. HIDE DEF torn
    <3>. QED BY <2>1, <2>2, <3>1, LineIs
  <2>. HIDE DEF torn
  <2>4. torn \in BrLine
    BY <2>3 DEF BrLine, Fine
  <2>5. BrStep(torn) = 0 /\ ~BrHead(torn)
    BY <2>3 DEF BrStep, BrHead, Br!OpensBrace
  <2>. QED BY <2>4, <2>5 DEF BrQuiet
<1>12. family \in Braces
  BY DEF Braces
<1>3. \A m : Doc(m) \in Seq(BrQuiet)
  BY <1>12, BrDocOf
<1>11. \A b : NewDoc(b) \in Seq(BrQuiet)
  <2>. HIDE DEF Doc, torn
  <2>1. <<torn>> \in Seq(BrQuiet)
    BY <1>10
  <2>. QED BY <1>3, <2>1
<1>. HIDE DEF Of, Doc, NewDoc, gone
<1>4. ASSUME NEW i \in 1 .. n
      PROVE  /\ M(i) \in Seq(BrLine)
             /\ \A s, r \in Seq(BrLine) : <<s, r>> \in R => <<Append(s, t[i]), r \o M(i)>> \in R
  <2> DEFINE l == t[i]
             x == M(i)
  <2>1. l \in BrLine
    BY <1>1
  <2>2. \/ l.k = "quotesig" /\ x = <<[l EXCEPT !.k = "torn"]>>
        \/ \E m : x = Doc(m) \o <<l>>
        \/ l.k = "olddoc" /\ x = NewDoc(i)
        \/ x = <<l>>
    BY <1>9
  <2>. HIDE DEF x, R, l
  <2>3. CASE l.k = "quotesig" /\ x = <<[l EXCEPT !.k = "torn"]>>
    <3> DEFINE y == [l EXCEPT !.k = "torn"]
    <3>1. y \in BrLine /\ y.k = "torn"
      <4>1. l \in LinesOf(Kinds("js"))
        BY <2>1 DEF BrLine, Fine
      <4>2. "torn" \in Kinds("js")
        BY DEF Kinds, Braces
      <4>3. y \in LinesOf(Kinds("js")) /\ y.k = "torn"
        BY <4>1, <4>2 DEF LinesOf
      <4>. HIDE DEF y
      <4>. QED BY <4>3 DEF BrLine, Fine
    <3>2. y \in BrQuiet
      <4>. HIDE DEF y
      <4>. QED BY <3>1 DEF BrQuiet, BrStep, BrHead, Br!OpensBrace
    <3>. HIDE DEF y
    <3>3. x \in Seq(BrQuiet) /\ x \in Seq(BrLine)
      BY <2>3, <3>1, <3>2 DEF y
    <3>4. BrBody(x, IF BrHead(l) THEN {l.n} \cap Method ELSE {})
      BY <3>3, BrQuietBody
    <3>5. BrStep(l) = 0
      BY <2>3 DEF BrStep, Br!OpensBrace
    <3>6. \A s, r \in Seq(BrLine) : <<s, r>> \in R => <<Append(s, l), r \o x>> \in R
      BY <2>1, <3>4, <3>5, BrLikeSwap DEF R
    <3>. QED BY <3>3, <3>6 DEF x, l
  <2>4. CASE \E m : x = Doc(m) \o <<l>>
    <3>1. PICK z \in Seq(BrQuiet) : x = z \o <<l>>
      BY <1>3, <2>4
    <3>2. z \in Seq(BrLine) /\ BrBody(z, A)
      BY BrQuietBody DEF BrBody
    <3>3. x \in Seq(BrLine)
      BY <2>1, <3>1, <3>2
    <3>4. ASSUME NEW s \in Seq(BrLine), NEW r \in Seq(BrLine), <<s, r>> \in R
          PROVE  <<Append(s, l), r \o x>> \in R
      <4>1. <<s, r \o z>> \in R
        BY <3>2, <3>4, BrLikeBody DEF R
      <4>2. <<Append(s, l), Append(r \o z, l)>> \in R
        BY <2>1, <4>1, BrLikeSame DEF R
      <4>3. r \o Append(z, l) = Append(r \o z, l) /\ z \o <<l>> = Append(z, l)
        BY <2>1, <3>2, AttachLine
      <4>. QED BY <3>1, <4>2, <4>3
    <3>. QED BY <3>3, <3>4 DEF x, l
  <2>5. CASE l.k = "olddoc" /\ x = NewDoc(i)
    <3>1. x \in Seq(BrQuiet)
      BY <1>11, <2>5
    <3>2. BrBody(x, IF BrHead(l) THEN {l.n} \cap Method ELSE {}) /\ x \in Seq(BrLine)
      BY <3>1, BrQuietBody DEF BrBody
    <3>3. BrStep(l) = 0
      BY <2>5 DEF BrStep, Br!OpensBrace
    <3>4. \A s, r \in Seq(BrLine) : <<s, r>> \in R => <<Append(s, l), r \o x>> \in R
      BY <2>1, <3>2, <3>3, BrLikeSwap DEF R
    <3>. QED BY <3>2, <3>4 DEF x, l
  <2>6. CASE x = <<l>>
    <3>1. x \in Seq(BrLine)
      BY <2>1, <2>6
    <3>2. ASSUME NEW s \in Seq(BrLine), NEW r \in Seq(BrLine), <<s, r>> \in R
          PROVE  <<Append(s, l), r \o x>> \in R
      <4>1. <<Append(s, l), Append(r, l)>> \in R
        BY <2>1, <3>2, BrLikeSame DEF R
      <4>. QED BY <2>1, <2>6, <4>1, AttachLine
    <3>. QED BY <3>1, <3>2 DEF x, l
  <2>. QED BY <2>2, <2>3, <2>4, <2>5, <2>6
<1>. HIDE DEF M
<1>5. ss \in Seq(Seq(BrLine)) /\ Len(ss) = n /\ \A i \in 1 .. n : ss[i] = M(i)
  <2>1. \A i \in 1 .. n : ss[i] = M(i)
    OBVIOUS
  <2>2. ss \in [1 .. n -> Seq(BrLine)]
    BY <1>4
  <2>. HIDE DEF ss, n
  <2>. QED BY <1>1, <2>1, <2>2, MakeSeq
<1>. HIDE DEF ss
<1>6. <<<<>>, <<>>>> \in R
  <2>1. <<>> \in Seq(BrLine)
    OBVIOUS
  <2>. QED BY <2>1, BrLikeSelf
<1>7. ASSUME NEW i \in 1 .. Len(t), NEW s \in Seq(BrLine), NEW r \in Seq(BrLine), NEW c \in Seq(BrLine),
             <<s, r>> \in R, c = ss[i]
      PROVE  <<Append(s, t[i]), r \o c>> \in R
  BY <1>4, <1>5, <1>7
<1>. HIDE DEF R
<1>8. <<t, FlattenSeq(ss)>> \in R
  BY <1>5, <1>6, <1>7, FlatSim
<1>. QED BY <1>2, <1>8 DEF R

LEMMA BrMerge ==
  ASSUME family \in Braces, NEW A \in SUBSET Method, NEW t \in Seq(BrLine),
         ~Br!MergeFails(family, t, A)
  PROVE  <<t, Br!Merge(family, t, Stub, A)>> \in BrLike(A)
<1> DEFINE u == Br!Grown(family, t, Stub, A)
<1>1. <<t, u>> \in BrLike(A) /\ u \in Seq(BrLine)
  BY BrGrown, BrLikeIs
<1>2. Br!Merge(family, t, Stub, A) = IF family = "java" THEN Br!InjectDocs(u, Stub, A) ELSE u
  BY DEF Br!Merge
<1>. HIDE DEF u
<1>3. family = "java" => <<u, Br!InjectDocs(u, Stub, A)>> \in BrLike(A)
  BY <1>1, BrInjected
<1>. QED BY <1>1, <1>2, <1>3, BrLikeTwice

LEMMA BrSlice ==
  ASSUME family \in Braces, NEW A \in SUBSET Method
  PROVE  Br!Slice(family, Stub, A) \in Seq(BrLine) /\ Br!Methods(Br!Slice(family, Stub, A)) \subseteq A
<1> DEFINE n == Len(Stub)
           a == Br!ClassStart(Stub)
           B(i) == IF Stub[i].k \in {"sig", "sig1"} /\ Stub[i].n \in A \cup {Ctor}
                   THEN Br!DocAndBlock(Stub, i) ELSE <<>>
           bs == [i \in 1 .. n |-> B(i)]
           body == Br!SlicedMethods(Stub, A)
           before == Before(Stub, a)
           K == {i \in DOMAIN before : before[i].k # "import" \/ \E j \in DOMAIN body : body[j].n = before[i].n}
           pre == IF family = "java" THEN Picked(before, K) ELSE before
           head == Append(pre, Stub[a])
           last == Line(0, "close", 0)
           X == {i \in 1 .. n : Stub[i].k = "export"}
           foot == IF family = "java" THEN <<last>> ELSE <<last>> \o Picked(Stub, X)
           P == {x \in Seq(BrLine) : Br!Methods(x) \subseteq A}
           Rest == {l \in BrLine : ~BrHead(l)}
           Pre == {l \in BrLine : ~BrMine(l)}
<1>1. /\ Stub \in Seq(BrLine) /\ BrIn(Stub) /\ n \in Nat /\ DOMAIN Stub = 1 .. n
      /\ \A i \in 1 .. n : Stub[i] \in BrLine
  BY BrStub
<1>2. a \in 1 .. n /\ \A i \in 1 .. n : BrMine(Stub[i]) => a <= i
  BY <1>1, BrScan DEF BrIn
<1>3. body = FlattenSeq(bs)
  BY <1>1, BrLines DEF Br!SlicedMethods
<1>4. ASSUME NEW i \in 1 .. n PROVE BrBody(B(i), A)
  <2>1. CASE Stub[i].k \in {"sig", "sig1"} /\ Stub[i].n \in A \cup {Ctor}
    <3>1. BrBody(Br!DocAndBlock(Stub, i), {Stub[i].n})
      BY <2>1, BrMethod
    <3>2. {Stub[i].n} \cap Method \subseteq A
      BY <2>1, MethodsAreNumbers
    <3>. QED BY <2>1, <3>1, <3>2, BrBodyMore
  <2>2. CASE ~(Stub[i].k \in {"sig", "sig1"} /\ Stub[i].n \in A \cup {Ctor})
    <3>1. <<>> \in Seq(BrQuiet) /\ B(i) = <<>>
      BY <2>2
    <3>. QED BY <3>1, BrQuietBody
  <2>. QED BY <2>1, <2>2
<1>. HIDE DEF B
<1>5. bs \in Seq(Seq(BrLine)) /\ Len(bs) = n /\ \A i \in 1 .. n : BrBody(bs[i], A)
  <2>1. bs \in [1 .. n -> Seq(BrLine)]
    BY <1>4 DEF BrBody
  <2>2. \A i \in 1 .. n : bs[i] = B(i)
    OBVIOUS
  <2>. HIDE DEF bs, n
  <2>3. bs \in Seq(Seq(BrLine)) /\ Len(bs) = n
    BY <1>1, <2>1, MakeSeq
  <2>. QED BY <1>4, <2>2, <2>3
<1>. HIDE DEF bs, n, a
<1>6. before \in Seq(BrLine) /\ before \in Seq(Pre)
  <2>1. a \in 1 .. Len(Stub) + 1 /\ \A j \in 1 .. a - 1 : j \in 1 .. n /\ ~(a <= j)
    BY <1>1, <1>2 DEF n
  <2>2. before \in Seq(BrLine) /\ Len(before) = a - 1 /\ \A j \in 1 .. a - 1 : before[j] = Stub[j]
    BY <1>1, <2>1, CutType
  <2>. HIDE DEF before
  <2>3. \A j \in 1 .. Len(before) : before[j] \in Pre
    BY <1>1, <1>2, <2>1, <2>2
  <2>. HIDE DEF Pre
  <2>. QED BY <2>2, <2>3, Sieved
<1>7. pre \in Seq(Pre)
  <2>1. \A j \in 1 .. Len(before) : before[j] \in Pre
    BY <1>6, ElementOfSeq
  <2>. HIDE DEF Pre, before, K
  <2>2. Picked(before, K) \in Seq(Pre)
    BY <1>6, <2>1, PickedType
  <2>. QED BY <1>6, <2>2
<1>8. last \in BrLine /\ ~BrHead(last)
  <2>1. "close" \in Kinds("js")
    BY DEF Kinds, Braces
  <2>2. last \in LinesOf(Kinds("js")) /\ last.k = "close"
    BY <2>1, LineIs
  <2>. HIDE DEF last
  <2>. QED BY <2>2 DEF BrLine, Fine, BrHead
<1>9. Picked(Stub, X) \in Seq(Rest)
  <2>1. \A i \in 1 .. n : i \in X => Stub[i] \in Rest
    BY <1>1 DEF BrHead
  <2>. HIDE DEF X, Rest
  <2>. QED BY <1>1, <2>1, PickedType DEF n
<1>10. foot \in Seq(Rest)
  <2>1. <<last>> \in Seq(Rest)
    <3>1. last \in Rest
      BY <1>8
    <3>. HIDE DEF Rest, last
    <3>. QED BY <3>1
  <2>. HIDE DEF Rest, last, X
  <2>. QED BY <1>9, <2>1, ConcatProperties
<1>. HIDE DEF X
<1>11. Br!Slice(family, Stub, A) = head \o body \o foot
  <2>1. pre \o <<Stub[a]>> = head
    <3>1. pre \in Seq(BrLine) /\ Stub[a] \in BrLine
      BY <1>1, <1>2, <1>7, BrNone
    <3>. HIDE DEF pre
    <3>. QED BY <3>1, AttachLine
  <2>2. CASE family = "java"
    <3>1. Br!JavaHeader(Stub, body) = pre \o <<Stub[a]>>
      <4>. HIDE DEF body
      <4>. QED BY <2>2, BrLines DEF Br!JavaHeader, Br!Kept, Br!Where, a
    <3>2. Br!Slice(family, Stub, A) = Br!JavaHeader(Stub, body) \o body \o foot
      BY <2>2, BrLines DEF Br!Slice
    <3>. QED BY <2>1, <3>1, <3>2
  <2>3. CASE family # "java"
    <3>1. Br!JsHeader(Stub) = head
      <4>1. Br!JsHeader(Stub) = SubSeq(Stub, 1, a)
        BY DEF Br!JsHeader, a
      <4>2. a - 1 \in 0 .. Len(Stub) - 1 /\ a - 1 + 1 = a
        BY <1>1, <1>2 DEF n
      <4>3. SubSeq(Stub, 1, a) = Append(SubSeq(Stub, 1, a - 1), Stub[a])
        BY <1>1, <4>2, OneMore
      <4>. QED BY <2>3, <4>1, <4>3 DEF Before
    <3>2. Br!JsFooter(Stub) = foot
      BY <1>1, <2>3, BrLines DEF Br!JsFooter, Br!Kept, Br!Where, X
    <3>3. Br!Slice(family, Stub, A) = Br!JsHeader(Stub) \o body \o Br!JsFooter(Stub)
      BY <2>3 DEF Br!Slice
    <3>. QED BY <3>1, <3>2, <3>3
  <2>. QED BY <2>2, <2>3
<1>12. head \in Seq(BrLine) /\ Br!Methods(head) = {}
  <2>1. pre \in Seq(BrLine) /\ ~BrIn(pre) /\ Br!Methods(pre) = {} /\ Stub[a] \in BrLine
    BY <1>1, <1>2, <1>7, BrNone
  <2>. HIDE DEF pre
  <2>2. Append(pre, Stub[a]) \in Seq(BrLine)
    BY <2>1
  <2>. QED BY <2>1, <2>2, BrNextLine DEF BrHere
<1>. HIDE DEF head, body, foot
<1>13. <<head, head \o body>> \in BrLike(A)
  <2>1. \A i \in 1 .. Len(bs) : BrBody(bs[i], A)
    BY <1>5
  <2>. QED BY <1>3, <1>5, <1>12, <2>1, BrLikeSelf, BrLikeBodies
<1>14. head \o body \in P
  BY <1>12, <1>13, BrLikeIs
<1>15. head \o body \o foot \in P
  <2>1. \A i \in 1 .. Len(foot) : foot[i] \in BrLine /\ ~BrHead(foot[i])
    BY <1>10, ElementOfSeq
  <2>2. foot \in Seq(BrLine)
    <3>. HIDE DEF Rest
    <3>. QED BY <1>10, <2>1, Sieved
  <2>3. ASSUME NEW s \in Seq(BrLine), NEW i \in 1 .. Len(foot), s \in P
        PROVE  Append(s, foot[i]) \in P
    <3>1. Br!Methods(Append(s, foot[i])) = Br!Methods(s)
      BY <2>1, BrNextLine
    <3>2. Append(s, foot[i]) \in Seq(BrLine)
      BY <2>1
    <3>. QED BY <2>3, <3>1, <3>2
  <2>4. head \o body \in Seq(BrLine)
    BY <1>14
  <2>. HIDE DEF P
  <2>. QED BY <1>14, <2>2, <2>3, <2>4, MoreLines
<1>. QED BY <1>11, <1>15

-----------------------------------------------------------------------------
(* Braces: the user's edits                                                *)

(* A body takes the place of each stub's line, and of each stub on a line. *)
LEMMA BrAnswers ==
  ASSUME family \in Braces, NEW t \in Seq(BrLine), NEW answer,
         \A m \in Method \cup {0} : BrBody(answer[m], {m} \cap Method)
  PROVE  <<t, FlattenSeq([i \in 1 .. Len(t) |->
                IF t[i].k = "stub" \/ (family = "js" /\ t[i].k = "sig1" /\ t[i].n \in Method)
                THEN answer[t[i].n] ELSE <<t[i]>>])>> \in BrLike({})
<1> DEFINE n == Len(t)
           M(i) == IF t[i].k = "stub" \/ (family = "js" /\ t[i].k = "sig1" /\ t[i].n \in Method)
                   THEN answer[t[i].n] ELSE <<t[i]>>
           ss == [i \in 1 .. n |-> M(i)]
           R == BrLike({})
<1>1. n \in Nat /\ \A i \in 1 .. n : t[i] \in BrLine
  OBVIOUS
<1>2. ASSUME NEW i \in 1 .. n
      PROVE  /\ M(i) \in Seq(BrLine)
             /\ \A s, r \in Seq(BrLine) : <<s, r>> \in R => <<Append(s, t[i]), r \o M(i)>> \in R
  <2> DEFINE l == t[i]
             x == M(i)
  <2>1. l \in BrLine
    BY <1>1
  <2>2. CASE l.k = "stub" \/ (l.k = "sig1" /\ l.n \in Method /\ family = "js")
    <3>1. x = answer[l.n]
      BY <2>2
    <3>2. l.n \in Method \cup {0} /\ BrStep(l) = 0 /\ (BrHead(l) <=> l.k = "sig1")
      BY <2>1, <2>2 DEF BrLine, Fine, BrStep, BrHead, Br!OpensBrace
    <3>3. l.k = "stub" => l.n = 0
      BY <2>1 DEF BrLine, Fine
    <3>. HIDE DEF x, l, R
    <3>4. BrBody(x, {l.n} \cap Method)
      BY <3>1, <3>2
    <3>5. BrBody(x, IF BrHead(l) THEN {l.n} \cap Method ELSE {})
      <4>1. CASE BrHead(l)
        BY <3>4, <4>1
      <4>2. CASE ~BrHead(l)
        <5>1. l.n = 0
          BY <2>2, <3>2, <3>3, <4>2
        <5>2. {l.n} \cap Method = {}
          BY <5>1, MethodsAreNumbers
        <5>. QED BY <3>4, <4>2, <5>2
      <4>. QED BY <4>1, <4>2
    <3>6. \A s, r \in Seq(BrLine) : <<s, r>> \in R => <<Append(s, l), r \o x>> \in R
      BY <2>1, <3>2, <3>5, BrLikeSwap DEF R
    <3>7. x \in Seq(BrLine)
      BY <3>4 DEF BrBody
    <3>. QED BY <3>6, <3>7 DEF x, l
  <2>3. CASE ~(l.k = "stub" \/ (l.k = "sig1" /\ l.n \in Method /\ family = "js"))
    <3>1. x = <<l>>
      BY <2>3
    <3>. HIDE DEF x, l, R
    <3>2. x \in Seq(BrLine)
      BY <2>1, <3>1
    <3>3. ASSUME NEW s \in Seq(BrLine), NEW r \in Seq(BrLine), <<s, r>> \in R
          PROVE  <<Append(s, l), r \o x>> \in R
      <4>1. <<Append(s, l), Append(r, l)>> \in R
        BY <2>1, <3>3, BrLikeSame DEF R
      <4>. QED BY <2>1, <3>1, <4>1, AttachLine
    <3>. QED BY <3>2, <3>3 DEF x, l
  <2>. QED BY <2>2, <2>3
<1>. HIDE DEF M
<1>3. ss \in Seq(Seq(BrLine)) /\ Len(ss) = n /\ \A i \in 1 .. n : ss[i] = M(i)
  <2>1. \A i \in 1 .. n : ss[i] = M(i)
    OBVIOUS
  <2>2. ss \in [1 .. n -> Seq(BrLine)]
    BY <1>2
  <2>. HIDE DEF ss, n
  <2>. QED BY <1>1, <2>1, <2>2, MakeSeq
<1>. HIDE DEF ss
<1>4. <<<<>>, <<>>>> \in R
  <2>1. <<>> \in Seq(BrLine)
    OBVIOUS
  <2>. QED BY <2>1, BrLikeSelf
<1>5. ASSUME NEW i \in 1 .. Len(t), NEW s \in Seq(BrLine), NEW r \in Seq(BrLine), NEW c \in Seq(BrLine),
             <<s, r>> \in R, c = ss[i]
      PROVE  <<Append(s, t[i]), r \o c>> \in R
  BY <1>2, <1>3, <1>5
<1>. HIDE DEF R
<1>6. <<t, FlattenSeq(ss)>> \in R
  BY <1>3, <1>4, <1>5, FlatSim
<1>. QED BY <1>6 DEF R, ss, M

LEMMA BrDoc ==
  ASSUME NEW t \in Seq(BrLine), NEW i \in 1 .. Len(t), t[i].k = "doc",
         NEW k \in {"olddoc", "mydoc"}
  PROVE  /\ <<t, [t EXCEPT ![i].k = k]>> \in BrLike({})
         /\ <<t, Before(t, i) \o After(t, i + 1)>> \in BrLike({})
<1> DEFINE b == Before(t, i)
           l == t[i]
           c == After(t, i + 1)
           m == [l EXCEPT !.k = k]
           u == [t EXCEPT ![i].k = k]
           R == BrLike({})
<1>1. b \in Seq(BrLine) /\ l \in BrLine /\ c \in Seq(BrLine) /\ t = Append(b, l) \o c
  BY CutLine
<1>2. l.k = "doc" /\ BrStep(l) = 0 /\ ~BrHead(l)
  BY DEF BrStep, BrHead, Br!OpensBrace
<1>3. m \in BrQuiet
  <2>1. l \in LinesOf(Kinds("js")) /\ l.k = "doc"
    BY <1>1 DEF BrLine, Fine
  <2>2. k \in Kinds("js")
    BY DEF Kinds, Braces
  <2>3. m \in LinesOf(Kinds("js")) /\ m.k = k
    BY <2>1, <2>2 DEF LinesOf
  <2>. HIDE DEF m
  <2>4. m \in BrLine
    BY <2>3 DEF BrLine, Fine
  <2>. QED BY <2>3, <2>4 DEF BrQuiet, BrStep, BrHead, Br!OpensBrace
<1>. HIDE DEF m
<1>4. /\ <<>> \in Seq(BrQuiet) /\ <<m>> \in Seq(BrQuiet) /\ m \in BrLine
  BY <1>3 DEF BrQuiet
<1>5. /\ \A s, r : <<s, r>> \in R => <<Append(s, l), r \o <<>>>> \in R
      /\ \A s, r : <<s, r>> \in R => <<Append(s, l), r \o <<m>>>> \in R
  BY <1>1, <1>2, <1>4, BrQuietBody, BrLikeSwap
<1>6. \A s, r \in Seq(BrLine), x \in BrLine : <<s, r>> \in R => <<Append(s, x), Append(r, x)>> \in R
  BY BrLikeSame
<1>7. <<Append(b, l) \o c, b \o c>> \in R
  <2>1. Append(b, l) \in Seq(BrLine) /\ b \o <<>> = b
    BY <1>1
  <2>2. <<Append(b, l), b>> \in R
    BY <1>1, <1>5, <2>1, BrLikeSelf
  <2>. HIDE DEF R, b, c, l
  <2>. QED BY <1>1, <1>6, <2>1, <2>2, SameTail
<1>8. <<t, u>> \in R
  <2>1. \A j \in 1 .. Len(t) : u[j] = IF j = i THEN m ELSE t[j]
    BY DEF m
  <2>2. Len(u) = Len(t) /\ DOMAIN u = 1 .. Len(t) /\ Len(t) \in Nat /\ u = [j \in 1 .. Len(t) |-> u[j]]
    OBVIOUS
  <2>. HIDE DEF u
  <2>3. u \in Seq(BrLine)
    <3>1. \A j \in 1 .. Len(t) : u[j] \in BrLine
      BY <1>4, <2>1
    <3>. QED BY <2>2, <3>1
  <2>4. ASSUME NEW j \in 1 .. Len(t), NEW s \in Seq(BrLine), NEW r \in Seq(BrLine), <<s, r>> \in R
        PROVE  <<Append(s, t[j]), Append(r, u[j])>> \in R
    <3>1. CASE j = i
      <4>1. r \o <<m>> = Append(r, m) /\ u[j] = m /\ t[j] = l
        BY <1>4, <2>1, <3>1, AttachLine
      <4>. QED BY <1>5, <2>4, <4>1
    <3>2. CASE j # i
      <4>1. t[j] \in BrLine /\ u[j] = t[j]
        BY <2>1, <3>2
      <4>. QED BY <1>6, <2>4, <4>1
    <3>. QED BY <3>1, <3>2
  <2>5. <<<<>>, <<>>>> \in R /\ t \in Seq(BrLine)
    <3>1. <<>> \in Seq(BrLine)
      OBVIOUS
    <3>. QED BY <3>1, BrLikeSelf
  <2>. HIDE DEF R
  <2>. QED BY <2>2, <2>3, <2>4, <2>5, PointSim
<1>. QED BY <1>1, <1>7, <1>8

(* Without its last line, a file shows no more.                            *)
LEMMA BrPrefix ==
  ASSUME NEW t \in Seq(BrLine), t # <<>>
  PROVE  /\ Before(t, Len(t)) \in Seq(BrLine)
         /\ Br!Methods(Before(t, Len(t))) \subseteq Br!Methods(t)
<1> DEFINE b == Before(t, Len(t))
           l == t[Len(t)]
           c == After(t, Len(t) + 1)
<1>1. Len(t) \in 1 .. Len(t)
  OBVIOUS
<1>2. b \in Seq(BrLine) /\ l \in BrLine /\ t = Append(b, l) \o c
  BY <1>1, CutLine
<1>3. c = <<>>
  BY <1>1 DEF After
<1>4. t = Append(b, l)
  BY <1>2, <1>3
<1>. HIDE DEF b, l
<1>5. Br!Methods(b) \subseteq Br!Methods(Append(b, l))
  BY <1>2, BrNextLine
<1>. QED BY <1>2, <1>4, <1>5 DEF b

-----------------------------------------------------------------------------
(* Ruby: what a scan of the lines knows                                    *)

LEMMA RbLines ==
  /\ Rb!Method = Method /\ Rb!Own = Own /\ Rb!Ctor = Ctor
  /\ \A in, k, n : Rb!Line(in, k, n) = Line(in, k, n)
  /\ \A S : Rb!Cardinality(S) = Cardinality(S)
  /\ \A ss : Rb!FlattenSeq(ss) = FlattenSeq(ss)
  /\ \A S, i, t : Rb!FirstOf(S, i, t) = FirstOf(S, i, t)
  /\ \A t, S : Rb!Picked(t, S) = Picked(t, S)
  /\ \A t, i : Rb!Before(t, i) = Before(t, i) /\ Rb!After(t, i) = After(t, i)
  /\ \A n, f : Rb!Visited(n, f) = Visited(n, f)
<1>1. Rb!Method = Method /\ Rb!Own = Own /\ Rb!Ctor = Ctor
  BY DEF Rb!Method, Method, Rb!Own, Own, Rb!Ctor, Ctor
<1>2. \A in, k, n : Rb!Line(in, k, n) = Line(in, k, n)
  BY DEF Rb!Line, Line
<1>3. \A S : Rb!Cardinality(S) = Cardinality(S)
  BY DEF Rb!Cardinality, Cardinality
<1>4. \A ss : Rb!FlattenSeq(ss) = FlattenSeq(ss)
  BY DEF Rb!FlattenSeq, FlattenSeq
<1>5. \A S : Rb!Min(S) = Min(S)
  BY DEF Rb!Min, Min
<1>6. \A S, i, t : Rb!FirstOf(S, i, t) = FirstOf(S, i, t)
  BY <1>5 DEF Rb!FirstOf, FirstOf
<1>7. \A t, S : Rb!Picked(t, S) = Picked(t, S)
  BY <1>4 DEF Rb!Picked, Picked
<1>8. \A t, i : Rb!Before(t, i) = Before(t, i) /\ Rb!After(t, i) = After(t, i)
  BY DEF Rb!Before, Before, Rb!After, After
<1>9. \A n, f : Rb!Visited(n, f) = Visited(n, f)
  BY DEF Rb!Visited, Visited
<1>. QED BY <1>1, <1>2, <1>3, <1>4, <1>6, <1>7, <1>8, <1>9

RbLine == Fine("rb")

LEMMA RbLineIs ==
  /\ family = "rb" => Fine(family) = RbLine
  /\ \A l \in RbLine : l.in \in Nat /\ l.n \in Method \cup {0, Own, Ctor} /\ l.k \in Kinds("rb")
BY DEF RbLine, Fine, Braces, Kinds, LinesOf

(* Where the next line stands: in code, a comment or a heredoc             *)
RbModes == {"code", "rem", "here"}

RbTurn(m, l) ==
  IF m = "code" THEN (IF l.k = "begin" THEN "rem" ELSE IF l.k = "here" THEN "here" ELSE "code")
  ELSE IF m = "rem" THEN (IF l.k = "fin" THEN "code" ELSE "rem")
  ELSE (IF l.k = "term" THEN "code" ELSE "here")

RbRun(t, f) == /\ f \in [0 .. Len(t) -> RbModes] /\ f[0] = "code"
               /\ \A i \in 1 .. Len(t) : f[i] = RbTurn(f[i - 1], t[i])

RbAt(t) == CHOOSE f : RbRun(t, f)

RbMode(t) == RbAt(t)[Len(t)]

LEMMA RbRuns ==
  ASSUME NEW t \in Seq(RbLine)
  PROVE  RbRun(t, RbAt(t)) /\ RbMode(t) \in RbModes
<1> DEFINE n == Len(t)
           turn == [i \in 1 .. n |-> [m \in RbModes |-> RbTurn(m, t[i])]]
<1>1. n \in Nat
  OBVIOUS
<1>2. turn \in [1 .. n -> [RbModes -> RbModes]]
  BY DEF RbModes, RbTurn
<1>3. \A m \in RbModes, i \in 1 .. n : turn[i][m] = RbTurn(m, t[i])
  OBVIOUS
<1>4. "code" \in RbModes
  BY DEF RbModes
<1> DEFINE code == "code"
<1>. HIDE DEF turn, n, code
<1>5. PICK f : IsRun(f, n, RbModes, code, turn)
  <2>1. code \in RbModes
    BY <1>4 DEF code
  <2>. QED BY <1>1, <1>2, <2>1, RunExists
<1>6. \A i \in 1 .. n : f[i - 1] \in RbModes
  BY <1>1, <1>5 DEF IsRun
<1>7. RbRun(t, f)
  BY <1>3, <1>5, <1>6 DEF RbRun, IsRun, n, code
<1>8. RbRun(t, RbAt(t))
  BY <1>7 DEF RbAt
<1>9. n \in 0 .. n
  BY <1>1
<1>. QED BY <1>8, <1>9 DEF RbRun, RbMode, n

LEMMA RbRunMore ==
  ASSUME NEW t \in Seq(RbLine), NEW l \in RbLine
  PROVE  /\ \A i \in 0 .. Len(t) : RbAt(Append(t, l))[i] = RbAt(t)[i]
         /\ RbMode(Append(t, l)) = RbTurn(RbMode(t), l)
<1> DEFINE u == Append(t, l)
           n == Len(t)
           f == RbAt(t)
           g == RbAt(u)
           N == {i \in 0 .. n : g[i] = f[i]}
<1>1. n \in Nat /\ u \in Seq(RbLine) /\ Len(u) = n + 1 /\ u[n + 1] = l /\ \A i \in 1 .. n : u[i] = t[i]
  OBVIOUS
<1>2. f[0] = "code" /\ \A i \in 1 .. n : f[i] = RbTurn(f[i - 1], t[i])
  BY RbRuns DEF RbRun
<1>3. g[0] = "code" /\ \A i \in 1 .. n + 1 : g[i] = RbTurn(g[i - 1], u[i])
  <2>. HIDE DEF u
  <2>. QED BY <1>1, RbRuns DEF RbRun
<1>4. RbMode(t) = f[n] /\ RbMode(u) = g[n + 1]
  BY <1>1 DEF RbMode
<1>. HIDE DEF u, n, f, g
<1>5. 0 \in N
  BY <1>1, <1>2, <1>3
<1>6. ASSUME NEW i \in 0 .. n - 1, i \in N PROVE i + 1 \in N
  <2>1. i + 1 \in 1 .. n /\ i + 1 \in 1 .. n + 1 /\ i + 1 \in 0 .. n /\ i + 1 - 1 = i /\ g[i] = f[i]
    BY <1>1, <1>6
  <2>2. g[i + 1] = RbTurn(g[i], u[i + 1]) /\ f[i + 1] = RbTurn(f[i], t[i + 1])
    BY <1>2, <1>3, <2>1
  <2>. QED BY <1>1, <2>1, <2>2
<1>7. 0 .. n \subseteq N
  <2>. HIDE DEF N
  <2>. QED BY <1>1, <1>5, <1>6, Induct
<1>8. g[n + 1] = RbTurn(g[n], l) /\ g[n] = f[n]
  <2>1. n + 1 \in 1 .. n + 1 /\ n + 1 - 1 = n /\ n \in 0 .. n
    BY <1>1
  <2>. QED BY <1>1, <1>3, <1>7, <2>1
<1>. QED BY <1>4, <1>7, <1>8 DEF u, n, f, g

(* The lines of a comment or heredoc end where the scan goes on.           *)
LEMMA RbSkip ==
  ASSUME NEW t \in Seq(RbLine), NEW i \in 1 .. Len(t), NEW m \in {"rem", "here"}, NEW S,
         RbAt(t)[i] = m,
         S = {j \in 1 .. Len(t) : t[j].k = (IF m = "rem" THEN "fin" ELSE "term")}
  PROVE  LET c == FirstOf(S, i + 1, t)
         IN /\ c \in i + 1 .. Len(t) + 1
            /\ \A j \in i .. c - 1 : RbAt(t)[j] = m
            /\ c <= Len(t) => RbAt(t)[c] = "code"
<1> DEFINE n == Len(t)
           f == RbAt(t)
           c == FirstOf(S, i + 1, t)
           N == {k \in 0 .. c - 1 - i : f[i + k] = m}
<1>1. n \in Nat /\ S \in SUBSET (1 .. n) /\ i + 1 \in Nat
  OBVIOUS
<1>2. /\ c \in Nat /\ ((c \in S /\ c >= i + 1) \/ c = n + 1)
      /\ \A j \in S : j >= i + 1 => c <= j
  BY <1>1, FirstOfIs
<1>3. \A j \in 1 .. n : f[j] = RbTurn(f[j - 1], t[j])
  BY RbRuns DEF RbRun
<1>4. f[i] = m
  OBVIOUS
<1>. HIDE DEF c, f
<1>5. c \in i + 1 .. n + 1
  BY <1>1, <1>2
<1>6. \A j \in i + 1 .. c - 1 : j \in 1 .. n /\ j \notin S /\ f[j] = RbTurn(f[j - 1], t[j])
  BY <1>1, <1>2, <1>3, <1>5
<1>7. \A j \in i + 1 .. c - 1 : RbTurn(m, t[j]) = m
  BY <1>6 DEF RbTurn
<1>8. c - 1 - i \in N /\ 0 .. c - 1 - i \subseteq N
  <2>1. 0 \in N
    <3>1. 0 \in 0 .. c - 1 - i /\ i + 0 = i
      BY <1>5
    <3>. QED BY <1>4, <3>1
  <2>2. ASSUME NEW k \in 0 .. c - 1 - i - 1, k \in N PROVE k + 1 \in N
    <3>1. i + k + 1 \in i + 1 .. c - 1 /\ i + k + 1 - 1 = i + k /\ k + 1 \in 0 .. c - 1 - i
          /\ i + (k + 1) = i + k + 1
      BY <1>5
    <3>2. f[i + k + 1] = RbTurn(f[i + k], t[i + k + 1]) /\ f[i + k] = m
      BY <1>6, <2>2, <3>1
    <3>. QED BY <1>7, <3>1, <3>2
  <2>3. c - 1 - i \in Nat
    BY <1>5
  <2>. HIDE DEF N
  <2>. QED BY <2>1, <2>2, <2>3, Induct
<1>9. \A j \in i .. c - 1 : f[j] = m
  <2>1. \A j \in i .. c - 1 : j - i \in 0 .. c - 1 - i /\ i + (j - i) = j
    BY <1>5
  <2>. QED BY <1>8, <2>1
<1>10. c <= n => f[c] = "code"
  <2>1. ASSUME c <= n PROVE f[c] = "code"
    <3>1. c \in S /\ c \in 1 .. n /\ c - 1 \in i .. c - 1
      BY <1>1, <1>2, <1>5, <2>1
    <3>2. f[c] = RbTurn(m, t[c])
      BY <1>3, <1>9, <3>1
    <3>. QED BY <3>1, <3>2 DEF RbTurn
  <2>. QED BY <2>1
<1>. QED BY <1>5, <1>9, <1>10 DEF c, f

LEMMA RbCode ==
  ASSUME NEW t \in Seq(RbLine)
  PROVE  Rb!Code(t) = {i \in 1 .. Len(t) : RbAt(t)[i - 1] = "code" /\ t[i].k \notin {"begin", "com"}}
<1> DEFINE n == Len(t)
           f == RbAt(t)
           fins == {i \in DOMAIN t : t[i].k = "fin"}
           terms == {i \in DOMAIN t : t[i].k = "term"}
           J(i) == CASE t[i].k = "begin" -> FirstOf(fins, i, t) + 1
                     [] t[i].k = "here" -> FirstOf(terms, i + 1, t) + 1
                     [] OTHER -> i + 1
           Jump == [i \in DOMAIN t |-> J(i)]
           W == {i \in 1 .. n : f[i - 1] = "code"}
<1>1. n \in Nat /\ DOMAIN t = 1 .. n
  OBVIOUS
<1>2. Rb!Code(t) = {i \in Visited(n, Jump) : t[i].k \notin {"begin", "com"}}
  BY RbLines DEF Rb!Code, Rb!Where
<1>3. f[0] = "code" /\ \A i \in 1 .. n : f[i - 1] \in RbModes /\ f[i] = RbTurn(f[i - 1], t[i])
  <2>1. \A i \in 1 .. n : i - 1 \in 0 .. n
    BY <1>1
  <2>. QED BY <2>1, RbRuns DEF RbRun
<1>4. \A i \in 1 .. n : t[i].k = "begin" => FirstOf(fins, i, t) = FirstOf(fins, i + 1, t)
  <2>1. ASSUME NEW i \in 1 .. n, t[i].k = "begin" PROVE {j \in fins : j >= i} = {j \in fins : j >= i + 1}
    <3>1. \A j \in fins : j \in Int /\ j # i
      BY <1>1, <2>1
    <3>. QED BY <3>1
  <2>. QED BY <2>1 DEF FirstOf
<1>5. fins \in SUBSET (1 .. n) /\ terms \in SUBSET (1 .. n)
  BY <1>1
<1>6. ASSUME NEW i \in 1 .. n PROVE Jump[i] \in i + 1 .. n + 2
  <2>1. i + 1 \in Nat
    OBVIOUS
  <2>. HIDE DEF fins, terms
  <2>2. FirstOf(fins, i + 1, t) \in i + 1 .. n + 1 /\ FirstOf(terms, i + 1, t) \in i + 1 .. n + 1
    <3>1. \A S \in SUBSET (1 .. n) : FirstOf(S, i + 1, t) \in i + 1 .. n + 1
      <4>1. ASSUME NEW S \in SUBSET (1 .. n) PROVE FirstOf(S, i + 1, t) \in i + 1 .. n + 1
        <5>1. /\ FirstOf(S, i + 1, t) \in Nat
              /\ (FirstOf(S, i + 1, t) \in S /\ FirstOf(S, i + 1, t) >= i + 1)
                 \/ FirstOf(S, i + 1, t) = n + 1
          BY <1>1, <2>1, FirstOfIs
        <5>. QED BY <1>1, <5>1
      <4>. QED BY <4>1
    <3>. QED BY <1>5, <3>1
  <2>3. Jump[i] = J(i)
    BY <1>1
  <2>. HIDE DEF Jump
  <2>. QED BY <1>1, <1>4, <2>2, <2>3
<1>7. ASSUME NEW i \in W
      PROVE  /\ Jump[i] <= n => Jump[i] \in W
             /\ \A j \in W : i < j => Jump[i] <= j
  <2>1. i \in 1 .. n /\ f[i - 1] = "code" /\ f[i] = RbTurn("code", t[i])
    BY <1>3
  <2>2. Jump[i] = J(i)
    BY <1>1
  <2>3. ASSUME NEW m \in {"rem", "here"}, f[i] = m, NEW S,
               S = {j \in 1 .. n : t[j].k = (IF m = "rem" THEN "fin" ELSE "term")},
               Jump[i] = FirstOf(S, i + 1, t) + 1
        PROVE  /\ Jump[i] <= n => Jump[i] \in W
               /\ \A j \in W : i < j => Jump[i] <= j
    <3> DEFINE c == FirstOf(S, i + 1, t)
    <3>1. c \in i + 1 .. n + 1 /\ (\A j \in i .. c - 1 : f[j] = m) /\ (c <= n => f[c] = "code")
      <4>1. RbAt(t)[i] = m /\ S = {j \in 1 .. Len(t) : t[j].k = (IF m = "rem" THEN "fin" ELSE "term")}
        BY <2>3
      <4>. HIDE DEF f, c, W, Jump, J, fins, terms
      <4>. QED BY <2>1, <2>3, <4>1, RbSkip, SMTT(30) DEF c, f
    <3>2. Jump[i] = c + 1
      BY <2>3
    <3>. HIDE DEF c, f, Jump
    <3>3. Jump[i] <= n => Jump[i] \in W
      <4>1. c + 1 <= n => c + 1 \in 1 .. n /\ c + 1 - 1 = c /\ c <= n
        BY <1>1, <2>1, <3>1
      <4>. QED BY <3>1, <3>2, <4>1
    <3>4. ASSUME NEW j \in W, i < j, ~(Jump[i] <= j) PROVE FALSE
      <4>1. j - 1 \in i .. c - 1
        BY <1>1, <2>1, <3>1, <3>2, <3>4
      <4>2. f[j - 1] = m /\ f[j - 1] = "code"
        BY <3>1, <4>1
      <4>. QED BY <4>2
    <3>. QED BY <3>3, <3>4
  <2>4. CASE t[i].k = "begin"
    <3>1. f[i] = "rem"
      BY <2>1, <2>4 DEF RbTurn
    <3>2. Jump[i] = FirstOf(fins, i + 1, t) + 1
      BY <1>4, <2>1, <2>2, <2>4
    <3>3. fins = {j \in 1 .. n : t[j].k = (IF "rem" = "rem" THEN "fin" ELSE "term")}
      BY <1>1
    <3>. HIDE DEF fins, Jump, W, f
    <3>. QED BY <2>3, <3>1, <3>2, <3>3
  <2>5. CASE t[i].k = "here"
    <3>1. f[i] = "here"
      BY <2>1, <2>5 DEF RbTurn
    <3>2. Jump[i] = FirstOf(terms, i + 1, t) + 1
      BY <2>1, <2>2, <2>5
    <3>3. terms = {j \in 1 .. n : t[j].k = (IF "here" = "rem" THEN "fin" ELSE "term")}
      BY <1>1
    <3>. HIDE DEF terms, Jump, W, f
    <3>. QED BY <2>3, <3>1, <3>2, <3>3
  <2>6. CASE t[i].k \notin {"begin", "here"}
    <3>1. f[i] = "code"
      BY <2>1, <2>6 DEF RbTurn
    <3>2. Jump[i] = i + 1
      BY <2>2, <2>6
    <3>. HIDE DEF Jump, f
    <3>. QED BY <1>1, <2>1, <3>1, <3>2
  <2>. QED BY <2>4, <2>5, <2>6
<1>8. W \in SUBSET (1 .. n) /\ (n >= 1 => 1 \in W)
  <2>1. W \in SUBSET (1 .. n)
    OBVIOUS
  <2>2. n >= 1 => 1 \in 1 .. n /\ 1 - 1 = 0
    BY <1>1
  <2>. QED BY <1>3, <2>1, <2>2
<1>. HIDE DEF Jump, W, f
<1>9. Visited(n, Jump) = W
  BY <1>1, <1>6, <1>7, <1>8, VisitedIs
<1>. QED BY <1>2, <1>9 DEF W, f

RbOpen(l) == l.k \in {"class", "module", "def", "defself", "if"}

RbStep(m, l) ==
  IF m # "code" THEN 0 ELSE IF RbOpen(l) THEN 1 ELSE IF l.k = "end" THEN 0 - 1 ELSE 0

LEMMA RbDepth ==
  ASSUME NEW t \in Seq(RbLine)
  PROVE  LET d == Rb!Depth(t)
         IN /\ d[0] = 0 /\ \A i \in 0 .. Len(t) : d[i] \in Int
            /\ \A i \in 0 .. Len(t) - 1 : d[i + 1] = d[i] + RbStep(RbAt(t)[i], t[i + 1])
<1> DEFINE n == Len(t)
           f == RbAt(t)
           code == Rb!Code(t)
           o == Rb!Opens(t)
           c == Rb!Ends(t) \cap code
           d == Rb!Depth(t)
<1>1. n \in Nat /\ DOMAIN t = 1 .. n
  OBVIOUS
<1>2. d = Balance(n, o, c)
  BY <1>1, RbLines DEF Rb!Depth, Balance
<1>3. code = {i \in 1 .. n : f[i - 1] = "code" /\ t[i].k \notin {"begin", "com"}}
  BY RbCode
<1>4. o = {i \in code : RbOpen(t[i])} /\ c = {i \in code : t[i].k = "end"}
  <2>1. o = {i \in code : RbOpen(t[i])}
    BY DEF Rb!Opens, RbOpen
  <2>2. Rb!Ends(t) = {i \in 1 .. n : t[i].k = "end"}
    BY <1>1 DEF Rb!Ends, Rb!Where
  <2>. HIDE DEF o, n, f
  <2>. QED BY <1>3, <2>1, <2>2
<1>. HIDE DEF o, c, d, n, f, code
<1>5. o \in SUBSET (1 .. n) /\ c \in SUBSET (1 .. n)
  BY <1>3, <1>4
<1>6. Climbs(d, n, o, c)
  BY <1>1, <1>2, <1>5, BalanceClimbs
<1>7. ASSUME NEW i \in 0 .. n - 1 PROVE Counts(i + 1, o, c) = RbStep(f[i], t[i + 1])
  <2>1. i + 1 \in 1 .. n /\ i + 1 - 1 = i
    BY <1>1
  <2>2. i + 1 \in code <=> f[i] = "code" /\ t[i + 1].k \notin {"begin", "com"}
    BY <1>3, <2>1
  <2>. QED BY <1>4, <2>2 DEF Counts, RbStep, RbOpen
<1>. QED BY <1>6, <1>7 DEF Climbs, d, n, f

LEMMA RbDepthMore ==
  ASSUME NEW t \in Seq(RbLine), NEW l \in RbLine
  PROVE  LET u == Append(t, l)
         IN /\ \A i \in 0 .. Len(t) : Rb!Depth(u)[i] = Rb!Depth(t)[i]
            /\ Rb!Depth(u)[Len(t) + 1] = Rb!Depth(t)[Len(t)] + RbStep(RbMode(t), l)
<1> DEFINE u == Append(t, l)
           n == Len(t)
           d == Rb!Depth(t)
           e == Rb!Depth(u)
           f == RbAt(t)
           g == RbAt(u)
           N == {i \in 0 .. n : e[i] = d[i]}
<1>1. /\ n \in Nat /\ u \in Seq(RbLine) /\ Len(u) = n + 1 /\ u[n + 1] = l
      /\ \A i \in 1 .. n : u[i] = t[i]
  OBVIOUS
<1>2. d[0] = 0 /\ \A i \in 0 .. n - 1 : d[i + 1] = d[i] + RbStep(f[i], t[i + 1])
  BY RbDepth
<1>3. e[0] = 0 /\ \A i \in 0 .. n : e[i + 1] = e[i] + RbStep(g[i], u[i + 1])
  <2>. HIDE DEF u
  <2>1. Len(u) - 1 = n
    BY <1>1
  <2>. QED BY <1>1, <2>1, RbDepth
<1>4. (\A i \in 0 .. n : g[i] = f[i]) /\ RbMode(t) = f[n]
  BY RbRunMore DEF RbMode
<1>. HIDE DEF u, n, d, e, f, g
<1>5. 0 \in N
  BY <1>1, <1>2, <1>3
<1>6. ASSUME NEW i \in 0 .. n - 1, i \in N PROVE i + 1 \in N
  <2>1. u[i + 1] = t[i + 1] /\ i \in 0 .. n /\ i + 1 \in 0 .. n
    BY <1>1
  <2>. QED BY <1>2, <1>3, <1>4, <1>6, <2>1
<1>7. 0 .. n \subseteq N
  <2>. HIDE DEF N
  <2>. QED BY <1>1, <1>5, <1>6, Induct
<1>8. e[n + 1] = d[n] + RbStep(RbMode(t), l)
  <2>1. n \in 0 .. n
    BY <1>1
  <2>. QED BY <1>1, <1>3, <1>4, <1>7, <2>1
<1>. QED BY <1>7, <1>8 DEF u, n, d, e

RbMine(l) == l.k = "class" /\ l.n = Own

RbDef(l) == l.k \in {"def", "def1"}

(* Whether line i is still in the class of line a                          *)
RbInside(t, a, i) ==
  \A j \in a + 1 .. i : Rb!Depth(t)[j] >= Rb!Depth(t)[a]

RbOwns(t) == {a \in 1 .. Len(t) : RbAt(t)[a - 1] = "code" /\ RbMine(t[a])}

(* A class whose end is the first that leads back is open until then.      *)
LEMMA RbMatch ==
  ASSUME NEW t \in Seq(RbLine), NEW a \in RbOwns(t), NEW i \in 1 .. Len(t), a < i
  PROVE  i <= Rb!Match(t, a) - 1 <=> RbInside(t, a, i)
<1> DEFINE n == Len(t)
           d == Rb!Depth(t)
           f == RbAt(t)
           ends == {j \in 1 .. n : f[j - 1] = "code" /\ t[j].k = "end"}
           S == {j \in ends : d[j] = d[a - 1]}
           c == FirstOf(S, a + 1, t)
<1>1. n \in Nat /\ a \in 1 .. n /\ f[a - 1] = "code" /\ RbMine(t[a]) /\ DOMAIN t = 1 .. n
  BY DEF RbOwns
<1>2. Rb!Match(t, a) = c
  <2>1. Rb!Ends(t) \cap Rb!Code(t) = ends
    <3>1. Rb!Ends(t) = {j \in 1 .. n : t[j].k = "end"}
      BY <1>1 DEF Rb!Ends, Rb!Where
    <3>2. Rb!Code(t) = {j \in 1 .. n : f[j - 1] = "code" /\ t[j].k \notin {"begin", "com"}}
      BY RbCode
    <3>. HIDE DEF f, n
    <3>. QED BY <3>1, <3>2
  <2>. HIDE DEF ends
  <2>. QED BY <2>1, RbLines DEF Rb!Match
<1>3. /\ \A j \in 0 .. n : d[j] \in Int
      /\ \A j \in 0 .. n - 1 : d[j + 1] = d[j] + RbStep(f[j], t[j + 1])
  BY RbDepth
<1>. HIDE DEF n, d, f, c
<1>4. /\ c \in Nat /\ ((c \in S /\ c >= a + 1) \/ c = n + 1)
      /\ \A j \in S : j >= a + 1 => c <= j
  <2>1. S \in SUBSET (1 .. n) /\ a + 1 \in Nat /\ Len(t) = n
    BY <1>1 DEF n
  <2>. HIDE DEF S
  <2>. QED BY <1>1, <2>1, FirstOfIs DEF c
<1>5. d[a] = d[a - 1] + 1 /\ d[a] \in Int /\ d[a - 1] \in Int
  <2>1. a - 1 \in 0 .. n - 1 /\ a - 1 \in 0 .. n /\ a \in 0 .. n /\ a - 1 + 1 = a
    BY <1>1
  <2>2. d[a] = d[a - 1] + RbStep(f[a - 1], t[a])
    BY <1>3, <2>1
  <2>3. RbStep(f[a - 1], t[a]) = 1
    BY <1>1 DEF RbStep, RbOpen, RbMine
  <2>. QED BY <1>3, <2>1, <2>2, <2>3
<1>6. ASSUME i <= c - 1 PROVE RbInside(t, a, i)
  <2> DEFINE N == {k \in 0 .. i - a : d[a + k] >= d[a]}
  <2>1. 0 \in N
    <3>1. 0 \in 0 .. i - a /\ a + 0 = a
      BY <1>1
    <3>. QED BY <1>5, <3>1
  <2>2. ASSUME NEW k \in 0 .. i - a - 1, k \in N PROVE k + 1 \in N
    <3>1. /\ a + k \in 0 .. n - 1 /\ a + k + 1 \in 1 .. n /\ a + k + 1 <= c - 1 /\ a + k + 1 >= a + 1
          /\ k + 1 \in 0 .. i - a /\ a + (k + 1) = a + k + 1 /\ a + k \in 0 .. n /\ a + k + 1 \in 0 .. n
          /\ a + k + 1 - 1 = a + k
      BY <1>1, <1>4, <1>6
    <3>2. d[a + k + 1] = d[a + k] + RbStep(f[a + k], t[a + k + 1]) /\ d[a + k] >= d[a]
          /\ d[a + k] \in Int
      BY <1>3, <2>2, <3>1
    <3>3. a + k + 1 \notin S
      BY <1>4, <3>1
    <3>4. f[a + k] = "code" /\ t[a + k + 1].k = "end" => d[a + k + 1] # d[a - 1]
      BY <3>1, <3>3
    <3>5. d[a + k + 1] >= d[a]
      <4>1. CASE f[a + k] = "code" /\ t[a + k + 1].k = "end"
        <5>1. RbStep(f[a + k], t[a + k + 1]) = 0 - 1
          BY <4>1 DEF RbStep, RbOpen
        <5>. QED BY <1>5, <3>2, <3>4, <4>1, <5>1
      <4>2. CASE ~(f[a + k] = "code" /\ t[a + k + 1].k = "end")
        <5>1. RbStep(f[a + k], t[a + k + 1]) \in {0, 1}
          BY <4>2 DEF RbStep
        <5>. QED BY <1>5, <3>2, <5>1
      <4>. QED BY <4>1, <4>2
    <3>. QED BY <3>1, <3>5
  <2>3. 0 .. i - a \subseteq N
    <3>1. i - a \in Nat
      BY <1>1
    <3>. HIDE DEF N
    <3>. QED BY <2>1, <2>2, <3>1, Induct
  <2>4. \A j \in a + 1 .. i : j - a \in 0 .. i - a /\ a + (j - a) = j
    BY <1>1
  <2>5. \A j \in a + 1 .. i : d[j] >= d[a]
    BY <2>3, <2>4
  <2>. QED BY <2>5 DEF RbInside, d
<1>7. ASSUME ~(i <= c - 1) PROVE ~RbInside(t, a, i)
  <2>1. c \in S /\ c \in a + 1 .. i
    BY <1>1, <1>4, <1>7 DEF n
  <2>2. d[c] = d[a - 1]
    BY <2>1
  <2>3. ~(d[c] >= d[a])
    BY <1>5, <2>2
  <2>. QED BY <2>1, <2>3 DEF RbInside, d
<1>. QED BY <1>2, <1>6, <1>7

LEMMA RbSees ==
  ASSUME NEW t \in Seq(RbLine)
  PROVE  Rb!Visible(t) =
           {i \in 1 .. Len(t) :
              /\ RbAt(t)[i - 1] = "code" /\ RbDef(t[i])
              /\ \E a \in RbOwns(t) : a < i /\ RbInside(t, a, i) /\ Rb!Depth(t)[i - 1] = Rb!Depth(t)[a]}
<1> DEFINE n == Len(t)
           d == Rb!Depth(t)
           code == Rb!Code(t)
           own == {a \in Rb!Opens(t) : t[a].k = "class" /\ t[a].n = Rb!Own}
           Of(a) == {i \in a + 1 .. Rb!Match(t, a) - 1 : d[i - 1] = d[a]}
           inside == UNION {Of(a) : a \in own}
           At(i) == \E a \in RbOwns(t) : a < i /\ RbInside(t, a, i) /\ d[i - 1] = d[a]
<1>1. n \in Nat /\ code = {i \in 1 .. n : RbAt(t)[i - 1] = "code" /\ t[i].k \notin {"begin", "com"}}
  BY RbCode
<1>2. own = RbOwns(t)
  <2>. HIDE DEF code, n
  <2>1. \A i : i \in own <=> i \in code /\ t[i].k = "class" /\ t[i].n = Own
    BY RbLines DEF Rb!Opens, code
  <2>2. \A i : i \in own <=> i \in 1 .. n /\ RbAt(t)[i - 1] = "code" /\ RbMine(t[i])
    BY <1>1, <2>1 DEF RbMine
  <2>. QED BY <2>2 DEF RbOwns, n
<1>3. Rb!Visible(t) = {i \in inside \cap code : t[i].k \in {"def", "def1"}}
  BY DEF Rb!Visible
<1>. HIDE DEF own, code
<1>4. ASSUME NEW i \in 1 .. n PROVE i \in inside <=> At(i)
  <2>1. \A a \in RbOwns(t) : a \in Nat
    BY DEF RbOwns
  <2>2. ASSUME NEW a \in own PROVE i \in Of(a) <=> a < i /\ RbInside(t, a, i) /\ d[i - 1] = d[a]
    <3>1. a < i => (i <= Rb!Match(t, a) - 1 <=> RbInside(t, a, i))
      BY <1>2, <2>2, RbMatch
    <3>2. Rb!Match(t, a) \in Int
      <4> DEFINE S == {j \in Rb!Ends(t) \cap Rb!Code(t) : d[j] = d[a - 1]}
      <4>1. Rb!Match(t, a) = FirstOf(S, a + 1, t)
        BY RbLines DEF Rb!Match
      <4>2. S \in SUBSET (1 .. Len(t)) /\ a + 1 \in Nat /\ Len(t) \in Nat
        BY <1>1, <1>2, <2>1 DEF code
      <4>. HIDE DEF S
      <4>3. FirstOf(S, a + 1, t) \in Nat
        BY <4>2, FirstOfIs
      <4>. QED BY <4>1, <4>3
    <3>3. i \in a + 1 .. Rb!Match(t, a) - 1 <=> a < i /\ i <= Rb!Match(t, a) - 1
      BY <1>2, <2>1, <3>2
    <3>. HIDE DEF d, n
    <3>. QED BY <3>1, <3>3
  <2>. HIDE DEF Of, d
  <2>. QED BY <1>2, <2>2
<1>. HIDE DEF inside, At, n
<1>5. Rb!Visible(t) = {i \in 1 .. n : RbAt(t)[i - 1] = "code" /\ RbDef(t[i]) /\ At(i)}
  <2>1. \A i : i \in Rb!Visible(t) <=> i \in inside /\ i \in code /\ RbDef(t[i])
    BY <1>3 DEF RbDef
  <2>2. \A i : i \in code /\ RbDef(t[i]) <=> i \in 1 .. n /\ RbAt(t)[i - 1] = "code" /\ RbDef(t[i])
    BY <1>1 DEF RbDef
  <2>3. \A i : i \in Rb!Visible(t) <=> i \in 1 .. n /\ RbAt(t)[i - 1] = "code" /\ RbDef(t[i]) /\ At(i)
    BY <1>4, <2>1, <2>2
  <2>. QED BY <2>3
<1>. QED BY <1>5 DEF At, n, d

(* How deep the next line is in each of the classes that are open          *)
RbRels(t) ==
  {r \in Nat : \E a \in RbOwns(t) :
     RbInside(t, a, Len(t)) /\ r = Rb!Depth(t)[Len(t)] - Rb!Depth(t)[a]}

(* Whether a def on the next line would be that of a method                *)
RbHere(t) == RbMode(t) = "code" /\ 0 \in RbRels(t)

(* What the next line changes                                              *)
LEMMA RbNextLine ==
  ASSUME NEW t \in Seq(RbLine), NEW l \in RbLine
  PROVE  LET u == Append(t, l)
             m == RbMode(t)
         IN /\ u \in Seq(RbLine) /\ RbMode(u) = RbTurn(m, l)
            /\ \A k \in Nat : k \in RbRels(u) <=>
                 k - RbStep(m, l) \in RbRels(t) \/ (k = 0 /\ m = "code" /\ RbMine(l))
            /\ Rb!Methods(u) = Rb!Methods(t) \cup
                 (IF RbHere(t) /\ RbDef(l) THEN {l.n} \cap Method ELSE {})
<1> DEFINE u == Append(t, l)
           n == Len(t)
           d == Rb!Depth(t)
           e == Rb!Depth(u)
           f == RbAt(t)
           g == RbAt(u)
           m == RbMode(t)
           p == RbStep(m, l)
<1>1. /\ n \in Nat /\ u \in Seq(RbLine) /\ Len(u) = n + 1 /\ u[n + 1] = l
      /\ \A i \in 1 .. n : u[i] = t[i]
  OBVIOUS
<1>2. /\ \A i \in 0 .. n : e[i] = d[i] /\ d[i] \in Int
      /\ e[n + 1] = d[n] + p
  BY RbDepth, RbDepthMore
<1>3. (\A i \in 0 .. n : g[i] = f[i]) /\ RbMode(u) = RbTurn(m, l) /\ m = f[n]
  BY RbRunMore DEF RbMode
<1>4. p \in {0 - 1, 0, 1}
  BY DEF RbStep
<1>. HIDE DEF u, n, d, e, f, g, m, p
<1> DEFINE own == RbOwns(t)
           new == RbOwns(u)
<1>5. own \subseteq 1 .. n /\ \A a : a \in new <=> a \in own \/ (a = n + 1 /\ m = "code" /\ RbMine(l))
  <2>1. own = {a \in 1 .. n : f[a - 1] = "code" /\ RbMine(t[a])}
    BY DEF RbOwns, n, f
  <2>2. new = {a \in 1 .. n + 1 : g[a - 1] = "code" /\ RbMine(u[a])}
    BY <1>1 DEF RbOwns, g
  <2>3. \A a \in 1 .. n : a - 1 \in 0 .. n /\ a \in 1 .. n + 1
    BY <1>1
  <2>4. \A a \in 1 .. n + 1 : a \in 1 .. n \/ a = n + 1
    BY <1>1
  <2>5. n + 1 \in 1 .. n + 1 /\ n + 1 - 1 = n /\ n \in 0 .. n /\ n + 1 \notin 1 .. n
    BY <1>1
  <2>. QED BY <1>1, <1>3, <2>1, <2>2, <2>3, <2>4, <2>5
<1>. HIDE DEF own, new
<1>6. ASSUME NEW a \in 1 .. n, NEW i \in 1 .. n
      PROVE  RbInside(u, a, i) <=> RbInside(t, a, i)
  <2>1. a \in 0 .. n /\ \A j \in a + 1 .. i : j \in 0 .. n
    BY <1>1
  <2>. QED BY <1>2, <2>1 DEF RbInside, d, e
<1>7. ASSUME NEW a \in 1 .. n
      PROVE  RbInside(u, a, n + 1) <=> RbInside(t, a, n) /\ e[n + 1] >= d[a]
  <2>1. n \in 1 .. n /\ e[a] = d[a]
    BY <1>1, <1>2
  <2>2. RbInside(u, a, n + 1) <=> RbInside(u, a, n) /\ e[n + 1] >= e[a]
    <3>1. \A j : j \in a + 1 .. n + 1 <=> j \in a + 1 .. n \/ j = n + 1
      BY <1>1
    <3>. QED BY <3>1 DEF RbInside, e
  <2>. QED BY <1>6, <2>1, <2>2
<1>8. RbInside(u, n + 1, n + 1)
  <2>1. n + 1 + 1 .. n + 1 = {}
    BY <1>1
  <2>. QED BY <2>1 DEF RbInside
<1>9. RbRels(t) = {r \in Nat : \E a \in own : RbInside(t, a, n) /\ r = d[n] - d[a]}
  BY DEF RbRels, own, n, d
<1>10. RbRels(u) = {r \in Nat : \E a \in new : RbInside(u, a, n + 1) /\ r = e[n + 1] - e[a]}
  BY <1>1 DEF RbRels, new, e
<1>11. \A a \in own : a \in 1 .. n /\ e[a] = d[a] /\ d[a] \in Int
  <2>1. \A a \in 1 .. n : a \in 0 .. n
    OBVIOUS
  <2>. QED BY <1>2, <1>5, <2>1
<1>12. ASSUME NEW a \in own, RbInside(t, a, n) PROVE d[n] - d[a] \in Nat
  <2>1. a \in 1 .. n /\ d[a] \in Int /\ d[n] \in Int
    <3>1. n \in 0 .. n
      BY <1>1
    <3>. QED BY <1>2, <1>11, <3>1
  <2>2. a = n \/ n \in a + 1 .. n
    BY <1>1, <2>1
  <2>3. d[n] >= d[a]
    BY <1>12, <2>1, <2>2 DEF RbInside, d
  <2>. QED BY <2>1, <2>3
<1>13. d[n] \in Int /\ e[n + 1] = d[n] + p /\ p \in Int /\ e[n + 1] \in Int
  <2>1. n \in 0 .. n
    BY <1>1
  <2>. QED BY <1>2, <1>4, <2>1
<1>14. ASSUME NEW k \in Nat
       PROVE  k \in RbRels(u) <=> k - p \in RbRels(t) \/ (k = 0 /\ m = "code" /\ RbMine(l))
  <2>1. k \in RbRels(u) <=> \E a \in new : RbInside(u, a, n + 1) /\ k = e[n + 1] - e[a]
    BY <1>10
  <2>2. (\E a \in own : RbInside(u, a, n + 1) /\ k = e[n + 1] - e[a]) <=> k - p \in RbRels(t)
    <3>1. ASSUME NEW a \in own, RbInside(u, a, n + 1), k = e[n + 1] - e[a] PROVE k - p \in RbRels(t)
      <4>1. RbInside(t, a, n) /\ e[a] = d[a] /\ d[a] \in Int
        BY <1>7, <1>11, <3>1
      <4>2. k - p = d[n] - d[a] /\ d[n] - d[a] \in Nat
        BY <1>12, <1>13, <3>1, <4>1
      <4>. QED BY <1>9, <4>1, <4>2
    <3>2. ASSUME k - p \in RbRels(t) PROVE \E a \in own : RbInside(u, a, n + 1) /\ k = e[n + 1] - e[a]
      <4>1. PICK a \in own : RbInside(t, a, n) /\ k - p = d[n] - d[a]
        BY <1>9, <3>2
      <4>2. a \in 1 .. n /\ e[a] = d[a] /\ d[a] \in Int
        BY <1>11
      <4>3. k = e[n + 1] - e[a] /\ e[n + 1] >= d[a]
        BY <1>13, <4>1, <4>2
      <4>. QED BY <1>7, <4>1, <4>2, <4>3
    <3>. QED BY <3>1, <3>2
  <2>3. k = e[n + 1] - e[n + 1] <=> k = 0
    BY <1>13
  <2>. QED BY <1>5, <1>8, <2>1, <2>2, <2>3
<1>15. Rb!Methods(u) = Rb!Methods(t) \cup (IF RbHere(t) /\ RbDef(l) THEN {l.n} \cap Method ELSE {})
  <2> DEFINE v == Rb!Visible(t)
             w == Rb!Visible(u)
             here == RbHere(t) /\ RbDef(l)
  <2>1. v = {i \in 1 .. n : f[i - 1] = "code" /\ RbDef(t[i])
                            /\ \E a \in own : a < i /\ RbInside(t, a, i) /\ d[i - 1] = d[a]}
    BY RbSees DEF n, f, d, own
  <2>2. w = {i \in 1 .. n + 1 : g[i - 1] = "code" /\ RbDef(u[i])
                            /\ \E a \in new : a < i /\ RbInside(u, a, i) /\ e[i - 1] = e[a]}
    BY <1>1, RbSees DEF g, e, new
  <2>. HIDE DEF v, w
  <2>3. ASSUME NEW i \in 1 .. n PROVE i \in w <=> i \in v
    <3>1. i \in 1 .. n + 1 /\ i - 1 \in 0 .. n /\ u[i] = t[i] /\ ~(n + 1 < i)
      BY <1>1
    <3>2. g[i - 1] = f[i - 1] /\ e[i - 1] = d[i - 1]
      BY <1>2, <1>3, <3>1
    <3>3. \A a \in own : /\ RbInside(u, a, i) <=> RbInside(t, a, i)
                         /\ e[a] = d[a]
      BY <1>6, <1>11
    <3>. QED BY <1>5, <2>1, <2>2, <3>1, <3>2, <3>3
  <2>4. n + 1 \in w <=> here
    <3>1. n + 1 \in 1 .. n + 1 /\ n + 1 - 1 = n /\ n \in 0 .. n /\ ~(n + 1 < n + 1)
      BY <1>1
    <3>2. n + 1 \in w <=> m = "code" /\ RbDef(l) /\ \E a \in own : a < n + 1 /\ RbInside(u, a, n + 1) /\ d[n] = d[a]
      <4>1. e[n] = d[n] /\ g[n] = m
        BY <1>2, <1>3, <3>1
      <4>2. n + 1 \in w <=> m = "code" /\ RbDef(l) /\ \E a \in new : a < n + 1 /\ RbInside(u, a, n + 1) /\ d[n] = e[a]
        BY <1>1, <2>2, <3>1, <4>1
      <4>3. \A a \in own : a \in new /\ e[a] = d[a]
        BY <1>5, <1>11
      <4>4. \A a \in new : a < n + 1 => a \in own
        BY <1>5, <3>1
      <4>. QED BY <4>2, <4>3, <4>4
    <3>3. RbDef(l) => p \in {0, 1}
      BY DEF RbDef, RbStep, RbOpen, p
    <3>4. ASSUME NEW a \in own, RbDef(l), d[n] = d[a]
          PROVE  a < n + 1 /\ (RbInside(u, a, n + 1) <=> RbInside(t, a, n))
      <4>1. a \in 1 .. n /\ e[n + 1] >= d[a]
        BY <1>11, <1>13, <3>3, <3>4
      <4>. QED BY <1>1, <1>7, <4>1
    <3>5. 0 \in RbRels(t) <=> \E a \in own : RbInside(t, a, n) /\ d[n] = d[a]
      <4>1. \A a \in own : 0 = d[n] - d[a] <=> d[n] = d[a]
        BY <1>11, <1>13
      <4>. QED BY <1>9, <4>1
    <3>. QED BY <3>2, <3>4, <3>5 DEF RbHere, m
  <2>. HIDE DEF here
  <2>5. v \subseteq 1 .. n /\ \A i \in w : i \in 1 .. n \/ i = n + 1
    <3>1. \A i \in 1 .. n + 1 : i \in 1 .. n \/ i = n + 1
      BY <1>1
    <3>. QED BY <2>1, <2>2, <3>1
  <2>6. \A i : i \in w <=> i \in v \/ (here /\ i = n + 1)
    BY <2>3, <2>4, <2>5
  <2>7. \A i \in v : u[i] = t[i]
    BY <1>1, <2>5
  <2>8. Rb!Methods(u) = {u[i].n : i \in w} \cap Method /\ Rb!Methods(t) = {t[i].n : i \in v} \cap Method
    BY RbLines DEF Rb!Methods, v, w
  <2>9. {u[i].n : i \in w} = {t[i].n : i \in v} \cup (IF here THEN {l.n} ELSE {})
    BY <1>1, <2>6, <2>7
  <2>10. Rb!Methods(u) = Rb!Methods(t) \cup (IF here THEN {l.n} \cap Method ELSE {})
    BY <2>8, <2>9
  <2>. QED BY <2>10 DEF here
<1>. QED BY <1>1, <1>3, <1>14, <1>15 DEF u, m, p

-----------------------------------------------------------------------------
(* Ruby: lines that end all that they open                                 *)

(* Of the API's methods they define at most those of A.                    *)
RbBody(y, A) ==
  LET d == Rb!Depth(y)
  IN /\ y \in Seq(RbLine) /\ d[Len(y)] = 0
     /\ \A i \in 1 .. Len(y) :
          /\ d[i] >= 0 /\ y[i].k \in {"def", "stub", "if", "end", "com", "mine"}
          /\ y[i].k = "def" /\ d[i - 1] = 0 /\ y[i].n \in Method => y[i].n \in A

LEMMA RbBodyDepth ==
  ASSUME NEW A, NEW y, RbBody(y, A)
  PROVE  \A i \in 0 .. Len(y) - 1 : Rb!Depth(y)[i + 1] = Rb!Depth(y)[i] + RbStep("code", y[i + 1])
<1> DEFINE n == Len(y)
           f == RbAt(y)
           N == {i \in 0 .. n : f[i] = "code"}
<1>1. n \in Nat /\ y \in Seq(RbLine) /\ \A i \in 1 .. n : y[i].k \in {"def", "stub", "if", "end", "com", "mine"}
  BY DEF RbBody
<1>2. f[0] = "code" /\ \A i \in 1 .. n : f[i] = RbTurn(f[i - 1], y[i])
  BY <1>1, RbRuns DEF RbRun
<1>. HIDE DEF f
<1>3. ASSUME NEW i \in 0 .. n - 1, i \in N PROVE i + 1 \in N
  <2>1. i + 1 \in 1 .. n /\ i + 1 \in 0 .. n /\ i + 1 - 1 = i
    BY <1>1
  <2>2. f[i + 1] = RbTurn("code", y[i + 1])
    BY <1>2, <1>3, <2>1
  <2>. QED BY <1>1, <2>1, <2>2 DEF RbTurn
<1>4. 0 .. n \subseteq N
  <2>1. 0 \in N
    BY <1>1, <1>2
  <2>. HIDE DEF N, n
  <2>. QED BY <1>1, <1>3, <2>1, Induct
<1>5. \A i \in 0 .. n - 1 : f[i] = "code"
  BY <1>1, <1>4
<1>. QED BY <1>1, <1>5, RbDepth DEF f

LEMMA RbBodyAfter ==
  ASSUME NEW s \in Seq(RbLine), NEW A, NEW y, RbBody(y, A)
  PROVE  /\ s \o y \in Seq(RbLine)
         /\ RbMode(s \o y) = RbMode(s) /\ RbRels(s \o y) = RbRels(s)
         /\ Rb!Methods(s \o y) \subseteq Rb!Methods(s) \cup (IF RbHere(s) THEN A ELSE {})
<1> DEFINE n == Len(y)
           d == Rb!Depth(y)
           m == RbMode(s)
           q(i) == IF m = "code" THEN d[i] ELSE 0
           In(i, x) == /\ RbMode(x) = m
                       /\ \A k \in Nat : k \in RbRels(x) <=> k - q(i) \in RbRels(s)
                       /\ Rb!Methods(x) \subseteq Rb!Methods(s) \cup (IF RbHere(s) THEN A ELSE {})
           At(i) == s \o SubSeq(y, 1, i)
           N == {i \in 0 .. n : In(i, At(i))}
<1>1. /\ y \in Seq(RbLine) /\ n \in Nat /\ d[n] = 0
      /\ \A i \in 1 .. n : /\ d[i] >= 0 /\ y[i].k \in {"def", "stub", "if", "end", "com", "mine"}
                           /\ y[i].k = "def" /\ d[i - 1] = 0 /\ y[i].n \in Method => y[i].n \in A
  BY DEF RbBody
<1>2. /\ d[0] = 0 /\ \A i \in 0 .. n : d[i] \in Int
      /\ \A i \in 0 .. n - 1 : d[i + 1] = d[i] + RbStep("code", y[i + 1])
  BY <1>1, RbDepth, RbBodyDepth
<1>3. RbRels(s) \subseteq Nat
  BY DEF RbRels
<1>4. m \in RbModes
  BY RbRuns
<1>5. 0 \in N
  <2>1. At(0) = s
    BY <1>1, Growing, AttachNone
  <2>2. q(0) = 0
    BY <1>2
  <2>. HIDE DEF At, d, n, q
  <2>. QED BY <1>1, <2>1, <2>2
<1>6. ASSUME NEW i \in 0 .. n - 1, In(i, At(i)) PROVE In(i + 1, At(i + 1))
  <2>1. PICK z \in Seq(RbLine), z2 \in Seq(RbLine) :
          z = SubSeq(y, 1, i) /\ z2 = SubSeq(y, 1, i + 1) /\ z2 = Append(z, y[i + 1])
    <3>1. y \in Seq(RbLine) /\ i \in 0 .. Len(y) - 1
      BY <1>1
    <3>. HIDE DEF In, At, d, n
    <3>. QED BY <3>1, OneMore
  <2>2. PICK l \in RbLine : l = y[i + 1]
    BY <1>1, Growing
  <2>3. PICK x \in Seq(RbLine) : x = At(i)
    BY <2>1, ConcatProperties
  <2>4. At(i + 1) = Append(x, l)
    BY <2>1, <2>2, <2>3, AttachLine
  <2>5. /\ RbMode(Append(x, l)) = RbTurn(RbMode(x), l)
        /\ \A k \in Nat : k \in RbRels(Append(x, l)) <=>
             k - RbStep(RbMode(x), l) \in RbRels(x) \/ (k = 0 /\ RbMode(x) = "code" /\ RbMine(l))
        /\ Rb!Methods(Append(x, l)) = Rb!Methods(x) \cup
             (IF RbHere(x) /\ RbDef(l) THEN {l.n} \cap Method ELSE {})
    BY RbNextLine
  <2>6. /\ i \in 0 .. n /\ d[i] \in Int /\ d[i] >= 0 /\ d[i + 1] = d[i] + RbStep("code", l) /\ d[i + 1] \in Int
        /\ d[i + 1] >= 0 /\ l.k \in {"def", "stub", "if", "end", "com", "mine"}
        /\ l.k = "def" /\ d[i] = 0 /\ l.n \in Method => l.n \in A
    <3>1. i + 1 \in 1 .. n /\ i + 1 \in 0 .. n /\ i \in 0 .. n /\ i + 1 - 1 = i /\ (i = 0 \/ i \in 1 .. n)
      BY <1>1
    <3>. HIDE DEF d
    <3>. QED BY <1>1, <1>2, <2>2, <3>1
  <2>7. RbTurn(m, l) = m /\ ~RbMine(l) /\ RbStep(m, l) \in {0 - 1, 0, 1}
        /\ (m # "code" => RbStep(m, l) = 0) /\ (RbDef(l) => l.k = "def")
    BY <1>4, <2>6 DEF RbTurn, RbMine, RbStep, RbModes, RbDef
  <2>8. q(i + 1) = q(i) + RbStep(m, l) /\ q(i) \in Nat /\ q(i + 1) \in Nat
    BY <2>6, <2>7
  <2>. HIDE DEF d, n, At, q
  <2>9. In(i, x)
    BY <1>6, <2>3
  <2>. HIDE DEF m
  <2>10. RbMode(Append(x, l)) = m
    BY <2>5, <2>7, <2>9
  <2>11. ASSUME NEW k \in Nat PROVE k \in RbRels(Append(x, l)) <=> k - q(i + 1) \in RbRels(s)
    <3>1. k \in RbRels(Append(x, l)) <=> k - RbStep(m, l) \in RbRels(x)
      BY <2>5, <2>7, <2>9
    <3>2. RbRels(x) \subseteq Nat
      BY DEF RbRels
    <3> DEFINE j == k - RbStep(m, l)
    <3>3. j \in Int /\ k - q(i + 1) = j - q(i)
      BY <2>7, <2>8
    <3>4. CASE j \in Nat
      BY <2>9, <3>1, <3>3, <3>4
    <3>5. CASE j \notin Nat
      <4>1. j - q(i) \notin Nat
        BY <2>8, <3>3, <3>5
      <4>. QED BY <1>3, <3>1, <3>2, <3>3, <3>5, <4>1
    <3>. QED BY <3>4, <3>5
  <2>12. RbHere(x) => RbHere(s) /\ d[i] = 0
    <3>1. ASSUME RbHere(x) PROVE RbHere(s) /\ d[i] = 0
      <4>1. m = "code" /\ 0 - q(i) \in RbRels(s)
        BY <2>9, <3>1 DEF RbHere
      <4>2. q(i) = 0
        BY <1>3, <2>8, <4>1
      <4>3. q(i) = d[i]
        BY <4>1 DEF q
      <4>. QED BY <4>1, <4>2, <4>3 DEF RbHere, m
    <3>. QED BY <3>1
  <2>13. Rb!Methods(Append(x, l)) \subseteq Rb!Methods(s) \cup (IF RbHere(s) THEN A ELSE {})
    BY <2>5, <2>6, <2>7, <2>9, <2>12
  <2>. QED BY <2>4, <2>10, <2>11, <2>13
<1>. HIDE DEF In
<1>7. n \in N
  <2>1. \A i \in 0 .. n - 1 : i \in N => i + 1 \in N
    <3>1. \A i \in 0 .. n - 1 : i + 1 \in 0 .. n
      BY <1>1
    <3>. HIDE DEF n, At
    <3>. QED BY <1>6, <3>1 DEF N
  <2>. HIDE DEF n, N
  <2>. QED BY <1>1, <1>5, <2>1, Induct
<1>8. At(n) = s \o y /\ s \o y \in Seq(RbLine)
  BY <1>1, Growing, ConcatProperties
<1>9. q(n) = 0
  BY <1>1
<1>. HIDE DEF At, d, n, q
<1>10. In(n, s \o y)
  BY <1>7, <1>8
<1>11. RbRels(s \o y) = RbRels(s)
  <2>1. RbRels(s \o y) \subseteq Nat
    BY DEF RbRels
  <2>2. \A k \in Nat : k - 0 = k
    OBVIOUS
  <2>3. \A k \in Nat : k \in RbRels(s \o y) <=> k \in RbRels(s)
    BY <1>9, <1>10, <2>2 DEF In
  <2>. QED BY <1>3, <2>1, <2>3
<1>. QED BY <1>8, <1>10, <1>11 DEF In, m

RbQuiet == {l \in RbLine : l.k \in {"stub", "com", "mine"}}

LEMMA RbQuietBody ==
  ASSUME NEW y \in Seq(RbQuiet), NEW A
  PROVE  RbBody(y, A)
<1> DEFINE n == Len(y)
           d == Rb!Depth(y)
           N == {i \in 0 .. n : d[i] = 0}
<1>1. \A i \in 1 .. n : y[i] \in RbLine /\ y[i].k \in {"stub", "com", "mine"}
  BY ElementOfSeq DEF RbQuiet
<1>2. y \in Seq(RbLine) /\ n \in Nat
  BY <1>1, Sieved
<1>3. d[0] = 0 /\ \A i \in 0 .. n - 1 : d[i + 1] = d[i] + RbStep(RbAt(y)[i], y[i + 1])
  BY <1>2, RbDepth
<1>. HIDE DEF d
<1>4. ASSUME NEW i \in 0 .. n - 1, i \in N PROVE i + 1 \in N
  <2>1. i + 1 \in 1 .. n /\ i + 1 \in 0 .. n
    BY <1>2
  <2>2. RbStep(RbAt(y)[i], y[i + 1]) = 0
    BY <1>1, <2>1 DEF RbStep, RbOpen
  <2>3. d[i + 1] = 0 + 0
    BY <1>3, <1>4, <2>2
  <2>. QED BY <2>1, <2>3
<1>5. 0 \in N
  BY <1>2, <1>3
<1>6. n \in N /\ 0 .. n \subseteq N
  <2>. HIDE DEF N, n
  <2>. QED BY <1>2, <1>4, <1>5, Induct
<1>7. \A i \in 1 .. n : d[i] = 0
  BY <1>6
<1>. QED BY <1>1, <1>2, <1>6, <1>7 DEF RbBody, d

LEMMA RbBodyMore ==
  ASSUME NEW A, NEW B, NEW y, RbBody(y, A), A \cap Method \subseteq B
  PROVE  RbBody(y, B)
BY DEF RbBody

-----------------------------------------------------------------------------
(* Ruby: files that the scan leaves in one state                           *)

RbSame(s, r) == RbMode(s) = RbMode(r) /\ RbRels(s) = RbRels(r)

RbLike(A) ==
  {p \in Seq(RbLine) \X Seq(RbLine) :
     RbSame(p[1], p[2]) /\ Rb!Methods(p[2]) \subseteq Rb!Methods(p[1]) \cup A}

LEMMA RbLikeIs ==
  ASSUME NEW A, NEW s, NEW r
  PROVE  <<s, r>> \in RbLike(A) <=>
           /\ s \in Seq(RbLine) /\ r \in Seq(RbLine) /\ RbSame(s, r)
           /\ Rb!Methods(r) \subseteq Rb!Methods(s) \cup A
BY DEF RbLike

LEMMA RbLikeSelf ==
  ASSUME NEW A, NEW s \in Seq(RbLine)
  PROVE  <<s, s>> \in RbLike(A)
BY RbLikeIs DEF RbSame

LEMMA RbLikeSame ==
  ASSUME NEW A, NEW s, NEW r, <<s, r>> \in RbLike(A), NEW l \in RbLine
  PROVE  <<Append(s, l), Append(r, l)>> \in RbLike(A)
<1>1. /\ s \in Seq(RbLine) /\ r \in Seq(RbLine) /\ RbSame(s, r)
      /\ Rb!Methods(r) \subseteq Rb!Methods(s) \cup A
  BY RbLikeIs
<1> DEFINE u == Append(s, l)
           w == Append(r, l)
<1>2. /\ u \in Seq(RbLine) /\ RbMode(u) = RbTurn(RbMode(s), l)
      /\ \A k \in Nat : k \in RbRels(u) <=>
           k - RbStep(RbMode(s), l) \in RbRels(s) \/ (k = 0 /\ RbMode(s) = "code" /\ RbMine(l))
      /\ Rb!Methods(u) = Rb!Methods(s) \cup (IF RbHere(s) /\ RbDef(l) THEN {l.n} \cap Method ELSE {})
  BY <1>1, RbNextLine
<1>3. /\ w \in Seq(RbLine) /\ RbMode(w) = RbTurn(RbMode(r), l)
      /\ \A k \in Nat : k \in RbRels(w) <=>
           k - RbStep(RbMode(r), l) \in RbRels(r) \/ (k = 0 /\ RbMode(r) = "code" /\ RbMine(l))
      /\ Rb!Methods(w) = Rb!Methods(r) \cup (IF RbHere(r) /\ RbDef(l) THEN {l.n} \cap Method ELSE {})
  BY <1>1, RbNextLine
<1>. HIDE DEF u, w
<1>4. RbRels(u) \subseteq Nat /\ RbRels(w) \subseteq Nat
  BY DEF RbRels
<1>5. RbRels(u) = RbRels(w)
  <2>1. \A k \in Nat : k \in RbRels(u) <=> k \in RbRels(w)
    BY <1>1, <1>2, <1>3 DEF RbSame
  <2>. QED BY <1>4, <2>1
<1>6. RbHere(s) <=> RbHere(r)
  BY <1>1 DEF RbSame, RbHere
<1>7. Rb!Methods(w) \subseteq Rb!Methods(u) \cup A
  BY <1>1, <1>2, <1>3, <1>6
<1>8. RbSame(u, w)
  BY <1>1, <1>2, <1>3, <1>5 DEF RbSame
<1>. QED BY <1>2, <1>3, <1>7, <1>8, RbLikeIs DEF u, w

LEMMA RbLikeBody ==
  ASSUME NEW A, NEW s, NEW r, <<s, r>> \in RbLike(A), NEW y, RbBody(y, A)
  PROVE  <<s, r \o y>> \in RbLike(A)
<1>1. /\ s \in Seq(RbLine) /\ r \in Seq(RbLine) /\ RbSame(s, r)
      /\ Rb!Methods(r) \subseteq Rb!Methods(s) \cup A
  BY RbLikeIs
<1>2. /\ r \o y \in Seq(RbLine)
      /\ RbMode(r \o y) = RbMode(r) /\ RbRels(r \o y) = RbRels(r)
      /\ Rb!Methods(r \o y) \subseteq Rb!Methods(r) \cup A
  BY <1>1, RbBodyAfter
<1>. QED BY <1>1, <1>2, RbLikeIs DEF RbSame

(* A body takes the place of a line that neither opens nor ends anything.  *)
LEMMA RbLikeSwap ==
  ASSUME NEW A, NEW s, NEW r, <<s, r>> \in RbLike(A), NEW l \in RbQuiet, NEW y, RbBody(y, {})
  PROVE  <<Append(s, l), r \o y>> \in RbLike(A)
<1>1. /\ s \in Seq(RbLine) /\ r \in Seq(RbLine) /\ RbSame(s, r)
      /\ Rb!Methods(r) \subseteq Rb!Methods(s) \cup A
  BY RbLikeIs
<1>2. /\ r \o y \in Seq(RbLine)
      /\ RbMode(r \o y) = RbMode(r) /\ RbRels(r \o y) = RbRels(r)
      /\ Rb!Methods(r \o y) \subseteq Rb!Methods(r)
  BY <1>1, RbBodyAfter
<1>3. <<l>> \in Seq(RbQuiet) /\ l \in RbLine
  BY DEF RbQuiet
<1>4. s \o <<l>> = Append(s, l)
  BY <1>1, <1>3, AttachLine
<1>5. /\ Append(s, l) \in Seq(RbLine)
      /\ RbMode(Append(s, l)) = RbMode(s) /\ RbRels(Append(s, l)) = RbRels(s)
  BY <1>1, <1>3, <1>4, RbQuietBody, RbBodyAfter
<1>6. Rb!Methods(s) \subseteq Rb!Methods(Append(s, l))
  BY <1>1, <1>3, RbNextLine
<1>. QED BY <1>1, <1>2, <1>5, <1>6, RbLikeIs DEF RbSame

LEMMA RbLikeBodies ==
  ASSUME NEW A, NEW s, NEW r, <<s, r>> \in RbLike(A),
         NEW ss, ss \in Seq(Seq(RbLine)), \A i \in 1 .. Len(ss) : RbBody(ss[i], A)
  PROVE  <<s, r \o FlattenSeq(ss)>> \in RbLike(A)
<1> DEFINE P == {x \in Seq(RbLine) : <<s, x>> \in RbLike(A)}
<1>1. r \in P /\ r \in Seq(RbLine)
  BY RbLikeIs
<1>2. ASSUME NEW i \in 1 .. Len(ss), NEW x \in Seq(RbLine), NEW c \in Seq(RbLine), x \in P, c = ss[i]
      PROVE  x \o c \in P
  <2>1. <<s, x \o c>> \in RbLike(A)
    BY <1>2, RbLikeBody
  <2>. QED BY <2>1, RbLikeIs
<1>. HIDE DEF P
<1>3. r \o FlattenSeq(ss) \in P
  BY <1>1, <1>2, FlatOnto
<1>. QED BY <1>3 DEF P

LEMMA RbEmpty ==
  <<>> \in Seq(RbLine) /\ RbMode(<<>>) = "code" /\ RbRels(<<>>) = {} /\ Rb!Methods(<<>>) = {}
<1>1. <<>> \in Seq(RbLine) /\ Len(<<>>) = 0
  OBVIOUS
<1>2. RbMode(<<>>) = "code"
  BY <1>1, RbRuns DEF RbRun, RbMode
<1>3. RbOwns(<<>>) = {}
  BY <1>1 DEF RbOwns
<1>4. Rb!Visible(<<>>) = {}
  <2>1. PICK t \in Seq(RbLine) : t = <<>>
    BY <1>1
  <2>2. Rb!Visible(t) \subseteq 1 .. Len(t)
    BY RbSees
  <2>. QED BY <1>1, <2>1, <2>2
<1>5. Rb!Methods(<<>>) = {}
  BY <1>4 DEF Rb!Methods
<1>. QED BY <1>1, <1>2, <1>3, <1>5 DEF RbRels

-----------------------------------------------------------------------------
(* Ruby: the stub and its methods                                          *)

(* Each method is the def, at most a stub, and the end.                    *)
RbStubLine == {l \in RbLine : l.k \in {"class", "def", "stub", "end"}}

RbWell(t) ==
  \A i \in 1 .. Len(t) : t[i].k = "def" =>
    /\ i + 1 \in 1 .. Len(t)
    /\ \/ t[i + 1].k = "end"
       \/ i + 2 \in 1 .. Len(t) /\ t[i + 1].k = "stub" /\ t[i + 2].k = "end"

LEMMA RbWellCat ==
  ASSUME NEW s \in Seq(RbStubLine), NEW y \in Seq(RbStubLine), RbWell(s), RbWell(y)
  PROVE  s \o y \in Seq(RbStubLine) /\ RbWell(s \o y)
<1> DEFINE u == s \o y
           m == Len(s)
           n == Len(y)
           Well(i) == /\ i + 1 \in 1 .. Len(u)
                      /\ \/ u[i + 1].k = "end"
                         \/ i + 2 \in 1 .. Len(u) /\ u[i + 1].k = "stub" /\ u[i + 2].k = "end"
<1>1. /\ u \in Seq(RbStubLine) /\ Len(u) = m + n /\ m \in Nat /\ n \in Nat
      /\ \A i \in 1 .. m : u[i] = s[i]
      /\ \A j \in 1 .. n : u[m + j] = y[j]
  BY Cat
<1>. HIDE DEF u
<1>2. ASSUME NEW i \in 1 .. m, u[i].k = "def" PROVE Well(i)
  <2>1. /\ i + 1 \in 1 .. m
        /\ s[i + 1].k = "end" \/ (i + 2 \in 1 .. m /\ s[i + 1].k = "stub" /\ s[i + 2].k = "end")
    BY <1>1, <1>2 DEF RbWell
  <2>. HIDE DEF m, n
  <2>. QED BY <1>1, <2>1
<1>3. ASSUME NEW j \in 1 .. n, u[m + j].k = "def" PROVE Well(m + j)
  <2>0. y[j].k = "def"
    BY <1>1, <1>3
  <2>1. /\ j + 1 \in 1 .. n
        /\ y[j + 1].k = "end" \/ (j + 2 \in 1 .. n /\ y[j + 1].k = "stub" /\ y[j + 2].k = "end")
    BY <2>0 DEF RbWell
  <2>. HIDE DEF m, n
  <2>2. m + (j + 1) = m + j + 1 /\ m + (j + 2) = m + j + 2
    BY <1>1
  <2>3. u[m + j + 1] = y[j + 1] /\ m + j + 1 \in 1 .. Len(u)
    <3>1. j + 1 \in 1 .. n /\ u[m + (j + 1)] = y[j + 1]
      BY <1>1, <2>1
    <3>2. m + j + 1 \in 1 .. Len(u)
      BY <1>1, <3>1
    <3>. QED BY <2>2, <3>1, <3>2
  <2>4. j + 2 \in 1 .. n => u[m + j + 2] = y[j + 2] /\ m + j + 2 \in 1 .. Len(u)
    BY <1>1, <2>2
  <2>. QED BY <2>1, <2>3, <2>4
<1>. HIDE DEF Well
<1>4. ASSUME NEW i \in 1 .. Len(u), u[i].k = "def" PROVE Well(i)
  <2>. HIDE DEF m, n
  <2>1. CASE i \in 1 .. m
    BY <1>2, <1>4, <2>1
  <2>2. CASE i \notin 1 .. m
    <3>1. i - m \in 1 .. n /\ m + (i - m) = i
      BY <1>1, <2>2
    <3>. QED BY <1>3, <1>4, <3>1
  <2>. QED BY <2>1, <2>2
<1>5. RbWell(u)
  BY <1>4 DEF RbWell, Well
<1>. QED BY <1>1, <1>5 DEF u

LEMMA RbStub ==
  ASSUME family = "rb"
  PROVE  /\ Stub \in Seq(RbStubLine) /\ RbWell(Stub) /\ Stub \in Seq(RbLine)
         /\ Len(Stub) >= 1 /\ RbMine(Stub[1])
<1> DEFINE N == Len(StubOrder)
           T == RbStubLine
           Good == {x \in Seq(T) : RbWell(x)}
           class == Line(0, "class", Own)
           ctor == Line(1, "def", Ctor)
           close == Line(1, "end", 0)
           last == Line(0, "end", 0)
           head == <<class, ctor, close>>
           M(i) == <<Line(1, "def", StubOrder[i]), Line(2, "stub", 0), Line(1, "end", 0)>>
           ss == [i \in 1 .. N |-> M(i)]
           mid == FlattenSeq(ss)
<1>1. N \in Nat /\ DOMAIN StubOrder = 1 .. N /\ \A i \in 1 .. N : StubOrder[i] \in Method
  BY MethodsAreNumbers
<1>2. ASSUME NEW in \in {0, 1, 2}, NEW k \in {"class", "def", "end"}, NEW n \in Method \cup {0, Own, Ctor}
      PROVE  Line(in, k, n) \in T /\ Line(in, k, n).k = k /\ Line(in, k, n).n = n
  <2>1. in \in Nat /\ k \in Kinds("rb") /\ k # "stub"
    BY DEF Kinds, Braces
  <2>2. Line(in, k, n) \in LinesOf(Kinds("rb"))
    BY <2>1, LineIs, Zenon
  <2>3. Line(in, k, n).k = k /\ Line(in, k, n).n = n
    BY DEF Line
  <2>. QED BY <2>1, <2>2, <2>3 DEF RbStubLine, RbLine, Fine
<1>3. Line(2, "stub", 0) \in T /\ Line(2, "stub", 0).k = "stub"
  <2>1. "stub" \in Kinds("rb")
    BY DEF Kinds
  <2>2. /\ Line(2, "stub", 0) \in LinesOf(Kinds("rb")) /\ Line(2, "stub", 0).k = "stub"
        /\ Line(2, "stub", 0).n = 0 /\ Line(2, "stub", 0).in = 2
    BY <2>1, LineIs
  <2>. QED BY <2>2 DEF RbStubLine, RbLine, Fine
<1>4. ASSUME NEW a \in T, NEW b \in T, NEW c \in T, a.k = "def" => b.k = "end", b.k = "def" => c.k = "end", c.k = "end"
      PROVE  <<a, b, c>> \in Good
  <2> DEFINE x == <<a, b, c>>
  <2>. HIDE DEF T
  <2>1. x \in Seq(T) /\ Len(x) = 3 /\ x[1] = a /\ x[2] = b /\ x[3] = c
    OBVIOUS
  <2>. HIDE DEF x
  <2>2. \A i \in 1 .. Len(x) : i = 1 \/ i = 2 \/ i = 3
    BY <2>1
  <2>3. RbWell(x)
    BY <1>4, <2>1, <2>2 DEF RbWell
  <2>. QED BY <2>1, <2>3 DEF x
<1>5. head \in Good
  <2>1. class \in T /\ ctor \in T /\ close \in T /\ class.k = "class" /\ ctor.k = "def" /\ close.k = "end"
    BY <1>2
  <2>. HIDE DEF class, ctor, close, T, Good
  <2>. QED BY <1>4, <2>1
<1>6. ASSUME NEW i \in 1 .. N PROVE M(i) \in Good
  <2> DEFINE a == Line(1, "def", StubOrder[i])
             b == Line(2, "stub", 0)
             c == Line(1, "end", 0)
             x == <<a, b, c>>
  <2>1. a \in T /\ b \in T /\ c \in T /\ a.k = "def" /\ b.k = "stub" /\ c.k = "end"
    BY <1>1, <1>2, <1>3
  <2>. HIDE DEF a, b, c, T
  <2>2. x \in Seq(T) /\ Len(x) = 3 /\ x[1] = a /\ x[2] = b /\ x[3] = c
    BY <2>1
  <2>. HIDE DEF x
  <2>3. \A j \in 1 .. Len(x) : x[j].k = "def" => j = 1
    <3>1. \A j \in 1 .. Len(x) : j = 1 \/ j = 2 \/ j = 3
      BY <2>2
    <3>. QED BY <2>1, <2>2, <3>1
  <2>4. RbWell(x)
    BY <2>1, <2>2, <2>3 DEF RbWell
  <2>. QED BY <2>2, <2>4 DEF x, a, b, c
<1>7. <<last>> \in Good
  <2>1. last \in T /\ last.k = "end"
    BY <1>2
  <2>. HIDE DEF T, last
  <2>2. <<last>> \in Seq(T) /\ Len(<<last>>) = 1 /\ \A i \in 1 .. 1 : <<last>>[i] = last
    BY <2>1
  <2>3. RbWell(<<last>>)
    BY <2>1, <2>2 DEF RbWell
  <2>. QED BY <2>2, <2>3
<1>8. \A x, y \in Good : x \o y \in Good
  BY RbWellCat
<1>. HIDE DEF M, N
<1>9. ss \in Seq(Seq(T)) /\ Len(ss) = N /\ \A i \in 1 .. N : ss[i] \in Good
  <2>1. ss \in [1 .. N -> Seq(T)] /\ \A i \in 1 .. N : ss[i] \in Good
    BY <1>6
  <2>. HIDE DEF ss, T, Good
  <2>. QED BY <1>1, <2>1, MakeSeq
<1>10. Stub = head \o mid \o <<last>>
  <2>1. Stub = Rb!Full
    BY DEF Stub, Braces
  <2>. QED BY <1>1, <2>1, RbLines DEF Rb!Full, M, N
<1>11. \A x \in Good : x \in Seq(T)
  OBVIOUS
<1>12. head \in Seq(T) /\ Len(head) = 3 /\ RbMine(head[1])
  <2>1. head \in Seq(T)
    BY <1>5
  <2>2. RbMine(class)
    BY DEF RbMine, Line
  <2>. HIDE DEF class, ctor, close, T
  <2>. QED BY <2>1, <2>2
<1>. HIDE DEF ss, head, last, Good
<1>13. head \o mid \in Good
  <2>. HIDE DEF T
  <2>1. \A i \in 1 .. Len(ss), s, c \in Seq(T) : s \in Good /\ c = ss[i] => s \o c \in Good
    BY <1>8, <1>9
  <2>. QED BY <1>5, <1>9, <1>12, <2>1, FlatOnto
<1>14. Stub \in Good /\ Stub \in Seq(T)
  BY <1>7, <1>8, <1>10, <1>11, <1>13
<1>15. Len(Stub) >= 1 /\ RbMine(Stub[1])
  <2>. HIDE DEF T
  <2>1. mid \in Seq(T) /\ head \o mid \in Seq(T) /\ <<last>> \in Seq(T)
    BY <1>7, <1>9, <1>11, <1>13, FlatType
  <2>. HIDE DEF mid
  <2>2. PICK h \in Seq(T), x \in Seq(T), y \in Seq(T), z \in Seq(T) :
          h = head /\ x = mid /\ y = <<last>> /\ z = h \o x
    BY <1>12, <2>1
  <2>3. Len(h) = 3 /\ RbMine(h[1]) /\ 1 \in 1 .. Len(h)
    BY <1>12, <2>2, SMTT(30)
  <2>4. Len(z) = Len(h) + Len(x) /\ Len(x) \in Nat /\ z[1] = h[1]
    <3>1. /\ Len(h \o x) = Len(h) + Len(x) /\ Len(x) \in Nat
          /\ \A i \in 1 .. Len(h) : (h \o x)[i] = h[i]
      BY Cat
    <3>. QED BY <2>2, <2>3, <3>1
  <2>5. Stub = z \o y /\ 1 \in 1 .. Len(z)
    BY <1>10, <2>2, <2>3, <2>4
  <2>6. Len(z \o y) = Len(z) + Len(y) /\ Len(y) \in Nat /\ (z \o y)[1] = z[1]
    BY <2>5, Cat
  <2>. QED BY <2>3, <2>4, <2>5, <2>6
<1>16. Stub \in Seq(RbLine)
  <2>1. \A i \in 1 .. Len(Stub) : Stub[i] \in RbLine
    BY <1>14 DEF RbStubLine
  <2>. HIDE DEF T
  <2>. QED BY <1>14, <2>1, Sieved
<1>. QED BY <1>14, <1>15, <1>16 DEF Good

LEMMA RbShort ==
  ASSUME NEW y \in Seq(RbLine), NEW n, y[1].k = "def", y[1].n = n, y[Len(y)].k = "end",
         Len(y) = 2 \/ (Len(y) = 3 /\ y[2].k = "stub")
  PROVE  RbBody(y, {n})
<1> DEFINE d == Rb!Depth(y)
           f == RbAt(y)
<1>1. /\ d[0] = 0 /\ \A i \in 0 .. Len(y) - 1 : d[i + 1] = d[i] + RbStep(f[i], y[i + 1])
  BY RbDepth
<1>2. f[0] = "code" /\ \A i \in 1 .. Len(y) : f[i] = RbTurn(f[i - 1], y[i])
  BY RbRuns DEF RbRun
<1>. HIDE DEF d, f
<1>3. f[1] = "code" /\ d[1] = 1
  <2>1. 1 \in 1 .. Len(y) /\ 1 - 1 = 0 /\ 0 \in 0 .. Len(y) - 1 /\ 0 + 1 = 1
    OBVIOUS
  <2>2. f[1] = RbTurn("code", y[1]) /\ d[1] = 0 + RbStep("code", y[1])
    BY <1>1, <1>2, <2>1
  <2>. QED BY <2>2 DEF RbTurn, RbStep, RbOpen
<1>4. 2 \in 1 .. Len(y) /\ f[2] = RbTurn("code", y[2]) /\ d[2] = 1 + RbStep("code", y[2])
  <2>1. 2 \in 1 .. Len(y) /\ 2 - 1 = 1 /\ 1 \in 0 .. Len(y) - 1 /\ 1 + 1 = 2
    OBVIOUS
  <2>. QED BY <1>1, <1>2, <1>3, <2>1
<1>5. CASE Len(y) = 2
  <2>1. d[2] = 0
    BY <1>4, <1>5 DEF RbStep, RbOpen
  <2>2. \A i \in 1 .. Len(y) : i = 1 \/ i = 2
    BY <1>5
  <2>. QED BY <1>3, <1>5, <2>1, <2>2 DEF RbBody, d
<1>6. CASE Len(y) = 3 /\ y[2].k = "stub"
  <2>1. d[2] = 1 /\ f[2] = "code"
    BY <1>4, <1>6 DEF RbStep, RbOpen, RbTurn
  <2>2. d[3] = 0
    <3>1. 2 \in 0 .. Len(y) - 1 /\ 2 + 1 = 3
      BY <1>6
    <3>2. d[3] = 1 + RbStep("code", y[3])
      BY <1>1, <2>1, <3>1
    <3>. QED BY <1>6, <3>2 DEF RbStep, RbOpen
  <2>3. \A i \in 1 .. Len(y) : i = 1 \/ i = 2 \/ i = 3
    BY <1>6
  <2>. QED BY <1>3, <1>6, <2>1, <2>2, <2>3 DEF RbBody, d
<1>. QED BY <1>5, <1>6

LEMMA RbStubBlock ==
  ASSUME family = "rb", NEW n
  PROVE  RbBody(Rb!MethodBlock(Stub, n), {n})
<1> DEFINE N == Len(Stub)
           defs == {i \in 1 .. N : Stub[i].k = "def" /\ Stub[i].n = n}
           ends == {i \in 1 .. N : Stub[i].k = "end"}
           a == FirstOf(defs, 1, Stub)
           b == FirstOf(ends, a, Stub)
           y == SubSeq(Stub, a, b)
<1>1. Stub \in Seq(RbLine) /\ RbWell(Stub) /\ N \in Nat /\ DOMAIN Stub = 1 .. N
      /\ \A i \in 1 .. N : Stub[i] \in RbLine
  BY RbStub
<1>2. Rb!MethodBlock(Stub, n) = IF a > N THEN <<>> ELSE y
  BY <1>1, RbLines DEF Rb!MethodBlock, Rb!Ends, Rb!Where
<1>3. a \in Nat /\ (a \in defs \/ a = N + 1)
  <2>1. defs \in SUBSET (1 .. N)
    OBVIOUS
  <2>. HIDE DEF defs
  <2>. QED BY <1>1, <2>1, FirstOfIs
<1>4. /\ b \in Nat /\ ((b \in ends /\ b >= a) \/ b = N + 1)
      /\ \A j \in ends : j >= a => b <= j
  <2>1. ends \in SUBSET (1 .. N)
    OBVIOUS
  <2>. HIDE DEF ends, a
  <2>. QED BY <1>1, <1>3, <2>1, FirstOfIs
<1>. HIDE DEF a, b
<1>5. CASE a = N + 1
  <2>1. Rb!MethodBlock(Stub, n) = <<>>
    BY <1>1, <1>2, <1>5
  <2>2. <<>> \in Seq(RbQuiet)
    OBVIOUS
  <2>. QED BY <2>1, <2>2, RbQuietBody
<1>6. CASE a \in defs
  <2>1. a \in 1 .. N /\ ~(a > N) /\ Stub[a].k = "def" /\ Stub[a].n = n
    BY <1>1, <1>6
  <2>2. /\ a + 1 \in 1 .. N
        /\ \/ Stub[a + 1].k = "end"
           \/ a + 2 \in 1 .. N /\ Stub[a + 1].k = "stub" /\ Stub[a + 2].k = "end"
    BY <1>1, <2>1 DEF RbWell
  <2>3. \/ b = a + 1 /\ Stub[a + 1].k = "end"
        \/ b = a + 2 /\ a + 2 \in 1 .. N /\ Stub[a + 1].k = "stub" /\ Stub[a + 2].k = "end"
    <3>1. a \notin ends
      BY <2>1
    <3>2. CASE Stub[a + 1].k = "end"
      <4>1. a + 1 \in ends /\ a + 1 >= a
        BY <2>1, <2>2, <3>2
      <4>2. b <= a + 1 /\ b # a /\ b >= a
        BY <1>1, <1>4, <2>1, <2>2, <3>1, <4>1
      <4>. QED BY <1>4, <2>1, <3>2, <4>2
    <3>3. CASE a + 2 \in 1 .. N /\ Stub[a + 1].k = "stub" /\ Stub[a + 2].k = "end"
      <4>1. a + 2 \in ends /\ a + 2 >= a /\ a + 1 \notin ends
        BY <2>1, <3>3
      <4>2. b <= a + 2 /\ b # a /\ b # a + 1 /\ b >= a
        BY <1>1, <1>4, <2>1, <3>1, <3>3, <4>1
      <4>. QED BY <1>4, <2>1, <3>3, <4>2
    <3>. QED BY <2>2, <3>2, <3>3
  <2>4. /\ y \in Seq(RbLine) /\ Len(y) = b - a + 1
        /\ \A j \in 1 .. b - a + 1 : y[j] = Stub[a + j - 1]
    <3>1. a \in Int /\ b \in Int /\ a <= b + 1 /\ \A j \in a .. b : Stub[j] \in RbLine
      BY <1>1, <2>1, <2>2, <2>3
    <3>. QED BY <3>1, SubSeqProperties
  <2>. HIDE DEF y
  <2>5. y[1] = Stub[a] /\ y[2] = Stub[a + 1] /\ y[Len(y)] = Stub[b]
        /\ (b = a + 1 => Len(y) = 2) /\ (b = a + 2 => Len(y) = 3)
    <3>1. /\ 1 \in 1 .. b - a + 1 /\ 2 \in 1 .. b - a + 1 /\ Len(y) \in 1 .. b - a + 1
          /\ a + 1 - 1 = a /\ a + 2 - 1 = a + 1 /\ a + (b - a + 1) - 1 = b
      <4>1. a \in Int /\ (b = a + 1 \/ b = a + 2) /\ Len(y) = b - a + 1
        BY <2>1, <2>3, <2>4
      <4>. QED BY <4>1
    <3>2. y[1] = Stub[a]
      BY <2>4, <3>1
    <3>3. y[2] = Stub[a + 1]
      BY <2>4, <3>1
    <3>4. y[Len(y)] = Stub[a + Len(y) - 1]
      BY <2>4, <3>1
    <3>5. Len(y) = b - a + 1 /\ a \in Int /\ b \in Int
      BY <2>1, <2>3, <2>4
    <3>6. y[Len(y)] = Stub[b]
      <4>1. a + Len(y) - 1 = b
        BY <3>5
      <4>. QED BY <3>4, <4>1
    <3>7. (b = a + 1 => Len(y) = 2) /\ (b = a + 2 => Len(y) = 3)
      BY <3>5
    <3>. QED BY <3>2, <3>3, <3>6, <3>7
  <2>6. RbBody(y, {n})
    BY <2>1, <2>3, <2>4, <2>5, RbShort
  <2>. QED BY <1>2, <2>1, <2>6
<1>. QED BY <1>3, <1>5, <1>6

(* What a merge adds is in front of the end of the class.                  *)
LEMMA RbMerge ==
  ASSUME family = "rb", NEW A \in SUBSET Method, NEW t \in Seq(RbLine), ~Rb!MergeFails(t, A)
  PROVE  <<t, Rb!Merge(t, Stub, A)>> \in RbLike(A)
<1> DEFINE S == Rb!MissingFrom(t, A)
           N == Len(StubOrder)
           B(n) == IF n \in S THEN Rb!MethodBlock(Stub, n) ELSE <<>>
           ss == [n \in 1 .. N |-> B(n)]
           extras == FlattenSeq(ss)
           close == Rb!ClassClose(t)
           b == Before(t, close)
           c == After(t, close)
           R == RbLike(A)
<1>1. N \in Nat /\ DOMAIN StubOrder = 1 .. N /\ Len(t) \in Nat
  BY MethodsAreNumbers
<1>2. Rb!Merge(t, Stub, A) = IF S = {} THEN t ELSE b \o extras \o c
  BY <1>1, RbLines DEF Rb!Merge, Rb!Blocks
<1>3. S \subseteq A
  BY DEF Rb!MissingFrom
<1>. HIDE DEF S
<1>4. ASSUME NEW n \in 1 .. N PROVE RbBody(B(n), A)
  <2>1. CASE n \in S
    <3>1. RbBody(Rb!MethodBlock(Stub, n), {n}) /\ {n} \cap Method \subseteq A
      BY <1>3, <2>1, RbStubBlock
    <3>. QED BY <2>1, <3>1, RbBodyMore
  <2>2. CASE n \notin S
    <3>1. <<>> \in Seq(RbQuiet)
      OBVIOUS
    <3>2. RbBody(<<>>, A)
      BY <3>1, RbQuietBody
    <3>. QED BY <2>2, <3>2
  <2>. QED BY <2>1, <2>2
<1>. HIDE DEF B
<1>5. ss \in Seq(Seq(RbLine)) /\ Len(ss) = N /\ \A i \in 1 .. N : RbBody(ss[i], A)
  <2>1. ss \in [1 .. N -> Seq(RbLine)]
    BY <1>4 DEF RbBody
  <2>2. \A i \in 1 .. N : ss[i] = B(i)
    OBVIOUS
  <2>. HIDE DEF ss
  <2>3. ss \in Seq(Seq(RbLine)) /\ Len(ss) = N
    BY <1>1, <2>1, MakeSeq
  <2>. QED BY <1>4, <2>2, <2>3
<1>6. CASE S = {}
  BY <1>2, <1>6, RbLikeSelf
<1>7. CASE S # {}
  <2>1. close \in 1 .. Len(t) + 1
    <3> DEFINE a == Rb!ClassStart(t)
               own == {i \in Rb!Code(t) : t[i].k \in {"class", "class1"} /\ t[i].n = Rb!Own}
               ends == {i \in Rb!Code(t) \cap Rb!Ends(t) : t[i].in = t[a].in}
    <3>0. Rb!HasSpan(t)
      BY <1>7 DEF Rb!MergeFails, S
    <3>1. a = FirstOf(own, 1, t) /\ close = IF a > Len(t) THEN a ELSE FirstOf(ends, a + 1, t)
      BY RbLines DEF Rb!ClassStart, Rb!ClassClose
    <3>2. own \in SUBSET (1 .. Len(t)) /\ ends \in SUBSET (1 .. Len(t))
      BY RbCode
    <3>. HIDE DEF own, ends, a, close
    <3>3. a \in Nat /\ (a \in own \/ a = Len(t) + 1)
      BY <1>1, <3>1, <3>2, FirstOfIs
    <3>4. FirstOf(ends, a + 1, t) \in Nat /\ (FirstOf(ends, a + 1, t) \in ends \/ FirstOf(ends, a + 1, t) = Len(t) + 1)
      <4>1. a + 1 \in Nat
        BY <3>3
      <4>. QED BY <1>1, <3>2, <4>1, FirstOfIs
    <3>. QED BY <1>1, <3>1, <3>2, <3>3, <3>4
  <2>. HIDE DEF close, ss
  <2>2. b \in Seq(RbLine) /\ c \in Seq(RbLine) /\ t = b \o c
    BY <2>1, CutType, CutWhole
  <2>. HIDE DEF b, c, R
  <2>3. <<b, b \o extras>> \in R
    <3>1. \A i \in 1 .. Len(ss) : RbBody(ss[i], A)
      BY <1>5
    <3>. QED BY <1>5, <2>2, <3>1, RbLikeSelf, RbLikeBodies DEF R
  <2>. HIDE DEF extras
  <2>4. \A s, r \in Seq(RbLine), l \in RbLine : <<s, r>> \in R => <<Append(s, l), Append(r, l)>> \in R
    BY RbLikeSame DEF R
  <2>5. b \o extras \in Seq(RbLine)
    BY <2>3, RbLikeIs DEF R
  <2>6. <<b \o c, b \o extras \o c>> \in R
    BY <2>2, <2>3, <2>4, <2>5, SameTail
  <2>. QED BY <1>2, <1>7, <2>2, <2>6 DEF R
<1>. QED BY <1>6, <1>7

LEMMA RbSlice ==
  ASSUME family = "rb", NEW A \in SUBSET Method
  PROVE  Rb!Slice(Stub, A) \in Seq(RbLine) /\ Rb!Methods(Rb!Slice(Stub, A)) \subseteq A
<1> DEFINE n == Len(Stub)
           a == Rb!ClassStart(Stub)
           head == <<Stub[a]>>
           ctor == Rb!MethodBlock(Stub, Ctor)
           B(i) == IF Rb!IsDef(Stub[i]) /\ Stub[i].n \in A THEN Rb!MethodBlock(Stub, Stub[i].n) ELSE <<>>
           ss == [i \in 1 .. n |-> B(i)]
           last == Line(0, "end", 0)
           hc == head \o ctor
           all == hc \o FlattenSeq(ss)
<1>1. /\ Stub \in Seq(RbLine) /\ n \in Nat /\ n >= 1 /\ RbMine(Stub[1]) /\ DOMAIN Stub = 1 .. n
      /\ \A i \in 1 .. n : Stub[i] \in RbLine
  BY RbStub
<1>2. a = 1
  <2> DEFINE own == {i \in Rb!Code(Stub) : Stub[i].k \in {"class", "class1"} /\ Stub[i].n = Rb!Own}
  <2>1. a = FirstOf(own, 1, Stub)
    BY RbLines DEF Rb!ClassStart
  <2>2. own \in SUBSET (1 .. n) /\ 1 \in own
    <3>1. RbAt(Stub)[0] = "code"
      BY <1>1, RbRuns DEF RbRun
    <3>2. 1 \in 1 .. n /\ 1 - 1 = 0
      BY <1>1
    <3>3. 1 \in Rb!Code(Stub) /\ Rb!Code(Stub) \subseteq 1 .. n
      BY <1>1, <3>1, <3>2, RbCode DEF RbMine
    <3>. QED BY <1>1, <3>3, RbLines DEF RbMine
  <2>. HIDE DEF own, a, n
  <2>3. a \in Nat /\ (a >= 1 \/ a = n + 1) /\ a <= 1
    <3>1. \A j \in own : j >= 1 => FirstOf(own, 1, Stub) <= j
      BY <1>1, <2>2, FirstOfIs DEF n
    <3>2. FirstOf(own, 1, Stub) \in Nat /\ (FirstOf(own, 1, Stub) >= 1 \/ FirstOf(own, 1, Stub) = n + 1)
      BY <1>1, <2>2, FirstOfIs DEF n
    <3>. QED BY <2>1, <2>2, <3>1, <3>2
  <2>. QED BY <1>1, <2>3
<1>3. head \in Seq(RbLine) /\ Rb!Methods(head) = {}
  <2> DEFINE l == Stub[a]
  <2>1. l \in RbLine /\ RbMine(l)
    BY <1>1, <1>2
  <2>. HIDE DEF l
  <2>2. Append(<<>>, l) = <<l>> /\ <<l>> \in Seq(RbLine) /\ ~RbHere(<<>>)
    BY <2>1, RbEmpty DEF RbHere
  <2>3. Rb!Methods(Append(<<>>, l)) = Rb!Methods(<<>>) \cup (IF RbHere(<<>>) /\ RbDef(l) THEN {l.n} \cap Method ELSE {})
    <3>1. PICK e \in Seq(RbLine) : e = <<>>
      BY RbEmpty
    <3>. QED BY <2>1, <3>1, RbNextLine
  <2>. QED BY <2>2, <2>3, RbEmpty DEF l
<1>4. ASSUME NEW i \in 1 .. n PROVE RbBody(B(i), A)
  <2>1. CASE Rb!IsDef(Stub[i]) /\ Stub[i].n \in A
    <3>1. RbBody(Rb!MethodBlock(Stub, Stub[i].n), {Stub[i].n}) /\ {Stub[i].n} \cap Method \subseteq A
      BY <2>1, RbStubBlock
    <3>. QED BY <2>1, <3>1, RbBodyMore
  <2>2. CASE ~(Rb!IsDef(Stub[i]) /\ Stub[i].n \in A)
    <3>1. <<>> \in Seq(RbQuiet)
      OBVIOUS
    <3>2. RbBody(<<>>, A)
      BY <3>1, RbQuietBody
    <3>. QED BY <2>2, <3>2
  <2>. QED BY <2>1, <2>2
<1>5. RbBody(ctor, A)
  <2>1. RbBody(ctor, {Ctor}) /\ {Ctor} \cap Method \subseteq A
    BY RbStubBlock, MethodsAreNumbers
  <2>. HIDE DEF ctor
  <2>. QED BY <2>1, RbBodyMore
<1>. HIDE DEF B, ctor, head
<1>6. ss \in Seq(Seq(RbLine)) /\ Len(ss) = n /\ \A i \in 1 .. n : RbBody(ss[i], A)
  <2>1. ss \in [1 .. n -> Seq(RbLine)]
    BY <1>4 DEF RbBody
  <2>2. \A i \in 1 .. n : ss[i] = B(i)
    OBVIOUS
  <2>. HIDE DEF ss, n
  <2>3. ss \in Seq(Seq(RbLine)) /\ Len(ss) = n
    BY <1>1, <2>1, MakeSeq
  <2>. QED BY <1>4, <2>2, <2>3
<1>7. last \in RbLine /\ last.k = "end"
  <2>1. "end" \in Kinds("rb")
    BY DEF Kinds, Braces
  <2>2. last \in LinesOf(Kinds("rb")) /\ last.k = "end"
    BY <2>1, LineIs
  <2>. HIDE DEF last
  <2>. QED BY <2>2 DEF RbLine, Fine
<1>8. Rb!Slice(Stub, A) = all \o <<last>>
  BY <1>1, RbLines DEF Rb!Slice, head, ctor, B
<1>. HIDE DEF ss, last, n
<1>9. <<head, hc>> \in RbLike(A)
  BY <1>3, <1>5, RbLikeSelf, RbLikeBody
<1>. HIDE DEF hc
<1>10. <<head, all>> \in RbLike(A)
  <2>1. \A i \in 1 .. Len(ss) : RbBody(ss[i], A)
    BY <1>6
  <2>. QED BY <1>6, <1>9, <2>1, RbLikeBodies
<1>. HIDE DEF all
<1>11. all \in Seq(RbLine) /\ Rb!Methods(all) \subseteq A
  BY <1>3, <1>10, RbLikeIs
<1>12. all \o <<last>> = Append(all, last)
  BY <1>7, <1>11, AttachLine
<1>13. Append(all, last) \in Seq(RbLine) /\ Rb!Methods(Append(all, last)) = Rb!Methods(all)
  BY <1>7, <1>11, RbNextLine DEF RbDef
<1>. QED BY <1>8, <1>11, <1>12, <1>13

-----------------------------------------------------------------------------
(* Ruby: the user's edits                                                  *)

(* A body takes the place of each stub's line.                             *)
LEMMA RbAnswers ==
  ASSUME NEW t \in Seq(RbLine), NEW answer, \A m \in Method \cup {0} : RbBody(answer[m], {})
  PROVE  <<t, FlattenSeq([i \in 1 .. Len(t) |-> IF t[i].k = "stub" THEN answer[t[i].n] ELSE <<t[i]>>])>>
           \in RbLike({})
<1> DEFINE n == Len(t)
           M(i) == IF t[i].k = "stub" THEN answer[t[i].n] ELSE <<t[i]>>
           ss == [i \in 1 .. n |-> M(i)]
           R == RbLike({})
<1>1. n \in Nat /\ \A i \in 1 .. n : t[i] \in RbLine
  OBVIOUS
<1>2. ASSUME NEW i \in 1 .. n
      PROVE  /\ M(i) \in Seq(RbLine)
             /\ \A s, r \in Seq(RbLine) : <<s, r>> \in R => <<Append(s, t[i]), r \o M(i)>> \in R
  <2> DEFINE l == t[i]
             x == M(i)
  <2>1. l \in RbLine
    BY <1>1
  <2>2. CASE l.k = "stub"
    <3>1. x = answer[l.n]
      BY <2>2
    <3>2. l.n \in Method \cup {0} /\ l \in RbQuiet
      BY <2>1, <2>2 DEF RbLine, Fine, RbQuiet
    <3>. HIDE DEF x, l, R
    <3>3. RbBody(x, {})
      BY <3>1, <3>2
    <3>4. \A s, r \in Seq(RbLine) : <<s, r>> \in R => <<Append(s, l), r \o x>> \in R
      BY <3>2, <3>3, RbLikeSwap DEF R
    <3>5. x \in Seq(RbLine)
      BY <3>3 DEF RbBody
    <3>. QED BY <3>4, <3>5 DEF x, l
  <2>3. CASE l.k # "stub"
    <3>1. x = <<l>>
      BY <2>3
    <3>. HIDE DEF x, l, R
    <3>2. x \in Seq(RbLine)
      BY <2>1, <3>1
    <3>3. ASSUME NEW s \in Seq(RbLine), NEW r \in Seq(RbLine), <<s, r>> \in R
          PROVE  <<Append(s, l), r \o x>> \in R
      <4>1. <<Append(s, l), Append(r, l)>> \in R
        BY <2>1, <3>3, RbLikeSame DEF R
      <4>. QED BY <2>1, <3>1, <4>1, AttachLine
    <3>. QED BY <3>2, <3>3 DEF x, l
  <2>. QED BY <2>2, <2>3
<1>. HIDE DEF M
<1>3. ss \in Seq(Seq(RbLine)) /\ Len(ss) = n /\ \A i \in 1 .. n : ss[i] = M(i)
  <2>1. \A i \in 1 .. n : ss[i] = M(i)
    OBVIOUS
  <2>2. ss \in [1 .. n -> Seq(RbLine)]
    BY <1>2
  <2>. HIDE DEF ss, n
  <2>. QED BY <1>1, <2>1, <2>2, MakeSeq
<1>. HIDE DEF ss
<1>4. <<<<>>, <<>>>> \in R
  BY RbEmpty, RbLikeSelf
<1>5. ASSUME NEW i \in 1 .. Len(t), NEW s \in Seq(RbLine), NEW r \in Seq(RbLine), NEW c \in Seq(RbLine),
             <<s, r>> \in R, c = ss[i]
      PROVE  <<Append(s, t[i]), r \o c>> \in R
  BY <1>2, <1>3, <1>5
<1>. HIDE DEF R
<1>6. <<t, FlattenSeq(ss)>> \in R
  BY <1>3, <1>4, <1>5, FlatSim
<1>. QED BY <1>6 DEF R, ss, M

(* Without its last line, a file shows no more.                            *)
LEMMA RbPrefix ==
  ASSUME NEW t \in Seq(RbLine), t # <<>>
  PROVE  /\ Before(t, Len(t)) \in Seq(RbLine)
         /\ Rb!Methods(Before(t, Len(t))) \subseteq Rb!Methods(t)
<1> DEFINE b == Before(t, Len(t))
           l == t[Len(t)]
           c == After(t, Len(t) + 1)
<1>1. Len(t) \in 1 .. Len(t)
  OBVIOUS
<1>2. b \in Seq(RbLine) /\ l \in RbLine /\ t = Append(b, l) \o c
  BY <1>1, CutLine
<1>3. c = <<>>
  BY <1>1 DEF After
<1>4. t = Append(b, l)
  BY <1>2, <1>3
<1>. HIDE DEF b, l
<1>5. Rb!Methods(b) \subseteq Rb!Methods(Append(b, l))
  BY <1>2, RbNextLine
<1>. QED BY <1>2, <1>4, <1>5 DEF b

-----------------------------------------------------------------------------
(* All families: what each change of the file makes of it                  *)

LEMMA FamilyIs ==
  ASSUME family \in Families
  PROVE  \/ family = "py" /\ family \notin Braces \cup Comments
         \/ family = "rb" /\ family \notin Braces \cup Comments
         \/ family \in Braces /\ family \notin {"py", "rb"} \cup Comments
         \/ family \in Comments /\ family \notin {"py", "rb"} \cup Braces
BY WorkFileAssumption DEF Braces, Comments

LEMMA FineComments ==
  family \in Comments => Fine(family) = LinesOf(Kinds(family))
<1>1. ASSUME family \in Comments, NEW l \in LinesOf(Kinds(family))
      PROVE  l.k # "stub"
  <2>1. l.k \in Kinds(family)
    BY <1>1 DEF LinesOf
  <2>. QED BY <1>1, <2>1 DEF Kinds, Comments, Braces
<1>2. family \in Comments => family # "java"
  BY DEF Comments
<1>. QED BY <1>1, <1>2 DEF Fine

LEMMA FineTexts ==
  ASSUME family \in Families, NEW t \in Seq(Fine(family))
  PROVE  t \in Texts(family) /\ t # NoFile
<1>1. \A i \in 1 .. Len(t) : t[i] \in Fine(family)
  OBVIOUS
<1>2. \A i \in 1 .. Len(t) : t[i] \in LinesOf(Kinds(family))
  BY <1>1 DEF Fine
<1>3. t \in Texts(family)
  BY <1>2, Sieved DEF Texts
<1>. QED BY <1>3, NoFileAssumption

(* What a method's slice shows is open, and its lines are lines of files.  *)
LEMMA SlicedIs ==
  ASSUME family \in Families, NEW l
  PROVE  Sliced(l) \in Seq(Fine(family)) /\ Methods(Sliced(l)) \subseteq Allowed(l)
<1>1. Allowed(l) \in SUBSET Method
  BY AllowedAre
<1>2. CASE family = "py"
  <2>1. Sliced(l) = Py!Slice(Stub, Allowed(l))
    BY <1>2 DEF Sliced, Braces
  <2>2. /\ Py!Slice(Stub, Allowed(l)) \in Seq(Fine("py"))
        /\ PyNames(Py!Slice(Stub, Allowed(l))) \subseteq Allowed(l) \cup {Ctor}
    BY <1>1, <1>2, PySlice
  <2>3. Ctor \notin Method
    BY MethodsAreNumbers DEF Ctor
  <2>4. Methods(Sliced(l)) = PyNames(Sliced(l)) \cap Method
    BY <1>2, PyLines DEF Methods, Py!Methods, PyNames, Braces
  <2>. QED BY <1>2, <2>1, <2>2, <2>3, <2>4
<1>3. CASE family = "rb"
  <2>1. Sliced(l) = Rb!Slice(Stub, Allowed(l)) /\ Methods(Sliced(l)) = Rb!Methods(Sliced(l))
    BY <1>3 DEF Sliced, Methods, Braces
  <2>. QED BY <1>1, <1>3, <2>1, RbSlice, RbLineIs
<1>4. CASE family \in Braces
  <2>1. /\ Sliced(l) = Br!Slice(family, Stub, Allowed(l))
        /\ Methods(Sliced(l)) = Br!Methods(Sliced(l))
    BY <1>4 DEF Sliced, Methods, Braces
  <2>. QED BY <1>1, <1>4, <2>1, BrSlice, BrLineIs
<1>5. CASE family \in Comments
  <2>1. /\ Sliced(l) = Co!Slice(Stub, Allowed(l))
        /\ Methods(Sliced(l)) = Co!Methods(Sliced(l))
    BY <1>5 DEF Sliced, Methods, Braces, Comments
  <2>2. Co!Slice(Stub, Allowed(l)) \in Seq(CoNames(Allowed(l)))
    BY <1>1, <1>5, CoSlice
  <2>. QED BY <1>5, <2>1, <2>2, CoNamed, FineComments DEF Texts
<1>. QED BY <1>2, <1>3, <1>4, <1>5, FamilyIs

(* A merge adds to what a file shows at most what is open.                 *)
LEMMA MergedIs ==
  ASSUME family \in Families, NEW l, NEW t \in Seq(Fine(family)), ~Refuses(t, l)
  PROVE  /\ Merged(t, l) \in Seq(Fine(family))
         /\ Methods(Merged(t, l)) \subseteq Methods(t) \cup Allowed(l)
<1>1. Allowed(l) \in SUBSET Method
  BY AllowedAre
<1>2. CASE family = "py"
  <2>1. Merged(t, l) = Py!Merge(t, Stub, Allowed(l)) /\ ~Py!MergeFails(t, Allowed(l))
    BY <1>2 DEF Merged, Refuses, Braces
  <2>2. <<t, Merged(t, l)>> \in PyLike(Allowed(l))
    BY <1>1, <1>2, <2>1, PyMerge
  <2>3. Merged(t, l) \in Seq(Fine("py")) /\ PyNames(Merged(t, l)) \subseteq PyNames(t) \cup Allowed(l)
    BY <2>2, PyLikeIs
  <2>4. \A u : Methods(u) = PyNames(u) \cap Method
    BY <1>2, PyLines DEF Methods, Py!Methods, PyNames, Braces
  <2>. QED BY <1>2, <2>3, <2>4
<1>3. CASE family = "rb"
  <2>1. Merged(t, l) = Rb!Merge(t, Stub, Allowed(l)) /\ ~Rb!MergeFails(t, Allowed(l))
    BY <1>3 DEF Merged, Refuses, Braces
  <2>2. t \in Seq(RbLine)
    BY <1>3, RbLineIs
  <2>3. <<t, Merged(t, l)>> \in RbLike(Allowed(l))
    BY <1>1, <1>3, <2>1, <2>2, RbMerge
  <2>4. Merged(t, l) \in Seq(RbLine) /\ Rb!Methods(Merged(t, l)) \subseteq Rb!Methods(t) \cup Allowed(l)
    BY <2>3, RbLikeIs
  <2>5. \A u : Methods(u) = Rb!Methods(u)
    BY <1>3 DEF Methods, Braces
  <2>. QED BY <1>3, <2>4, <2>5, RbLineIs
<1>4. CASE family \in Braces
  <2>1. Merged(t, l) = Br!Merge(family, t, Stub, Allowed(l)) /\ ~Br!MergeFails(family, t, Allowed(l))
    BY <1>4 DEF Merged, Refuses, Braces
  <2>2. t \in Seq(BrLine)
    BY <1>4, BrLineIs
  <2>3. <<t, Merged(t, l)>> \in BrLike(Allowed(l))
    BY <1>1, <1>4, <2>1, <2>2, BrMerge
  <2>4. Merged(t, l) \in Seq(BrLine) /\ Br!Methods(Merged(t, l)) \subseteq Br!Methods(t) \cup Allowed(l)
    BY <2>3, BrLikeIs
  <2>5. \A u : Methods(u) = Br!Methods(u)
    BY <1>4 DEF Methods, Braces
  <2>. QED BY <1>4, <2>4, <2>5, BrLineIs
<1>5. CASE family \in Comments
  <2>1. Merged(t, l) = Co!Merge(t, Stub, Allowed(l)) /\ \A u : Methods(u) = Co!Methods(u)
    BY <1>5 DEF Merged, Methods, Braces, Comments
  <2>2. t \in Texts(family)
    BY <1>5, FineComments DEF Texts
  <2>3. Merged(t, l) \in Seq(CoNames(Co!Methods(t) \cup Allowed(l)))
    BY <1>1, <1>5, <2>1, <2>2, CoMerge
  <2>. QED BY <1>5, <2>1, <2>3, CoNamed, FineComments DEF Texts
<1>. QED BY <1>2, <1>3, <1>4, <1>5, FamilyIs

(* A file that is damaged shows no more than it did.                       *)
LEMMA DamagedIs ==
  ASSUME family \in Families, NEW t \in Seq(Fine(family)), t # <<>>
  PROVE  /\ Before(t, Len(t)) \in Seq(Fine(family)) /\ <<>> \in Seq(Fine(family))
         /\ Methods(Before(t, Len(t))) \subseteq Methods(t) /\ Methods(<<>>) = {}
<1>1. <<>> \in Seq(Fine(family))
  OBVIOUS
<1>2. CASE family = "py"
  <2>1. \A u : Methods(u) = PyNames(u) \cap Method
    BY <1>2, PyLines DEF Methods, Py!Methods, PyNames, Braces
  <2>. QED BY <1>1, <1>2, <2>1, PyPrefix, PyNone
<1>3. CASE family = "rb"
  <2>1. t \in Seq(RbLine) /\ \A u : Methods(u) = Rb!Methods(u)
    BY <1>3, RbLineIs DEF Methods, Braces
  <2>. QED BY <1>1, <1>3, <2>1, RbPrefix, RbEmpty, RbLineIs
<1>4. CASE family \in Braces
  <2>1. t \in Seq(BrLine) /\ \A u : Methods(u) = Br!Methods(u)
    BY <1>4, BrLineIs DEF Methods, Braces
  <2>2. Br!Methods(<<>>) = {}
    <3>1. <<>> \in Seq({l \in BrLine : ~BrMine(l)})
      OBVIOUS
    <3>. QED BY <3>1, BrNone
  <2>. QED BY <1>1, <1>4, <2>1, <2>2, BrPrefix, BrLineIs
<1>5. CASE family \in Comments
  <2>1. \A u : Methods(u) = {u[i].n : i \in DOMAIN u} \cap Method
    BY <1>5, CommentLines DEF Methods, Braces, Comments, Co!Methods
  <2>2. Len(t) \in 1 .. Len(t) + 1
    OBVIOUS
  <2>3. /\ Before(t, Len(t)) \in Seq(Fine(family)) /\ Len(Before(t, Len(t))) = Len(t) - 1
        /\ \A j \in 1 .. Len(t) - 1 : Before(t, Len(t))[j] = t[j]
    BY <2>2, CutType
  <2>4. \A j \in DOMAIN Before(t, Len(t)) : j \in DOMAIN t /\ Before(t, Len(t))[j] = t[j]
    BY <2>3
  <2>5. DOMAIN <<>> = {}
    OBVIOUS
  <2>. QED BY <1>1, <2>1, <2>3, <2>4, <2>5
<1>. QED BY <1>2, <1>3, <1>4, <1>5, FamilyIs

(* A Java user's block comments are Javadoc: a method behind another one   *)
(* takes the Javadoc of a method before it for its own (workstub.py:389),  *)
(* and what a merge then cuts out of the file may be any lines of it.      *)
PlainJava ==
  "java" \in Families =>
    LET Plain(t) == Where(t, LAMBDA l : l.k = "rem") = {}
    IN /\ \A id \in Idioms["java"] : Plain(id.lines)
       /\ \A n \in Method \cup {0} : Plain(Answers["java"][n])

(* What a user writes is made of lines of files, and none is a stub's.     *)
LEMMA WrittenIs ==
  ASSUME family \in Families, NEW t \in Texts(family), Where(t, LAMBDA l : l.k = "stub") = {},
         family = "java" => Where(t, LAMBDA l : l.k = "rem") = {}
  PROVE  t \in Seq(Fine(family))
<1>1. \A i \in 1 .. Len(t) : t[i] \in LinesOf(Kinds(family)) /\ DOMAIN t = 1 .. Len(t)
  BY DEF Texts
<1>2. \A i \in 1 .. Len(t) : t[i].k # "stub" /\ (family = "java" => t[i].k # "rem")
  BY <1>1 DEF Where
<1>3. \A i \in 1 .. Len(t) : t[i] \in Fine(family)
  BY <1>1, <1>2 DEF Fine
<1>. HIDE DEF Fine
<1>. QED BY <1>3, Sieved DEF Texts

LEMMA AnswersAre ==
  ASSUME PlainJava, family \in Families, NEW m \in Method \cup {0}
  PROVE  /\ Answers[family][m] \in Seq(Fine(family))
         /\ IsBody(family, m, Answers[family][m])
<1>1. /\ Answers[family][m] \in Texts(family)
      /\ Where(Answers[family][m], LAMBDA l : l.k = "stub") = {}
      /\ IsBody(family, m, Answers[family][m])
  BY UserAssumption
<1>2. family = "java" => Where(Answers[family][m], LAMBDA l : l.k = "rem") = {}
  BY DEF PlainJava
<1>. QED BY <1>1, <1>2, WrittenIs

(* To write the methods that are there shows no others.                    *)
LEMMA AnsweredIs ==
  ASSUME PlainJava, family \in Families, NEW t \in Seq(Fine(family))
  PROVE  /\ Answered(t, Answers[family]) \in Seq(Fine(family))
         /\ Methods(Answered(t, Answers[family])) \subseteq Methods(t)
<1> DEFINE answer == Answers[family]
           ss == [i \in 1 .. Len(t) |-> IF t[i].k = "stub" THEN answer[t[i].n] ELSE <<t[i]>>]
           js == [i \in 1 .. Len(t) |->
                    IF t[i].k = "stub" \/ (family = "js" /\ t[i].k = "sig1" /\ t[i].n \in Method)
                    THEN answer[t[i].n] ELSE <<t[i]>>]
<1>1. DOMAIN t = 1 .. Len(t)
  OBVIOUS
<1>2. family \notin Comments => Answered(t, answer) = FlattenSeq(js) \o <<>>
  BY <1>1 DEF Answered
<1>3. family # "js" => js = ss
  OBVIOUS
<1>4. \A m \in Method \cup {0} : answer[m] \in Seq(Fine(family)) /\ IsBody(family, m, answer[m])
  BY AnswersAre
<1>. HIDE DEF answer, ss, js
<1>5. CASE family = "py"
  <2>1. ASSUME NEW m \in Method \cup {0}
        PROVE  answer[m] \in Seq({l \in Fine("py") : l.in >= 2 /\ l.k # "quote"})
    <3>1. /\ answer[m] \in Seq(Fine("py"))
          /\ \A i \in DOMAIN answer[m] : answer[m][i].in >= 2 /\ answer[m][i].k # "quote"
      BY <1>4, <1>5 DEF IsBody, Braces
    <3>2. \A i \in 1 .. Len(answer[m]) : answer[m][i] \in {l \in Fine("py") : l.in >= 2 /\ l.k # "quote"}
      BY <3>1
    <3>. QED BY <3>1, <3>2, Sieved
  <2>2. <<t, FlattenSeq(ss)>> \in PyLike({})
    BY <1>5, <2>1, PyAnswers DEF ss
  <2>3. FlattenSeq(ss) \in Seq(Fine("py")) /\ PyNames(FlattenSeq(ss)) \subseteq PyNames(t)
    BY <2>2, PyLikeIs
  <2>4. Answered(t, answer) = FlattenSeq(ss)
    BY <1>2, <1>3, <1>5, <2>3 DEF Comments
  <2>5. \A u : Methods(u) = PyNames(u) \cap Method
    BY <1>5, PyLines DEF Methods, Py!Methods, PyNames, Braces
  <2>. QED BY <1>5, <2>3, <2>4, <2>5 DEF answer
<1>6. CASE family = "rb"
  <2>1. t \in Seq(RbLine)
    BY <1>6, RbLineIs
  <2>2. ASSUME NEW m \in Method \cup {0}
        PROVE  RbBody(answer[m], {})
    <3>1. answer[m] \in Seq(RbLine) /\ DOMAIN answer[m] = 1 .. Len(answer[m])
      BY <1>4, <1>6, RbLineIs
    <3>2. /\ Rb!Parses(answer[m])
          /\ \A i \in DOMAIN answer[m] : answer[m][i].k \in {"if", "end", "com", "mine"}
      BY <1>4, <1>6 DEF IsBody, Braces
    <3>3. /\ Rb!Depth(answer[m])[Len(answer[m])] = 0
          /\ \A i \in 1 .. Len(answer[m]) : Rb!Depth(answer[m])[i] >= 0
      BY <3>1, <3>2 DEF Rb!Parses
    <3>. QED BY <3>1, <3>2, <3>3 DEF RbBody
  <2>3. <<t, FlattenSeq(ss)>> \in RbLike({})
    BY <2>1, <2>2, RbAnswers DEF ss
  <2>4. FlattenSeq(ss) \in Seq(RbLine) /\ Rb!Methods(FlattenSeq(ss)) \subseteq Rb!Methods(t)
    BY <2>3, RbLikeIs
  <2>5. Answered(t, answer) = FlattenSeq(ss)
    BY <1>2, <1>3, <1>6, <2>4 DEF Comments
  <2>6. \A u : Methods(u) = Rb!Methods(u)
    BY <1>6 DEF Methods, Braces
  <2>. QED BY <1>6, <2>4, <2>5, <2>6, RbLineIs DEF answer
<1>7. CASE family \in Braces
  <2>1. t \in Seq(BrLine)
    BY <1>7, BrLineIs
  <2>2. ASSUME NEW m \in Method \cup {0}
        PROVE  BrBody(answer[m], {m} \cap Method)
    <3>1. answer[m] \in Seq(BrLine) /\ DOMAIN answer[m] = 1 .. Len(answer[m])
      BY <1>4, <1>7, BrLineIs
    <3>2. /\ Br!Depth(answer[m])[Len(answer[m])] = 0
          /\ \A i \in 1 .. Len(answer[m]) :
               /\ Br!Depth(answer[m])[i] >= 0 /\ answer[m][i].n # Own
               /\ answer[m][i].k \in {"sig", "sig1", "head"} /\ Br!Depth(answer[m])[i - 1] = 0
                    => answer[m][i].n = m
      BY <1>4, <1>7, <3>1 DEF IsBody, Braces
    <3>. QED BY <3>1, <3>2 DEF BrBody, BrMine, BrHead
  <2>3. <<t, FlattenSeq(js)>> \in BrLike({})
    BY <1>7, <2>1, <2>2, BrAnswers DEF js
  <2>4. FlattenSeq(js) \in Seq(BrLine) /\ Br!Methods(FlattenSeq(js)) \subseteq Br!Methods(t)
    BY <2>3, BrLikeIs
  <2>5. Answered(t, answer) = FlattenSeq(js)
    BY <1>2, <1>7, <2>4 DEF Comments, Braces
  <2>6. \A u : Methods(u) = Br!Methods(u)
    BY <1>7 DEF Methods, Braces
  <2>. QED BY <1>7, <2>4, <2>5, <2>6, BrLineIs DEF answer
<1>8. CASE family \in Comments
  <2>1. \A u : Methods(u) = Co!Methods(u)
    BY <1>8 DEF Methods, Braces, Comments
  <2>2. t \in Seq(CoNames(Co!Methods(t)))
    BY <1>8, CoNamed, FineComments DEF Texts
  <2>3. Answered(t, answer) \in Seq(CoNames(Co!Methods(t)))
    BY <1>8, <2>2, CoAnswers
  <2>. QED BY <1>8, <2>1, <2>3, CoNamed, FineComments DEF Texts, answer
<1>. QED BY <1>5, <1>6, <1>7, <1>8, FamilyIs

(* To replace or to remove a doc shows nothing else.                       *)
LEMMA DocIs ==
  ASSUME family \in Families, NEW t \in Seq(Fine(family)), NEW i \in 1 .. Len(t), t[i].k = "doc",
         NEW k \in {"olddoc", "mydoc"}
  PROVE  /\ [t EXCEPT ![i].k = k] \in Seq(Fine(family))
         /\ Methods([t EXCEPT ![i].k = k]) \subseteq Methods(t)
         /\ Before(t, i) \o After(t, i + 1) \in Seq(Fine(family))
         /\ Methods(Before(t, i) \o After(t, i + 1)) \subseteq Methods(t)
<1>1. t[i].k \in Kinds(family)
  <2>1. t[i] \in LinesOf(Kinds(family))
    BY DEF Fine
  <2>. QED BY <2>1 DEF LinesOf
<1>2. CASE family = "py"
  <2>1. /\ <<t, [t EXCEPT ![i].k = k]>> \in PyLike({})
        /\ <<t, Before(t, i) \o After(t, i + 1)>> \in PyLike({})
    BY <1>2, PyDoc
  <2>2. \A u : Methods(u) = PyNames(u) \cap Method
    BY <1>2, PyLines DEF Methods, Py!Methods, PyNames, Braces
  <2>3. \A u : <<t, u>> \in PyLike({}) => u \in Seq(Fine("py")) /\ PyNames(u) \subseteq PyNames(t)
    BY PyLikeIs
  <2>. QED BY <1>2, <2>1, <2>2, <2>3
<1>3. CASE family \in Braces
  <2>1. t \in Seq(BrLine)
    BY <1>3, BrLineIs
  <2>2. /\ <<t, [t EXCEPT ![i].k = k]>> \in BrLike({})
        /\ <<t, Before(t, i) \o After(t, i + 1)>> \in BrLike({})
    BY <2>1, BrDoc
  <2>3. \A u : Methods(u) = Br!Methods(u)
    BY <1>3 DEF Methods, Braces
  <2>4. \A u : <<t, u>> \in BrLike({}) => u \in Seq(BrLine) /\ Br!Methods(u) \subseteq Br!Methods(t)
    BY BrLikeIs
  <2>. QED BY <1>3, <2>2, <2>3, <2>4, BrLineIs
<1>4. CASE family = "rb" \/ family \in Comments
  BY <1>1, <1>4 DEF Kinds, Braces, Comments
<1>. QED BY <1>2, <1>3, <1>4, FamilyIs

-----------------------------------------------------------------------------
(* The inductive invariant: what the file is made of has to be known for   *)
(* what a change of it shows to be known.                                  *)

(* The level up to which the file may show methods                         *)
Shown == IF ahead THEN level + 1 ELSE level

IInv == /\ family \in Families /\ edits \in 0 .. MaxEdits
        /\ level \in 1 .. TopLevel /\ toSave \in 0 .. TopLevel /\ ahead \in BOOLEAN
        /\ file # NoFile =>
             /\ file \in Seq(Fine(family))
             /\ Methods(file) \subseteq Allowed(Shown)
             /\ toSave # 0 => Methods(file) \subseteq Allowed(toSave)

LEMMA AllowedGrows ==
  ASSUME NEW l \in Nat
  PROVE  Allowed(l) \subseteq Allowed(l + 1)
<1>1. \A n \in Method : LevelOf[n] \in Nat
  BY LinesAssumption
<1>2. \A k \in Nat : k <= l => k <= l + 1
  OBVIOUS
<1>3. \A n \in Method : LevelOf[n] <= l => LevelOf[n] <= l + 1
  BY <1>1, <1>2
<1>. QED BY <1>3 DEF Allowed

LEMMA IInvInit == Init => IInv
<1> SUFFICES ASSUME Init PROVE IInv
  OBVIOUS
<1>1. /\ family \in Families /\ level = 1 /\ toSave = 0 /\ ahead = FALSE
      /\ file = NoFile /\ edits = 0
  BY DEF Init
<1>2. 1 \in 1 .. TopLevel /\ 0 \in 0 .. TopLevel /\ 0 \in 0 .. MaxEdits
  BY WorkFileAssumption
<1>. QED BY <1>1, <1>2 DEF IInv

LEMMA Keeps ==
  ASSUME IInv, UNCHANGED family, edits' \in 0 .. MaxEdits,
         level' \in 1 .. TopLevel, toSave' \in 0 .. TopLevel, ahead' \in BOOLEAN,
         file' # NoFile =>
           /\ file' \in Seq(Fine(family))
           /\ Methods(file') \subseteq Allowed(IF ahead' THEN level' + 1 ELSE level')
           /\ toSave' # 0 => Methods(file') \subseteq Allowed(toSave')
  PROVE  IInv'
<1>1. /\ Methods(file)' = Methods(file') /\ Allowed(toSave)' = Allowed(toSave')
      /\ Allowed(Shown)' = Allowed(IF ahead' THEN level' + 1 ELSE level')
  BY DEF Methods, Shown
<1>2. Fine(family)' = Fine(family)
  OBVIOUS
<1>. QED BY <1>1, <1>2 DEF IInv

LEMMA EnsuredIs ==
  ASSUME IInv, NEW l, Ensured(l) # NoFile
  PROVE  /\ Ensured(l) \in Seq(Fine(family))
         /\ Methods(Ensured(l)) \subseteq Allowed(Shown) \cup Allowed(l)
<1>1. family \in Families
  BY DEF IInv
<1>2. CASE file = NoFile
  BY <1>1, <1>2, SlicedIs DEF Ensured
<1>3. CASE file # NoFile /\ Declared(file) /\ ~Refuses(file, l)
  <2>1. Ensured(l) = Merged(file, l)
    BY <1>3 DEF Ensured
  <2>2. file \in Seq(Fine(family)) /\ Methods(file) \subseteq Allowed(Shown)
    BY <1>3 DEF IInv
  <2>. QED BY <1>1, <1>3, <2>1, <2>2, MergedIs
<1>4. CASE file # NoFile /\ ~(Declared(file) /\ ~Refuses(file, l))
  <2>1. Ensured(l) = file
    BY <1>4 DEF Ensured
  <2>. QED BY <1>4, <2>1 DEF IInv
<1>. QED BY <1>2, <1>3, <1>4

LEMMA StartKeeps ==
  ASSUME IInv, Start
  PROVE  IInv'
<1>1. /\ UNCHANGED <<family, level, toSave, ahead, edits>> /\ toSave = 0
      /\ file' = Ensured(level)
  BY DEF Start, Stay
<1>2. level \in Nat
  BY WorkFileAssumption DEF IInv
<1>3. Allowed(level) \subseteq Allowed(Shown)
  BY <1>2, AllowedGrows DEF Shown
<1>4. file' # NoFile => file' \in Seq(Fine(family)) /\ Methods(file') \subseteq Allowed(Shown)
  BY <1>1, <1>3, EnsuredIs
<1>5. Shown = IF ahead' THEN level' + 1 ELSE level'
  BY <1>1 DEF Shown
<1>. QED BY <1>1, <1>4, <1>5, Keeps DEF IInv

LEMMA SubmitKeeps ==
  ASSUME IInv, Submit
  PROVE  IInv'
<1>1. /\ UNCHANGED <<family, level, edits>> /\ level < TopLevel
      /\ toSave' = level + 1 /\ ahead' = TRUE /\ file' = Ensured(level + 1)
  BY DEF Submit, Stay
<1>2. level \in Nat /\ level + 1 \in 0 .. TopLevel
  BY <1>1, WorkFileAssumption DEF IInv
<1>3. Allowed(Shown) \subseteq Allowed(level + 1)
  BY <1>2, AllowedGrows DEF Shown
<1>4. file' # NoFile => file' \in Seq(Fine(family)) /\ Methods(file') \subseteq Allowed(level + 1)
  BY <1>1, <1>3, EnsuredIs
<1>. QED BY <1>1, <1>2, <1>4, Keeps DEF IInv

LEMMA RewriteKeeps ==
  ASSUME IInv, Rewrite
  PROVE  IInv'
<1>1. PICK l \in {1, level - 1, level} \ {0} : file' = Sliced(l) /\ toSave' = l
  BY DEF Rewrite
<1>2. /\ family \in Families /\ UNCHANGED <<family, level, edits>> /\ ahead' = FALSE
      /\ level \in 1 .. TopLevel
  BY DEF IInv, Rewrite, Stay
<1>3. l \in 0 .. TopLevel /\ l \in Nat /\ (l = level \/ l + 1 = level \/ (l = 1 /\ l < level))
  BY <1>1, <1>2, WorkFileAssumption
<1>4. Allowed(l) \subseteq Allowed(level)
  <2>1. l <= level /\ level \in Nat
    BY <1>2, <1>3, WorkFileAssumption
  <2>2. \A n \in Method : LevelOf[n] \in Nat
    BY LinesAssumption
  <2>. QED BY <1>3, <2>1, <2>2 DEF Allowed
<1>5. file' \in Seq(Fine(family)) /\ Methods(file') \subseteq Allowed(l)
  BY <1>1, <1>2, SlicedIs
<1>. QED BY <1>1, <1>2, <1>3, <1>4, <1>5, Keeps DEF IInv

LEMMA SaveKeeps ==
  ASSUME IInv, SaveLevel
  PROVE  IInv'
<1>1. /\ UNCHANGED <<family, file, edits>> /\ toSave # 0
      /\ level' = toSave /\ toSave' = 0 /\ ahead' = FALSE
  BY DEF SaveLevel, Stay
<1>2. level' \in 1 .. TopLevel /\ toSave' \in 0 .. TopLevel
  BY <1>1, WorkFileAssumption DEF IInv
<1>3. file' # NoFile => file' \in Seq(Fine(family)) /\ Methods(file') \subseteq Allowed(level')
  <2>1. Methods(file') = Methods(file)
    BY <1>1 DEF Methods
  <2>. QED BY <1>1, <2>1 DEF IInv
<1>4. edits' \in 0 .. MaxEdits
  BY <1>1 DEF IInv
<1>. QED BY <1>1, <1>2, <1>3, <1>4, Keeps

LEMMA StopKeeps ==
  ASSUME IInv, Stop
  PROVE  IInv'
<1>1. UNCHANGED <<family, level, ahead, file, edits>> /\ toSave' = 0
  BY DEF Stop, Stay
<1>. QED BY <1>1, Keeps, WorkFileAssumption DEF IInv, Shown

(* An edit leaves the levels and counts.                                   *)
LEMMA WriteKeeps ==
  ASSUME IInv, file # NoFile, edits < MaxEdits, NEW t, Write(t),
         t # NoFile => t \in Seq(Fine(family)) /\ Methods(t) \subseteq Methods(file)
  PROVE  IInv'
<1>1. file' = t /\ edits' = edits + 1 /\ UNCHANGED <<family, level, toSave, ahead>>
  BY DEF Write
<1>2. edits' \in 0 .. MaxEdits
  BY <1>1, WorkFileAssumption DEF IInv
<1>3. t # NoFile => /\ t \in Seq(Fine(family)) /\ Methods(t) \subseteq Allowed(Shown)
                    /\ toSave # 0 => Methods(t) \subseteq Allowed(toSave)
  BY DEF IInv
<1>. QED BY <1>1, <1>2, <1>3, Keeps DEF IInv, Shown

LEMMA PlacesAre ==
  ASSUME NEW t \in Seq(Fine(family)), NEW where \in {"above", "below", "member", "body"},
         NEW i \in Places(t, where)
  PROVE  i \in 1 .. Len(t) + 1
<1>1. DOMAIN t = 1 .. Len(t) /\ Len(t) + 1 \in 1 .. Len(t) + 1
  OBVIOUS
<1>2. CASE where = "above"
  <2> DEFINE at == {j \in DOMAIN t : t[j].n = Own}
  <2>1. i = FirstOf(at, 1, t)
    BY <1>2 DEF Places, Where
  <2>2. at \in SUBSET (1 .. Len(t)) /\ Len(t) \in Nat /\ 1 \in Nat
    BY <1>1
  <2>. HIDE DEF at
  <2>3. FirstOf(at, 1, t) \in at \/ FirstOf(at, 1, t) = Len(t) + 1
    BY <2>2, FirstOfIs
  <2>4. \A j \in at : j \in 1 .. Len(t) + 1
    BY <2>2
  <2>5. i \in at \/ i = Len(t) + 1
    BY <2>1, <2>3
  <2>. QED BY <1>1, <2>4, <2>5
<1>3. CASE where = "below"
  BY <1>1, <1>3 DEF Places
<1>4. CASE where = "member"
  BY <1>1, <1>4 DEF Places, Where
<1>5. CASE where = "body"
  BY <1>1, <1>5 DEF Places, Where
<1>. QED BY <1>2, <1>3, <1>4, <1>5

LEMMA AddKeeps ==
  ASSUME PlainJava, IInv, Add
  PROVE  IInv'
<1>1. file # NoFile /\ edits < MaxEdits
  BY DEF Add
<1>2. PICK id \in Idioms[family] : \E i \in Places(file, id.where) :
         LET new == Before(file, i) \o id.lines \o After(file, i)
         IN Methods(new) = Methods(file) /\ Write(new)
  BY DEF Add
<1>3. PICK i \in Places(file, id.where) :
         LET new == Before(file, i) \o id.lines \o After(file, i)
         IN Methods(new) = Methods(file) /\ Write(new)
  BY <1>2
<1>4. family \in Families /\ file \in Seq(Fine(family))
  BY <1>1 DEF IInv
<1>5. /\ id.lines \in Texts(family) /\ Where(id.lines, LAMBDA l : l.k = "stub") = {}
      /\ id.where \in {"above", "below", "member", "body"}
  BY <1>4, UserAssumption
<1>11. family = "java" => Where(id.lines, LAMBDA l : l.k = "rem") = {}
  BY <1>4 DEF PlainJava
<1>6. id.lines \in Seq(Fine(family))
  BY <1>4, <1>5, <1>11, WrittenIs
<1>7. i \in 1 .. Len(file) + 1
  BY <1>4, <1>5, PlacesAre
<1>8. Before(file, i) \in Seq(Fine(family)) /\ After(file, i) \in Seq(Fine(family))
  BY <1>4, <1>7, CutType
<1> DEFINE new == Before(file, i) \o id.lines \o After(file, i)
<1>9. new \in Seq(Fine(family))
  BY <1>6, <1>8
<1>10. Methods(new) \subseteq Methods(file) /\ Write(new)
  BY <1>3
<1>. HIDE DEF new
<1>. QED BY <1>1, <1>9, <1>10, WriteKeeps

LEMMA ChangeDocKeeps ==
  ASSUME IInv, ChangeDoc
  PROVE  IInv'
<1>1. file # NoFile /\ edits < MaxEdits /\ family \in Families /\ file \in Seq(Fine(family))
  BY DEF IInv, ChangeDoc
<1>2. PICK i \in Where(file, LAMBDA l : l.k = "doc") :
        \/ \E k \in {"olddoc", "mydoc"} : Write([file EXCEPT ![i].k = k])
        \/ Write(Before(file, i) \o After(file, i + 1))
  BY DEF ChangeDoc
<1>3. i \in 1 .. Len(file) /\ file[i].k = "doc"
  BY <1>1, <1>2 DEF Where
<1>4. CASE \E k \in {"olddoc", "mydoc"} : Write([file EXCEPT ![i].k = k])
  <2>1. PICK k \in {"olddoc", "mydoc"} : Write([file EXCEPT ![i].k = k])
    BY <1>4
  <2>2. /\ [file EXCEPT ![i].k = k] \in Seq(Fine(family))
        /\ Methods([file EXCEPT ![i].k = k]) \subseteq Methods(file)
    BY <1>1, <1>3, DocIs
  <2>. QED BY <1>1, <2>1, <2>2, WriteKeeps
<1>5. CASE Write(Before(file, i) \o After(file, i + 1))
  <2>1. PICK k \in {"olddoc", "mydoc"} : TRUE
    OBVIOUS
  <2>2. /\ Before(file, i) \o After(file, i + 1) \in Seq(Fine(family))
        /\ Methods(Before(file, i) \o After(file, i + 1)) \subseteq Methods(file)
    BY <1>1, <1>3, <2>1, DocIs
  <2>. QED BY <1>1, <1>5, <2>2, WriteKeeps
<1>. QED BY <1>2, <1>4, <1>5

LEMMA SolveKeeps ==
  ASSUME PlainJava, IInv, Solve
  PROVE  IInv'
<1>1. /\ file # NoFile /\ family \in Families /\ file \in Seq(Fine(family))
      /\ file' = Answered(file, Answers[family])
      /\ UNCHANGED <<family, level, toSave, ahead, edits>>
  BY DEF IInv, Solve
<1>2. file' \in Seq(Fine(family)) /\ Methods(file') \subseteq Methods(file)
  BY <1>1, AnsweredIs
<1>3. /\ Methods(file') \subseteq Allowed(Shown)
      /\ toSave # 0 => Methods(file') \subseteq Allowed(toSave)
  BY <1>1, <1>2 DEF IInv
<1>. QED BY <1>1, <1>2, <1>3, Keeps DEF IInv, Shown

LEMMA DamageKeeps ==
  ASSUME IInv, Damage
  PROVE  IInv'
<1>1. /\ file # NoFile /\ file # <<>> /\ edits < MaxEdits
      /\ family \in Families /\ file \in Seq(Fine(family))
  BY DEF IInv, Damage
<1>2. /\ Before(file, Len(file)) \in Seq(Fine(family)) /\ <<>> \in Seq(Fine(family))
      /\ Methods(Before(file, Len(file))) \subseteq Methods(file) /\ Methods(<<>>) = {}
  BY <1>1, DamagedIs
<1>3. CASE Write(Before(file, Len(file)))
  BY <1>1, <1>2, <1>3, WriteKeeps
<1>4. CASE Write(<<>>)
  BY <1>1, <1>2, <1>4, WriteKeeps
<1>5. CASE Write(NoFile)
  BY <1>1, <1>5, WriteKeeps
<1>. QED BY <1>3, <1>4, <1>5 DEF Damage

LEMMA StutterKeeps == IInv /\ UNCHANGED vars => IInv'
<1> SUFFICES ASSUME IInv, UNCHANGED vars PROVE IInv'
  OBVIOUS
<1>1. UNCHANGED <<family, level, toSave, ahead, file, edits>>
  BY DEF vars
<1>. QED BY <1>1, Keeps DEF IInv, Shown

LEMMA IInvNext ==
  ASSUME PlainJava
  PROVE  IInv /\ [Next]_vars => IInv'
BY StartKeeps, SubmitKeeps, RewriteKeeps, SaveKeeps, StopKeeps, AddKeeps, ChangeDocKeeps, SolveKeeps,
   DamageKeeps, StutterKeeps DEF Next

(* What the file is made of is known in every state that is reached.       *)
LEMMA WorkFileInvariant ==
  ASSUME PlainJava
  PROVE  Spec => []IInv
BY IInvInit, IInvNext, PTL DEF Spec

(* A session's level and the one that a command has yet to save are always *)
(* the problem's, and the work file a text of its language: neither a      *)
(* slice nor a merge leaves lines that the algorithms of workstub.py would *)
(* not read again.  In Java this is of files without plain block comments. *)
THEOREM WorkFileTyped ==
  ASSUME PlainJava
  PROVE  Spec => []WorkFileTypeOK
<1>1. IInv => WorkFileTypeOK
  BY FineTexts DEF IInv, WorkFileTypeOK
<1>. QED BY <1>1, WorkFileInvariant, PTL

(* In every language, whatever the user has added to, changed in, cut off  *)
(* or written into his file, and however starts, submits, resets and steps *)
(* back follow one another or are stopped before they save: the file has a *)
(* method of a level that is not open only if it is one of the next level, *)
(* and a submit wrote it that passed and did not save the level            *)
(* (slice_stub, merge_unlocked_methods; cli.py:695, 713).  In Java this is *)
(* of files without plain block comments.                                  *)
THEOREM OnlyUnlockedShown ==
  ASSUME PlainJava
  PROVE  Spec => []ShowsOnlyUnlocked
<1>1. IInv => ShowsOnlyUnlocked
  BY DEF IInv, ShowsOnlyUnlocked, Shown
<1>. QED BY <1>1, WorkFileInvariant, PTL

-----------------------------------------------------------------------------
(* Comments: what a merge promises                                         *)

LEMMA CoCodeMore ==
  ASSUME NEW T, NEW s \in Seq(T), NEW l \in T
  PROVE  /\ Co!CodeLines(s) \in Seq(T)
         /\ Co!CodeLines(Append(s, l)) = Co!CodeLines(s) \o (IF l.k = "code" THEN <<l>> ELSE <<>>)
<1> DEFINE u == Append(s, l)
           n == Len(s)
           K == {i \in DOMAIN s : s[i].k = "code"}
           H == {i \in DOMAIN u : u[i].k = "code"}
<1>1. /\ n \in Nat /\ DOMAIN s = 1 .. n /\ DOMAIN u = 1 .. n + 1 /\ u[n + 1] = l
      /\ \A i \in 1 .. n : u[i] = s[i] /\ s[i] \in T
  OBVIOUS
<1>2. Co!CodeLines(s) = Picked(s, K) /\ Co!CodeLines(u) = Picked(u, H)
  BY CommentLines DEF Co!CodeLines, Co!Kept, Co!Where
<1>3. \A i \in DOMAIN s : i \in H <=> i \in K
  BY <1>1
<1>4. n + 1 \in H <=> l.k = "code"
  BY <1>1
<1>. HIDE DEF H, K
<1>5. Picked(s, H) = Picked(s, K)
  BY <1>3, PickedSame
<1>6. Picked(u, H) = Picked(s, H) \o (IF n + 1 \in H THEN <<l>> ELSE <<>>)
  BY PickedAppend
<1>7. Picked(s, K) \in Seq(T)
  BY <1>1, PickedType
<1>. QED BY <1>2, <1>4, <1>5, <1>6, <1>7

LEMMA CoCode ==
  ASSUME family = "line", NEW A \in SUBSET Method, NEW t \in Texts(family)
  PROVE  Co!CodeLines(Co!Merge(t, Stub, A)) = Co!CodeLines(t)
<1> DEFINE T == LinesOf(Kinds(family))
           C == {l \in T : l.k # "code"}
           extras == Co!Extras(t, Stub, A)
           K == {i \in Co!Listed(Stub) : Stub[i].n \in A /\ ~Co!Present(t, Stub[i].n)}
           R == {p \in Seq(T) \X Seq(T) : Co!CodeLines(p[1]) = Co!CodeLines(p[2])}
<1>0. family \in Comments /\ t \in Seq(T) /\ Stub \in Seq(T)
  BY CommentStub DEF Comments, Texts
<1>1. extras = Picked(Stub, K)
  BY <1>0, CoGrown
<1>2. PICK i \in 1 .. Len(t) + 1 : Co!Merge(t, Stub, A) = Before(t, i) \o extras \o After(t, i)
  BY <1>0, CoGrown
<1>3. ASSUME NEW j \in 1 .. Len(Stub), j \in K PROVE Stub[j] \in C
  <2>1. Stub[j] \in T /\ Stub[j].n \in Method
    BY <1>0, <1>3
  <2>2. Stub[j].k # "code"
    <3>1. j # Len(Stub) /\ j # 0
      BY <1>0, <2>1, CommentStub, MethodsAreNumbers
    <3>2. CASE j = 1
      BY <1>0, <3>2, CommentStub
    <3>3. CASE j # 1
      <4>1. PICK h \in 1 .. Len(StubOrder) : j = 1 + h
        <5>1. Len(Stub) = Len(StubOrder) + 2 /\ Len(StubOrder) \in Nat
          BY <1>0, CommentStub, MethodsAreNumbers
        <5>2. j - 1 \in 1 .. Len(StubOrder) /\ j = 1 + (j - 1)
          BY <3>1, <3>3, <5>1
        <5>. QED BY <5>2
      <4>2. Stub[1 + h].k = "com"
        BY <1>0, CommentStub
      <4>. QED BY <4>1, <4>2
    <3>. QED BY <3>2, <3>3
  <2>. QED BY <2>1, <2>2
<1>4. extras \in Seq(C)
  <2>. HIDE DEF C, K, T, extras
  <2>. QED BY <1>0, <1>1, <1>3, PickedType
<1>5. \A s, r : <<s, r>> \in R <=> s \in Seq(T) /\ r \in Seq(T) /\ Co!CodeLines(s) = Co!CodeLines(r)
  OBVIOUS
<1>6. \A j \in 1 .. Len(extras) : extras[j] \in T /\ extras[j].k # "code"
  BY <1>4
<1>. HIDE DEF extras, K, R
<1>7. extras \in Seq(T)
  BY <1>4, <1>6, Sieved
<1> DEFINE b == Before(t, i)
           a == After(t, i)
           P == {s \in Seq(T) : Co!CodeLines(s) = Co!CodeLines(b)}
<1>8. b \in Seq(T) /\ a \in Seq(T) /\ b \o a = t
  <2>. HIDE DEF T
  <2>. QED BY <1>0, CutType, CutWhole
<1>. HIDE DEF T, C, a, b
<1>9. b \o extras \in P
  <2>1. b \in P
    BY <1>8
  <2>2. ASSUME NEW s \in Seq(T), NEW j \in 1 .. Len(extras), s \in P
        PROVE  Append(s, extras[j]) \in P
    <3>1. extras[j] \in T /\ extras[j].k # "code" /\ Append(s, extras[j]) \in Seq(T)
      BY <1>6
    <3>2. /\ Co!CodeLines(s) \in Seq(T)
          /\ Co!CodeLines(Append(s, extras[j])) = Co!CodeLines(s) \o <<>>
      BY <3>1, CoCodeMore
    <3>3. Co!CodeLines(s) \o <<>> = Co!CodeLines(s)
      BY <3>2, AttachNone
    <3>. QED BY <2>2, <3>1, <3>2, <3>3
  <2>. HIDE DEF P
  <2>. QED BY <1>7, <1>8, <2>1, <2>2, MoreLines
<1>10. <<b, b \o extras>> \in R
  BY <1>5, <1>8, <1>9
<1>11. ASSUME NEW s \in Seq(T), NEW r \in Seq(T), NEW l \in T, <<s, r>> \in R
       PROVE  <<Append(s, l), Append(r, l)>> \in R
  <2>1. Append(s, l) \in Seq(T) /\ Append(r, l) \in Seq(T)
    OBVIOUS
  <2>2. Co!CodeLines(s) = Co!CodeLines(r)
    BY <1>5, <1>11
  <2>3. Co!CodeLines(Append(s, l)) = Co!CodeLines(s) \o (IF l.k = "code" THEN <<l>> ELSE <<>>)
    BY CoCodeMore
  <2>4. Co!CodeLines(Append(r, l)) = Co!CodeLines(r) \o (IF l.k = "code" THEN <<l>> ELSE <<>>)
    BY CoCodeMore
  <2>. QED BY <1>5, <2>1, <2>2, <2>3, <2>4
<1>12. b \o extras \in Seq(T)
  BY <1>9
<1>13. <<b \o a, (b \o extras) \o a>> \in R
  BY <1>8, <1>10, <1>11, <1>12, SameTail
<1>14. Co!CodeLines(b \o a) = Co!CodeLines((b \o extras) \o a)
  BY <1>5, <1>13
<1>. QED BY <1>2, <1>8, <1>14 DEF a, b

LEMMA CoMerges ==
  ASSUME IInv, family \in Comments, Merges, Declared(file)
  PROVE  /\ file \in Texts(family) /\ Allowed(LevelFor') \in SUBSET Method
         /\ file' = Co!Merge(file, Stub, Allowed(LevelFor')) /\ file' \in Texts(family)
<1>1. file # NoFile /\ file \in Texts(family) /\ \A l : Allowed(l) \in SUBSET Method
  BY AllowedAre, FineTexts DEF IInv, Merges
<1>2. \A l : ~Refuses(file, l) /\ Merged(file, l) = Co!Merge(file, Stub, Allowed(l))
  BY DEF Refuses, Merged, Braces, Comments
<1>3. \A l : Ensured(l) = Merged(file, l)
  BY <1>1, <1>2 DEF Ensured
<1>4. file' = Ensured(LevelFor')
  <2>1. Start => file' = Ensured(level) /\ level' = level /\ toSave' = 0
    BY DEF Start
  <2>2. Submit => file' = Ensured(level + 1) /\ toSave' = level + 1 /\ level + 1 # 0
    BY WorkFileAssumption DEF Submit, IInv
  <2>. QED BY <2>1, <2>2 DEF Merges, LevelFor
<1>5. file' = Co!Merge(file, Stub, Allowed(LevelFor'))
  BY <1>2, <1>3, <1>4
<1>6. ASSUME NEW A \in SUBSET Method PROVE Co!Merge(file, Stub, A) \in Texts(family)
  <2>1. Co!Merge(file, Stub, A) \in Seq(CoNames(Co!Methods(file) \cup A))
    BY <1>1, CoMerge
  <2>. QED BY <2>1, CoNamed
<1>. QED BY <1>1, <1>5, <1>6

(* What a merge leaves unread the class it does not add.                   *)
LEMMA CoUndeclared ==
  ASSUME family \in Comments, Merges, ~Declared(file)
  PROVE  file' = file /\ ~Parses(file)
<1>1. file' = file
  BY DEF Merges, Start, Submit, Ensured
<1>2. ~Co!DeclaresClass(file)
  BY DEF Declared, Braces, Comments
<1>. QED BY <1>1, <1>2 DEF Parses, Braces, Comments

LEMMA CoCompletes ==
  ASSUME IInv, family \in Comments, Merges, Declared(file)
  PROVE  /\ Allowed(LevelFor') \subseteq Methods(file')
         /\ Methods(file) \subseteq Methods(file')
         /\ Merged(file', LevelFor') = file'
<1> DEFINE A == Allowed(LevelFor')
<1>1. /\ file \in Texts(family) /\ A \in SUBSET Method
      /\ file' = Co!Merge(file, Stub, A) /\ file' \in Texts(family)
  BY CoMerges
<1>. HIDE DEF A
<1>2. /\ \A j \in 1 .. Len(file) : \E k \in DOMAIN file' : file'[k] = file[j]
      /\ \A n \in A : Co!Present(file', n)
  <2>1. ASSUME NEW B \in SUBSET Method
        PROVE  /\ \A j \in 1 .. Len(file) : \E k \in DOMAIN Co!Merge(file, Stub, B) :
                    Co!Merge(file, Stub, B)[k] = file[j]
               /\ \A n \in B : Co!Present(Co!Merge(file, Stub, B), n)
    BY <1>1, CoMergeHas
  <2>. QED BY <1>1, <2>1
<1>3. DOMAIN file = 1 .. Len(file)
  BY <1>1 DEF Texts
<1>4. \A t : Methods(t) = {t[i].n : i \in DOMAIN t} \cap Method
  BY CommentLines DEF Methods, Braces, Comments, Co!Methods
<1>5. A \subseteq Methods(file')
  BY <1>1, <1>2, <1>4 DEF Co!Present
<1>6. Methods(file) \subseteq Methods(file')
  BY <1>2, <1>3, <1>4
<1>7. Co!Merge(file', Stub, A) = file'
  BY <1>1, <1>2, CoMergeSettles
<1>8. Merged(file', LevelFor') = Co!Merge(file', Stub, A)
  BY DEF Merged, Braces, Comments, A
<1>. QED BY <1>5, <1>6, <1>7, <1>8 DEF A

LEMMA CoParses ==
  ASSUME family = "line", NEW t \in Texts(family)
  PROVE  Co!Parses(t)
<1>1. DOMAIN t = 1 .. Len(t) /\ Len(t) \in Nat /\ \A i \in 1 .. Len(t) : t[i] \in LinesOf(Kinds(family))
  BY DEF Texts
<1>2. \A i \in 1 .. Len(t) : t[i].k \in {"com", "code"}
  BY <1>1 DEF LinesOf, Kinds, Braces
<1>3. \A i \in 1 .. Len(t) + 1 : \A j \in 1 .. i - 1 : t[j].k # "head"
  BY <1>1, <1>2
<1>4. Len(t) + 1 \in 1 .. Len(t) + 1 /\ \A i \in 1 .. Len(t) : i \in 1 .. Len(t) + 1
  BY <1>1
<1>. QED BY <1>1, <1>2, <1>3, <1>4 DEF Co!Parses

(* In the languages whose stub lists the API in comments, whatever the     *)
(* file is: a merge of one that names the class makes it name every method *)
(* of the open level (_merge_api_comments).                                *)
THEOREM CommentsAreCompleted ==
  ASSUME Families \subseteq Comments
  PROVE  Spec => OpensEveryMethod
<1>1. ASSUME IInv, Merges, Parses(file)
      PROVE  Allowed(LevelFor') \subseteq Methods(file')
  <2>1. family \in Comments
    BY <1>1 DEF IInv
  <2>. QED BY <1>1, <2>1, CoCompletes, CoUndeclared
<1>2. PlainJava
  BY DEF PlainJava, Comments
<1>. QED BY <1>1, <1>2, WorkFileInvariant, PTL DEF Spec, OpensEveryMethod

(* In these languages the next start finds nothing to merge: the list does *)
(* not grow by being opened.                                               *)
THEOREM CommentsSettle ==
  ASSUME Families \subseteq Comments
  PROVE  Spec => Settles
<1>1. ASSUME IInv, Merges, Declared(file')
      PROVE  Merged(file', LevelFor') = file'
  <2>1. family \in Comments
    BY <1>1 DEF IInv
  <2>2. Declared(file)
    BY <1>1, <2>1, CoUndeclared
  <2>. QED BY <1>1, <2>1, <2>2, CoCompletes
<1>2. PlainJava
  BY DEF PlainJava, Comments
<1>. QED BY <1>1, <1>2, WorkFileInvariant, PTL DEF Spec, Settles

(* In those of line comments no merge takes a method or a line of code     *)
(* away.  In those of a block comment it may: workfile_broken.             *)
THEOREM LineCommentsAreKept ==
  ASSUME Families \subseteq {"line"}
  PROVE  Spec => KeepsTheClass
<1>1. ASSUME IInv, Merges, Parses(file)
      PROVE  /\ Parses(file')
             /\ \A n \in Methods(file) : n \in Methods(file') /\ Body(file', n) = Body(file, n)
  <2>1. family = "line" /\ family \in Comments
    BY <1>1 DEF IInv, Comments
  <2>2. Declared(file)
    BY <1>1, <2>1, CoUndeclared
  <2>3. /\ file \in Texts(family) /\ Allowed(LevelFor') \in SUBSET Method
        /\ file' = Co!Merge(file, Stub, Allowed(LevelFor')) /\ file' \in Texts(family)
    BY <1>1, <2>1, <2>2, CoMerges
  <2>4. Co!CodeLines(file') = Co!CodeLines(file)
    BY <2>1, <2>3, CoCode
  <2>5. \A t, n : Body(t, n) = Co!CodeLines(t)
    BY <2>1 DEF Body, Braces
  <2>6. Methods(file) \subseteq Methods(file')
    BY <1>1, <2>1, <2>2, CoCompletes
  <2>7. Co!DeclaresClass(file')
    <3>1. PICK j \in 1 .. Len(file) : file[j].n = Own
      <4>1. Co!DeclaresClass(file) /\ DOMAIN file = 1 .. Len(file)
        BY <2>1, <2>2, <2>3 DEF Declared, Braces, Texts
      <4>2. \E j \in DOMAIN file : file[j].n = Own
        BY <4>1, CommentLines DEF Co!DeclaresClass, Co!Where
      <4>. QED BY <4>1, <4>2
    <3>2. ASSUME NEW A \in SUBSET Method
          PROVE  \A h \in 1 .. Len(file) : \E k \in DOMAIN Co!Merge(file, Stub, A) :
                    Co!Merge(file, Stub, A)[k] = file[h]
      <4>1. family \in Comments /\ file \in Texts(family)
        BY <2>1, <2>3
      <4>2. /\ \A h \in 1 .. Len(file) : \E k \in DOMAIN Co!Merge(file, Stub, A) :
                   Co!Merge(file, Stub, A)[k] = file[h]
            /\ \A n \in A : Co!Present(Co!Merge(file, Stub, A), n)
        BY <4>1, CoMergeHas
      <4>. QED BY <4>2
    <3>3. PICK k \in DOMAIN file' : file'[k] = file[j]
      BY <2>3, <3>1, <3>2
    <3>. QED BY <3>1, <3>3, CommentLines DEF Co!DeclaresClass, Co!Where
  <2>8. Parses(file')
    BY <2>1, <2>3, <2>7, CoParses DEF Parses, Braces
  <2>. QED BY <2>4, <2>5, <2>6, <2>8
<1>2. PlainJava
  BY DEF PlainJava
<1>. QED BY <1>1, <1>2, WorkFileInvariant, PTL DEF Spec, KeepsTheClass
=============================================================================
