------------------------------- MODULE PyWork ------------------------------
(***************************************************************************)
(* Slicing and merging of a Python work file (workstub.py).  The merge     *)
(* reads the file with regular expressions and counts of quotes, and asks  *)
(* the parser only for the end of the class; what Python itself makes of   *)
(* the file is stated below, apart from the code.                          *)
(*                                                                         *)
(* Kinds: class; def, defC (a comment after the colon), def1 (the body on  *)
(* the same line); if; doc, olddoc, mydoc (one-line docstrings: of the     *)
(* stub, of an old stub, of the user); quote (a line of three quotes);     *)
(* com (a comment); stub, mine (statements).                               *)
(***************************************************************************)
EXTENDS Lines

Docs == {"doc", "olddoc", "mydoc"}

IsDef(l) == l.k \in {"def", "defC", "def1"}

EndsWithColon(l) == l.k \in {"class", "def", "if"}

TopClasses(t) == Where(t, LAMBDA l : l.k = "class" /\ l.in = 0)

Defs(t, n) == Where(t, LAMBDA l : IsDef(l) /\ l.n = n)

Quotes(t) == Where(t, LAMBDA l : l.k = "quote")

(* The lines of S that have an odd number of quote lines up to them *)
OddIn(S, t) == LET q == Quotes(t) IN {i \in S : Cardinality({j \in q : j <= i}) % 2 = 1}

Quoted(t) == OddIn(DOMAIN t \ Quotes(t), t)

(* _code_lines: neither docstrings nor comments *)
Code(t) == {i \in DOMAIN t \ Quoted(t) : t[i].k \notin Docs \cup {"com", "quote"}}

DeclaresClass(t) == \E i \in Code(t) : t[i].k = "class" /\ t[i].n = Own

(* _declares looks between the class line and the next one at column 0,    *)
(* at any indentation.                                                     *)
Region(t) ==
  LET a == FirstOf({i \in TopClasses(t) : t[i].n = Own}, 1, t)
  IN SubSeq(t, a, FirstOf(TopClasses(t), a + 1, t) - 1)

MissingFrom(t, allowed) ==
  LET r == Region(t)
      code == Code(r)
  IN {n \in allowed : Defs(r, n) \cap code = {}}

(* _python_method: from the first def of that name, in whatever place, to  *)
(* the next def that is not deeper.                                        *)
MethodBlock(t, n) ==
  LET a == FirstOf(Defs(t, n), 1, t)
      ends == {i \in DOMAIN t : \/ IsDef(t[i]) /\ t[i].in <= t[a].in
                                \/ i \in TopClasses(t) /\ t[a].in > 0}
  IN IF a > Len(t) THEN <<>> ELSE SubSeq(t, a, FirstOf(ends, a + 1, t) - 1)

(* _python_doc_lines: what follows the first line that ends with a colon *)
DocPlace(b) == FirstOf(Where(b, EndsWithColon), 1, b) + 1

(* Mistake: the scan does not step past the line with the colon. *)
HasDocEarly(b) == DocPlace(b) - 1 <= Len(b) /\ b[DocPlace(b) - 1].k \in Docs \cup {"quote"}

HasDoc(b) == DocPlace(b) <= Len(b) /\ b[DocPlace(b)].k \in Docs \cup {"quote"}

DocOf(b) == IF DocPlace(b) <= Len(b) /\ b[DocPlace(b)].k \in Docs
            THEN <<b[DocPlace(b)]>> ELSE <<>>

(* The docstring of an old stub gives way to the new one. *)
RenewDocs(t, full, allowed) ==
  LET Old(n) == DocOf(MethodBlock(t, n))
      stale == {n \in allowed : /\ Where(MethodBlock(t, n), LAMBDA l : l.k = "olddoc") # {}
                                /\ Old(n) # <<>> /\ DocOf(MethodBlock(full, n)) # <<>>}
      Place(n) == FirstOf(Where(t, LAMBDA l : l = Old(n)[1]), 1, t)
  IN [i \in DOMAIN t |-> IF \E n \in stale : Place(n) = i
                         THEN DocOf(MethodBlock(full, CHOOSE n \in stale : Place(n) = i))[1]
                         ELSE t[i]]

(* _inject_python_docs: each def line of an open method whose first block  *)
(* has no doc gets one, after the next line that ends with a colon.        *)
InjectDocs(t, full, allowed) ==
  LET bare == {i \in Where(t, LAMBDA l : IsDef(l) /\ l.n \in allowed) :
                 ~HasDoc(MethodBlock(t, t[i].n))}
      colons == Where(t, EndsWithColon)
      Place(i) == FirstOf(colons, i, t)
      Copies(n, j) == Cardinality({i \in bare : t[i].n = n /\ Place(i) = j})
      At(j) == FlattenSeq([n \in 1 .. Len(StubOrder) |->
                 FlattenSeq([c \in 1 .. Copies(n, j) |-> DocOf(MethodBlock(full, n))])])
  IN FlattenSeq([j \in 1 .. Len(t) + 1 |->
                   (IF j <= Len(t) THEN <<t[j]>> ELSE <<>>) \o At(j)])

-----------------------------------------------------------------------------
(* What Python reads: the statements, where their blocks must be, and the  *)
(* methods of the class.                                                   *)

Statements(t) ==
  (Where(t, LAMBDA l : l.k \notin {"com", "quote"}) \ Quoted(t)) \cup OddIn(Quotes(t), t)

Opens(l) == l.k \in {"class", "def", "defC", "if"}

Parses(t) ==
  LET s == Picked(t, Statements(t))
  IN /\ Cardinality(Quotes(t)) % 2 = 0
     /\ \A i \in Quoted(t) : t[i].k \notin Docs
     /\ s # <<>> => s[1].in = 0 /\ ~Opens(s[Len(s)])
     /\ \A i \in 2 .. Len(s) : IF Opens(s[i - 1]) THEN s[i].in = s[i - 1].in + 1
                                                 ELSE s[i].in <= s[i - 1].in

OwnClasses(t) == {i \in Statements(t) \cap TopClasses(t) : t[i].n = Own}

(* The line after the last statement of the block that line i opens.  A    *)
(* comment or a quoted line after it is not part of it.                    *)
BlockEnd(t, i) ==
  LET all == Statements(t)
      next == FirstOf({j \in all : t[j].in <= t[i].in}, i + 1, t)
      last == Max({j \in all : j < next})
  IN IF t[last].k = "quote" THEN FirstOf(Quotes(t), last + 1, t) + 1
                            ELSE last + 1

Visible(t) ==
  LET all == Statements(t)
      Holds(a, i) == a < i /\ \A j \in all : a < j /\ j <= i => t[j].in > 0 \/ t[j].k \in Docs
  IN {i \in all : IsDef(t[i]) /\ t[i].in = 1 /\ \E a \in OwnClasses(t) : Holds(a, i)}

Methods(t) == {t[i].n : i \in Visible(t)} \cap Method

(* The last def of a name is the one that counts. *)
Body(t, n) ==
  LET a == Max({i \in Visible(t) : t[i].n = n})
  IN Kept(SubSeq(t, a, BlockEnd(t, a) - 1), LAMBDA l : l.k \notin Docs \cup {"com"})

-----------------------------------------------------------------------------
(* _insert_before_python_class_end raises a ValueError. *)
MergeFails(t, allowed) == MissingFrom(t, allowed) # {} /\ (~Parses(t) \/ OwnClasses(t) = {})

(* Mistake: the end of the file is taken for that of the class. *)
InsertAtEnd(t, extras) == t \o extras

InsertIntoClass(t, extras) ==
  LET end == BlockEnd(t, Min(OwnClasses(t))) IN Before(t, end) \o extras \o After(t, end)

Merge(t, full, allowed) ==
  LET missing == MissingFrom(t, allowed)
      extras == Blocks(missing, LAMBDA n : MethodBlock(full, n))
      grown == IF missing = {} THEN t ELSE InsertIntoClass(t, extras)
  IN InjectDocs(RenewDocs(grown, full, allowed), full, allowed)

(* _slice_python: the first class line, __init__ and the open methods *)
Slice(full, allowed) ==
  <<full[Min(TopClasses(full))]>> \o MethodBlock(full, Ctor)
    \o FlattenSeq([i \in DOMAIN full |->
         IF IsDef(full[i]) /\ full[i].n \in allowed THEN MethodBlock(full, full[i].n) ELSE <<>>])

Full ==
  <<Line(0, "class", Own), Line(1, "def", Ctor), Line(2, "stub", 0)>>
    \o FlattenSeq([i \in DOMAIN StubOrder |->
         <<Line(1, "def", StubOrder[i]), Line(2, "doc", StubOrder[i]), Line(2, "stub", StubOrder[i])>>])
=============================================================================
