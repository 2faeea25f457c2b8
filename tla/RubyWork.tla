------------------------------ MODULE RubyWork -----------------------------
(***************************************************************************)
(* Slicing and merging of a Ruby work file (workstub.py).  The code finds  *)
(* the end of the class and of what is nested in it by indentation alone;  *)
(* Ruby counts the openers and ends, which is stated apart from the code.  *)
(*                                                                         *)
(* Kinds: class, module; class1 (a class on one line); def, defself; def1  *)
(* (the body on the same line); if; end; begin, fin (=begin and =end);     *)
(* here, term (a line that opens a heredoc, and its label); com; stub,     *)
(* mine (statements).                                                      *)
(***************************************************************************)
EXTENDS Lines

IsDef(l) == l.k \in {"def", "defself", "def1"}

Ends(t) == Where(t, LAMBDA l : l.k = "end")

(* _ruby_code_lines: what is neither commented nor in a heredoc *)
Code(t) ==
  LET Next == [i \in DOMAIN t |->
        CASE t[i].k = "begin" -> FirstOf(Where(t, LAMBDA l : l.k = "fin"), i, t) + 1
          [] t[i].k = "here" -> FirstOf(Where(t, LAMBDA l : l.k = "term"), i + 1, t) + 1
          [] OTHER -> i + 1]
  IN {i \in Visited(Len(t), Next) : t[i].k \notin {"begin", "com"}}

(* For Ruby _code_lines leaves out no more than comment lines. *)
DeclaresClass(t) == \E i \in DOMAIN t : t[i].k \in {"class", "class1"} /\ t[i].n = Own

(* _ruby_class_span: the line of the class, and of the end of its width *)
ClassStart(t) == FirstOf({i \in Code(t) : t[i].k \in {"class", "class1"} /\ t[i].n = Own}, 1, t)

ClassClose(t) ==
  LET a == ClassStart(t)
  IN IF a > Len(t) THEN a ELSE FirstOf({i \in Code(t) \cap Ends(t) : t[i].in = t[a].in}, a + 1, t)

HasSpan(t) == ClassClose(t) <= Len(t)

(* _strip_nested_ruby_types: a class or module goes with all lines up to   *)
(* an end of its width.                                                    *)
StripNested(s) ==
  LET nested == {i \in 2 .. Len(s) : s[i].k \in {"class", "class1", "module"}}
      Close(i) == FirstOf({j \in Ends(s) : s[j].in = s[i].in}, i + 1, s)
  IN Picked(s, Visited(Len(s), [i \in DOMAIN s |-> IF i \in nested THEN Close(i) + 1 ELSE i + 1])
                 \ nested)

Region(t) == LET r == SubSeq(t, ClassStart(t), ClassClose(t) - 1) IN StripNested(Picked(r, Code(r)))

(* _declares: no method is, of a class that has no end *)
MissingFrom(t, allowed) ==
  IF ~HasSpan(t) THEN allowed
  ELSE LET s == Region(t) IN {n \in allowed : Where(s, LAMBDA l : IsDef(l) /\ l.n = n) = {}}

(* _ruby_method: only defs and ends count, which is right for the stubs. *)
MethodBlock(full, n) ==
  LET a == FirstOf(Where(full, LAMBDA l : l.k = "def" /\ l.n = n), 1, full)
  IN IF a > Len(full) THEN <<>> ELSE SubSeq(full, a, FirstOf(Ends(full), a, full))

-----------------------------------------------------------------------------
(* What Ruby reads *)

Opens(t) == {i \in Code(t) : t[i].k \in {"class", "module", "def", "defself", "if"}}

Depth(t) ==
  LET opens == Opens(t)
      closes == Ends(t) \cap Code(t)
  IN [i \in 0 .. Len(t) |-> Cardinality({j \in opens : j <= i}) - Cardinality({j \in closes : j <= i})]

Parses(t) ==
  LET d == Depth(t)
  IN /\ d[Len(t)] = 0 /\ \A i \in DOMAIN t : d[i] >= 0
     /\ \A i \in Code(t) : t[i].k \notin {"fin", "term"}

(* The line of the end that Ruby pairs with the opener at line i *)
Match(t, i) ==
  LET d == Depth(t)
      ends == Ends(t) \cap Code(t)
  IN FirstOf({j \in ends : d[j] = d[i - 1]}, i + 1, t)

Visible(t) ==
  LET d == Depth(t)
      own == {a \in Opens(t) : t[a].k = "class" /\ t[a].n = Own}
      inside == UNION {{i \in a + 1 .. Match(t, a) - 1 : d[i - 1] = d[a]} : a \in own}
  IN {i \in inside \cap Code(t) : t[i].k \in {"def", "def1"}}

Methods(t) == {t[i].n : i \in Visible(t)} \cap Method

Body(t, n) ==
  LET a == Max({i \in Visible(t) : t[i].n = n})
  IN IF t[a].k = "def1" THEN <<t[a]>> ELSE SubSeq(t, a, Match(t, a))

-----------------------------------------------------------------------------
(* _insert_before_ruby_class_end raises a ValueError. *)
MergeFails(t, allowed) == MissingFrom(t, allowed) # {} /\ ~HasSpan(t)

Merge(t, full, allowed) ==
  LET missing == MissingFrom(t, allowed)
  IN IF missing = {} THEN t
     ELSE Before(t, ClassClose(t)) \o Blocks(missing, LAMBDA n : MethodBlock(full, n))
            \o After(t, ClassClose(t))

(* _slice_ruby *)
Slice(full, allowed) ==
  <<full[ClassStart(full)]>> \o MethodBlock(full, Ctor)
    \o FlattenSeq([i \in DOMAIN full |->
         IF IsDef(full[i]) /\ full[i].n \in allowed THEN MethodBlock(full, full[i].n) ELSE <<>>])
    \o <<Line(0, "end", 0)>>

Full ==
  <<Line(0, "class", Own), Line(1, "def", Ctor), Line(1, "end", 0)>>
    \o FlattenSeq([i \in DOMAIN StubOrder |->
         <<Line(1, "def", StubOrder[i]), Line(2, "stub", 0), Line(1, "end", 0)>>])
    \o <<Line(0, "end", 0)>>
=============================================================================
