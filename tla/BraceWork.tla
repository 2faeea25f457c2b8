----------------------------- MODULE BraceWork -----------------------------
(***************************************************************************)
(* Slicing and merging of a work file in Java or in JavaScript and         *)
(* TypeScript (workstub.py).  The code walks the characters and skips      *)
(* comments and quotes in some of its searches, not in all; here each      *)
(* line has the braces and the names that those searches can meet.         *)
(*                                                                         *)
(* Kinds: class; sig (a method up to its brace), sig1 (all on one line);   *)
(* head, open (a head whose brace is on the next line, that brace); if;    *)
(* close; call (`m();`); com, rem (a line comment, a block comment); str   *)
(* (a quoted brace); quotesig (a line that quotes a signature, or has it   *)
(* in a line comment), torn (what a doc put inside it, or two docs in one  *)
(* place, leave); uses (`Other.class`); doc, olddoc, mydoc (Javadoc);      *)
(* import, export; stub, mine (statements).                                *)
(***************************************************************************)
EXTENDS Lines

CONSTANT Imports   \* the Java methods whose signature needs an import

Docs == {"doc", "olddoc", "mydoc"}

OpensBrace(l) == l.k \in {"class", "sig", "open", "if"}

(* _brace_close counts neither comments nor quotes. *)
Depth(t) ==
  LET opens == Where(t, OpensBrace)
      closes == Where(t, LAMBDA l : l.k = "close")
  IN [i \in 0 .. Len(t) |-> Cardinality({j \in opens : j <= i}) - Cardinality({j \in closes : j <= i})]

(* _find_brace and _brace_close, from line i on *)
BraceClose(t, i) ==
  LET brace == FirstOf(Where(t, LAMBDA l : OpensBrace(l) \/ l.k = "sig1"), i, t)
      d == Depth(t)
  IN IF brace > Len(t) \/ t[brace].k = "sig1" THEN brace
     ELSE FirstOf({j \in DOMAIN t : d[j] = d[brace] - 1}, brace + 1, t)

ClassStart(t) == FirstOf(Where(t, LAMBDA l : l.k = "class" /\ l.n = Own), 1, t)

ClassClose(t) == BraceClose(t, ClassStart(t))

(* _js_class_close finds the class and its end. *)
HasSpan(t) == ClassClose(t) <= Len(t)

DeclaresClass(t) == ClassStart(t) <= Len(t)

(* _strip_nested_brace_types: from a word `class` to the end of the next   *)
(* block.  If there is no block, the word is passed over.                  *)
StripNested(s) ==
  LET nested == {i \in 2 .. Len(s) : s[i].k \in {"class", "uses"} /\ BraceClose(s, i) <= Len(s)}
  IN Picked(s, Visited(Len(s), [i \in DOMAIN s |-> IF i \in nested THEN BraceClose(s, i) + 1 ELSE i + 1])
                 \ nested)

Region(t) == StripNested(SubSeq(t, ClassStart(t), ClassClose(t)))

(* _declares for Java: `public`, a type and the name on one line           *)
JavaDeclares(s, n) == \E i \in DOMAIN s : s[i].k \in {"sig", "sig1", "head"} /\ s[i].n = n

(* Mistake: the brace must be on the line of the name. *)
JsDeclaresOneLine(s, n) == \E i \in DOMAIN s : s[i].n = n /\ s[i].k \in {"sig", "sig1"}

(* _js_declares: a line that starts with the name, and a brace on it or    *)
(* after it before a semicolon                                             *)
JsDeclares(s, n) ==
  \E i \in DOMAIN s :
    /\ s[i].n = n
    /\ \/ s[i].k \in {"sig", "sig1"}
       \/ s[i].k = "head" /\ \E j \in i + 1 .. Len(s) :
            OpensBrace(s[j]) /\ \A h \in i + 1 .. j - 1 : s[h].k \notin {"call", "mine", "stub"}

(* _declares: no method is, of a class that has no end *)
MissingFrom(ext, t, allowed) ==
  IF ~HasSpan(t) THEN allowed
  ELSE LET s == Region(t)
       IN {n \in allowed : ~(IF ext = "java" THEN JavaDeclares(s, n) ELSE JsDeclares(s, n))}

(* _java_declares_name reads comments and quotes too, as _declares does    *)
(* not.                                                                    *)
Named(t, n) == Where(t, LAMBDA l : l.k \in {"sig", "sig1", "head", "quotesig", "torn"} /\ l.n = n)

(* _java_method_start, _include_java_doc: the line where the Javadoc of    *)
(* the signature in line i begins, or 0.  Behind a plain block comment it  *)
(* is the last Javadoc before, whosever it is.                             *)
DocLine(t, i) ==
  LET opened == {j \in 1 .. i - 1 : t[j].k \in Docs \cup {"torn"}}
  IN IF t[i].k = "torn" THEN i
     ELSE IF t[i].k # "quotesig" /\ opened # {} /\ t[i - 1].k \in Docs \cup {"rem"} THEN Max(opened)
     ELSE 0

DocAndBlock(t, i) == SubSeq(t, IF DocLine(t, i) = 0 THEN i ELSE DocLine(t, i), BraceClose(t, i))

(* _java_method, _js_method: the first place of the name in the stub *)
MethodBlock(full, n) ==
  LET a == FirstOf(Named(full, n), 1, full) IN IF a > Len(full) THEN <<>> ELSE DocAndBlock(full, a)

(* _ensure_java_imports *)
NeededImports(t, full, extras) ==
  Kept(full, LAMBDA l : /\ l.k = "import" /\ \E i \in DOMAIN extras : extras[i].n = l.n
                        /\ \A j \in DOMAIN t : t[j] # l)

(* Where _inject_java_docs finds the word `public` *)
IsPublic(l) == l.k \in {"sig", "sig1", "head", "quotesig", "torn"} \/ (l.k = "class" /\ l.n = Own)

(* _inject_java_docs: an old doc of the stub is replaced, with all that    *)
(* follows it up to the next `public`; any other stays.  The docs of two   *)
(* methods that reach back to one place are written over each other.       *)
InjectDocs(t, full, allowed) ==
  LET Place(n) == FirstOf(Named(t, n), 1, t)
      Doc(n) == Kept(MethodBlock(full, n), LAMBDA l : l.k = "doc")
      Of(i) == {n \in allowed : Place(n) = i}
      From(b) == {n \in allowed : Place(n) <= Len(t) /\ DocLine(t, Place(n)) = b}
      Old == {b \in DOMAIN t : t[b].k = "olddoc" /\ From(b) # {}}
      NewDoc(b) == IF \E n \in allowed : From(b) = {n} THEN Doc(CHOOSE n \in From(b) : TRUE)
                   ELSE <<Line(1, "torn", 0)>>
      gone == {i \in DOMAIN t : \E b \in Old : b < i /\ \A j \in b .. i : ~IsPublic(t[j])}
  IN FlattenSeq([i \in DOMAIN t |->
       IF i \in Old THEN NewDoc(i)
       ELSE IF i \in gone THEN <<>>
       ELSE IF Of(i) # {} /\ DocLine(t, i) = 0
       THEN IF t[i].k = "quotesig" THEN <<[t[i] EXCEPT !.k = "torn"]>>
            ELSE Doc(CHOOSE n \in Of(i) : TRUE) \o <<t[i]>>
       ELSE <<t[i]>>])

-----------------------------------------------------------------------------
(* What the compiler reads *)

Visible(t) ==
  LET d == Depth(t)
      a == ClassStart(t)
      inside == a + 1 .. BraceClose(t, a) - 1
  IN {i \in inside : t[i].k \in {"sig", "sig1", "head"} /\ d[i - 1] = d[a]}

Methods(t) == {t[i].n : i \in Visible(t)} \cap Method

Body(t, n) ==
  LET a == Max({i \in Visible(t) : t[i].n = n})
  IN SubSeq(t, a, BraceClose(t, a))

(* Braces pair up, nothing is torn, and in Java no method is declared      *)
(* twice and each one has the import that it needs.                        *)
Parses(ext, t) ==
  LET d == Depth(t)
  IN /\ HasSpan(t) /\ d[Len(t)] = 0 /\ \A i \in DOMAIN t : d[i] >= 0
     /\ \A i \in DOMAIN t : t[i].k # "torn"
     /\ ext = "java" =>
          /\ \A i, j \in Visible(t) : t[i].n = t[j].n => i = j
          /\ \A n \in Methods(t) \cap Imports :
               Where(Before(t, ClassStart(t)), LAMBDA l : l.k = "import" /\ l.n = n) # {}

-----------------------------------------------------------------------------
(* _js_class_close raises a ValueError. *)
MergeFails(ext, t, allowed) == MissingFrom(ext, t, allowed) # {} /\ ~HasSpan(t)

Grown(ext, t, full, allowed) ==
  LET extras == Blocks(MissingFrom(ext, t, allowed), LAMBDA n : MethodBlock(full, n))
      a == ClassStart(t)
      close == ClassClose(t)
  IN IF extras = <<>> THEN t
     ELSE Before(t, a) \o (IF ext = "java" THEN NeededImports(t, full, extras) ELSE <<>>)
            \o SubSeq(t, a, close - 1) \o extras \o After(t, close)

Merge(ext, t, full, allowed) ==
  IF ext = "java" THEN InjectDocs(Grown(ext, t, full, allowed), full, allowed)
  ELSE Grown(ext, t, full, allowed)

(* The constructor and the methods of the stub, in its order               *)
SlicedMethods(full, allowed) ==
  FlattenSeq([i \in DOMAIN full |->
    IF full[i].k \in {"sig", "sig1"} /\ full[i].n \in allowed \cup {Ctor}
    THEN DocAndBlock(full, i) ELSE <<>>])

(* _java_header keeps the imports that the body needs. *)
JavaHeader(full, body) ==
  Kept(Before(full, ClassStart(full)), LAMBDA l :
         l.k # "import" \/ \E i \in DOMAIN body : body[i].n = l.n)
    \o <<full[ClassStart(full)]>>

(* _js_header keeps all that is before the class. *)
JsHeader(full) == SubSeq(full, 1, ClassStart(full))

(* _js_footer: what the stub exports after the class *)
JsFooter(full) == <<Line(0, "close", 0)>> \o Kept(full, LAMBDA l : l.k = "export")

(* _slice_java, _slice_js *)
Slice(ext, full, allowed) ==
  LET body == SlicedMethods(full, allowed)
  IN IF ext = "java" THEN JavaHeader(full, body) \o body \o <<Line(0, "close", 0)>>
     ELSE JsHeader(full) \o body \o JsFooter(full)

Full(ext) ==
  IF ext = "java"
  THEN Blocks(Imports, LAMBDA n : <<Line(0, "import", n)>>)
         \o <<Line(0, "class", Own), Line(1, "sig1", Ctor)>>
         \o FlattenSeq([i \in DOMAIN StubOrder |->
              <<Line(1, "doc", StubOrder[i]), Line(1, "sig", StubOrder[i]), Line(2, "stub", 0), Line(1, "close", 0)>>])
         \o <<Line(0, "close", 0)>>
  ELSE <<Line(0, "class", Own), Line(1, "sig1", Ctor)>>
         \o [i \in DOMAIN StubOrder |-> Line(1, "sig1", StubOrder[i])]
         \o <<Line(0, "close", 0), Line(0, "export", 0)>>
=============================================================================
