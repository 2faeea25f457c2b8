---------------------------- MODULE CommentWork ----------------------------
(***************************************************************************)
(* Slicing and merging in the languages whose stub lists the API in        *)
(* comments (workstub.py): a line comment per method ("line"), or one      *)
(* block comment over several lines ("block", OCaml).  What is merged are  *)
(* lines of the comment; the methods are the user's to write.              *)
(*                                                                         *)
(* Kinds: com (a line comment); head (opens a block comment); in (a line   *)
(* inside it); last (the line inside it that also closes it); close (only  *)
(* closes it); one (a whole block comment); code.                          *)
(***************************************************************************)
EXTENDS Lines

OpensBlock(l) == l.k \in {"head", "one"}

ClosesBlock(l) == l.k \in {"last", "close", "one"}

(* The class's name anywhere will do. *)
DeclaresClass(t) == Where(t, LAMBDA l : l.n = Own) # {}

(* in_block of the loops: set by `(*', cleared after a line with `*)' *)
InBlock(t) ==
  {i \in DOMAIN t : \E j \in 1 .. i : OpensBlock(t[j]) /\ \A h \in j .. i - 1 : ~ClosesBlock(t[h])}

(* The lines whose name counts: _is_comment_line, or inside a block *)
Listed(t) ==
  {i \in DOMAIN t : /\ t[i].n \in Method
                    /\ t[i].k \in {"com", "head", "last", "close", "one"} \/ i \in InBlock(t)}

(* _form_in_work: the name as a word, in code or in a comment *)
Present(t, n) == \E i \in DOMAIN t : t[i].n = n

(* _merge_api_comments: the stub's lines as they are, in its order *)
Extras(t, full, allowed) ==
  Picked(full, {i \in Listed(full) : full[i].n \in allowed /\ ~Present(t, full[i].n)})

(* _insert_api_comment_lines: the last line of the leading comments *)
LeadingEnd(t) ==
  LET leading == {i \in DOMAIN t : \A j \in 1 .. i : t[j].k \notin {"code", "in"} \/ j \in InBlock(t)}
  IN IF leading = {} THEN 0 ELSE Max(leading)

InsertLines(t, extras) ==
  LET last == LeadingEnd(t)
      at == IF last > 0 /\ t[last].k \in {"last", "close"} THEN last ELSE last + 1
  IN Before(t, at) \o extras \o After(t, at)

-----------------------------------------------------------------------------
(* What the compiler reads: comments that open and close in turn *)

Parses(t) ==
  LET inside == {i \in 1 .. Len(t) + 1 :
                   \E j \in 1 .. i - 1 : t[j].k = "head" /\ \A h \in j + 1 .. i - 1 : ~ClosesBlock(t[h])}
  IN /\ \A i \in DOMAIN t : i \in inside <=> t[i].k \in {"in", "last", "close"}
     /\ Len(t) + 1 \notin inside

(* The methods that the file names, and all of its code *)
Methods(t) == {t[i].n : i \in DOMAIN t} \cap Method

CodeLines(t) == Kept(t, LAMBDA l : l.k = "code")

-----------------------------------------------------------------------------
MissingFrom(t, allowed) == {n \in allowed : ~Present(t, n)}

Merge(t, full, allowed) ==
  LET extras == Extras(t, full, allowed) IN IF extras = <<>> THEN t ELSE InsertLines(t, extras)

(* _slice_api_comments: a line that closes the block leaves its closer. *)
Slice(full, allowed) ==
  FlattenSeq([i \in DOMAIN full |->
    IF i \in Listed(full) /\ full[i].n \notin allowed
    THEN IF full[i].k = "last" THEN <<Line(0, "close", 0)>> ELSE <<>>
    ELSE <<full[i]>>])

Full(style) ==
  IF style = "line"
  THEN <<Line(0, "com", Own)>> \o [i \in DOMAIN StubOrder |-> Line(0, "com", StubOrder[i])]
         \o <<Line(0, "code", 0)>>
  ELSE <<Line(0, "head", Own)>>
         \o [i \in DOMAIN StubOrder |->
               Line(1, IF i = Len(StubOrder) THEN "last" ELSE "in", StubOrder[i])]
         \o <<Line(0, "code", 0)>>
=============================================================================
