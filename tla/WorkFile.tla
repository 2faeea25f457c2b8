------------------------------ MODULE WorkFile -----------------------------
(***************************************************************************)
(* The text of one work file over the levels: honepad slices the stub into *)
(* it, and at each start and each level that opens merges into it what it  *)
(* lacks, while the user edits it.  The five families of languages have    *)
(* their own algorithms; which one runs depends on the file's extension,   *)
(* and this module puts them behind one interface, as slice_stub and       *)
(* merge_unlocked_methods do.  One command is under way at a time, and in  *)
(* one language; Practice has commands that overlap.                       *)
(***************************************************************************)
EXTENDS Lines

CONSTANTS
  Families,   \* the families of this instance
  Imports,    \* the Java methods whose signature needs an import
  TopLevel,   \* max_level
  Idioms,     \* what a user adds: lines, and where
  Answers,    \* what a user writes in place of a stub's body
  MaxEdits,   \* bound: how many of these, and of changes to docs, he makes
  NoFile

Py == INSTANCE PyWork
Rb == INSTANCE RubyWork
Br == INSTANCE BraceWork
Co == INSTANCE CommentWork

VARIABLES
  family,   \* the family of the language; it never changes
  level,    \* the level that the session has open
  toSave,   \* the level that the command under way has yet to save, or 0
  ahead,    \* history: a submit made the file for the next level, and since
            \* then it was not opened, nor the file cut again
  file,     \* the work file
  edits     \* how many edits were made

vars == <<family, level, toSave, ahead, file, edits>>

Braces == {"java", "js"}
Comments == {"line", "block"}

(* The kinds of lines that each family tells apart *)
Kinds(f) ==
  CASE f = "py" -> {"class", "def", "defC", "def1", "if", "doc", "olddoc", "mydoc", "quote",
                    "com", "stub", "mine", "text"}
    [] f = "rb" -> {"class", "class1", "module", "def", "defself", "def1", "if", "end", "begin",
                    "fin", "here", "term", "com", "stub", "mine"}
    [] f \in Braces -> {"class", "sig", "sig1", "head", "open", "if", "close", "call", "com", "rem",
                        "str", "quotesig", "torn", "uses", "doc", "olddoc", "mydoc", "import",
                        "export", "stub", "mine"}
    [] f = "line" -> {"com", "code"}
    [] OTHER -> {"head", "in", "last", "close", "one", "code"}

Texts(f) == Seq(LinesOf(Kinds(f)))

ASSUME WorkFileAssumption ==
  /\ Families \subseteq {"py", "rb"} \cup Braces \cup Comments
  /\ Imports \subseteq Method
  /\ TopLevel \in Nat \ {0} /\ \A n \in Method : LevelOf[n] <= TopLevel
  /\ MaxEdits \in Nat

(* Statements that a method's body can have: what they open they close,    *)
(* and where they declare methods there is no other than n.                *)
IsBody(f, n, t) ==
  CASE f = "py" -> \A i \in DOMAIN t : t[i].in >= 2 /\ t[i].k # "quote"
    [] f = "rb" -> Rb!Parses(t) /\ \A i \in DOMAIN t : t[i].k \in {"if", "end", "com", "mine"}
    [] f \in Braces ->
         LET d == Br!Depth(t)
         IN /\ d[Len(t)] = 0
            /\ \A i \in DOMAIN t :
                 /\ d[i] >= 0 /\ t[i].n # Own
                 /\ t[i].k \in {"sig", "sig1", "head"} /\ d[i - 1] = 0 => t[i].n = n
    [] OTHER -> TRUE

(* What a user writes is his own: no line of it is a stub's.               *)
ASSUME UserAssumption ==
  \A f \in Families :
    LET His(t) == t \in Texts(f) /\ Where(t, LAMBDA l : l.k = "stub") = {}
    IN /\ \A id \in Idioms[f] :
            His(id.lines) /\ id.where \in {"above", "below", "member", "body"}
       /\ \A n \in Method \cup {0} : His(Answers[f][n]) /\ IsBody(f, n, Answers[f][n])

ASSUME NoFileAssumption == \A f \in Families : NoFile \notin Texts(f)

-----------------------------------------------------------------------------
(* The interface of the families *)

Stub == CASE family = "py" -> Py!Full
          [] family = "rb" -> Rb!Full
          [] family \in Braces -> Br!Full(family)
          [] OTHER -> Co!Full(family)

(* slice_stub *)
Sliced(l) == CASE family = "py" -> Py!Slice(Stub, Allowed(l))
               [] family = "rb" -> Rb!Slice(Stub, Allowed(l))
               [] family \in Braces -> Br!Slice(family, Stub, Allowed(l))
               [] OTHER -> Co!Slice(Stub, Allowed(l))

(* declares_class *)
Declared(t) == CASE family = "py" -> Py!DeclaresClass(t)
                 [] family = "rb" -> Rb!DeclaresClass(t)
                 [] family \in Braces -> Br!DeclaresClass(t)
                 [] OTHER -> Co!DeclaresClass(t)

(* merge_unlocked_methods raises a ValueError. *)
Refuses(t, l) == CASE family = "py" -> Py!MergeFails(t, Allowed(l))
                   [] family = "rb" -> Rb!MergeFails(t, Allowed(l))
                   [] family \in Braces -> Br!MergeFails(family, t, Allowed(l))
                   [] OTHER -> FALSE

(* merge_unlocked_methods *)
Merged(t, l) == CASE family = "py" -> Py!Merge(t, Stub, Allowed(l))
                  [] family = "rb" -> Rb!Merge(t, Stub, Allowed(l))
                  [] family \in Braces -> Br!Merge(family, t, Stub, Allowed(l))
                  [] OTHER -> Co!Merge(t, Stub, Allowed(l))

(* What the language reads in the file *)
Parses(t) == CASE family = "py" -> Py!Parses(t) /\ Py!OwnClasses(t) # {}
               [] family = "rb" -> Rb!Parses(t) /\ Rb!HasSpan(t)
               [] family \in Braces -> Br!Parses(family, t)
               [] OTHER -> Co!Parses(t) /\ Co!DeclaresClass(t)

Methods(t) == CASE family = "py" -> Py!Methods(t)
                [] family = "rb" -> Rb!Methods(t)
                [] family \in Braces -> Br!Methods(t)
                [] OTHER -> Co!Methods(t)

Body(t, n) == CASE family = "py" -> Py!Body(t, n)
                [] family = "rb" -> Rb!Body(t, n)
                [] family \in Braces -> Br!Body(t, n)
                [] OTHER -> Co!CodeLines(t)

Solved(t, n) ==
  \E i \in DOMAIN Body(t, n) :
    IF family \in Comments THEN Body(t, n)[i].n = n ELSE Body(t, n)[i].k = "mine"

-----------------------------------------------------------------------------
(* The user *)

(* All stub bodies of the file, or all methods it only names, are written. *)
Answered(t, answer) ==
  FlattenSeq([i \in DOMAIN t |->
    IF t[i].k = "stub" \/ (family = "js" /\ t[i].k = "sig1" /\ t[i].n \in Method)
    THEN answer[t[i].n] ELSE <<t[i]>>])
    \o (IF family \in Comments
        THEN Blocks({n \in Methods(t) : ~Solved(t, n)}, LAMBDA n : <<Line(0, "code", n)>>)
        ELSE <<>>)

(* Where lines can be added: before the class, at the end of the file,     *)
(* before a method, or in a method's body                                  *)
Places(t, where) ==
  CASE where = "above" -> {FirstOf(Where(t, LAMBDA l : l.n = Own), 1, t)}
    [] where = "below" -> {Len(t) + 1}
    [] where = "member" -> {i \in Where(t, LAMBDA l : l.in = 1 /\ l.k \in {"def", "sig", "sig1", "head"}) :
                              t[i - 1].k \notin {"doc", "olddoc", "mydoc"}}
    [] where = "body" -> Where(t, LAMBDA l : l.in = 2 /\ l.k \in {"stub", "mine"})

Write(t) == file' = t /\ edits' = edits + 1 /\ UNCHANGED <<family, level, toSave, ahead>>

(* What is added stands in code, and is not a method of the API itself.    *)
Add ==
  /\ file # NoFile /\ edits < MaxEdits /\ Parses(file)
  /\ \E id \in Idioms[family] : \E i \in Places(file, id.where) :
       LET new == Before(file, i) \o id.lines \o After(file, i)
       IN Parses(new) /\ Methods(new) = Methods(file) /\ Write(new)

(* A docstring of the stub is one of an old stub, or is replaced, or goes. *)
ChangeDoc ==
  /\ file # NoFile /\ edits < MaxEdits
  /\ \E i \in Where(file, LAMBDA l : l.k = "doc") :
       \/ \E k \in {"olddoc", "mydoc"} : Write([file EXCEPT ![i].k = k])
       \/ Write(Before(file, i) \o After(file, i + 1))

Solve ==
  /\ file # NoFile
  /\ file' = Answered(file, Answers[family])
  /\ UNCHANGED <<family, level, toSave, ahead, edits>>

(* A file that is being edited: its last line is gone, or all of it. *)
Damage ==
  /\ file # NoFile /\ file # <<>> /\ edits < MaxEdits
  /\ \/ Write(Before(file, Len(file)))
     \/ Write(<<>>)
     \/ Write(NoFile)

-----------------------------------------------------------------------------
(* honepad *)

Init ==
  /\ family \in Families
  /\ level = 1
  /\ toSave = 0
  /\ ahead = FALSE
  /\ file = NoFile
  /\ edits = 0

Stay == UNCHANGED <<family, edits>>

(* ensure_work_copy: what has no class stays as it is, and so does, with   *)
(* an error, what cannot be merged.                                        *)
Ensured(l) ==
  IF file = NoFile THEN Sliced(l)
  ELSE IF Declared(file) /\ ~Refuses(file, l) THEN Merged(file, l)
  ELSE file

(* A start, at the level that is open *)
Start ==
  /\ toSave = 0
  /\ file' = Ensured(level)
  /\ UNCHANGED <<level, toSave, ahead>> /\ Stay

(* Mistake: a submit at the last level goes one further. *)
SubmitPastTop ==
  /\ toSave = 0
  /\ file # NoFile => Declared(file) /\ ~Refuses(file, level + 1)
  /\ file' = Ensured(level + 1)
  /\ toSave' = level + 1 /\ ahead' = TRUE
  /\ UNCHANGED level /\ Stay

(* A submit that has passed makes the file for the next level, and saves   *)
(* that level afterwards.  What passed may be the reference solution       *)
(* (--kind solution), so that nothing is known of the file.  One that has  *)
(* no class (require_merge), or cannot be merged, opens nothing.           *)
Submit ==
  /\ toSave = 0 /\ level < TopLevel
  /\ file # NoFile => Declared(file) /\ ~Refuses(file, level + 1)
  /\ file' = Ensured(level + 1)
  /\ toSave' = level + 1 /\ ahead' = TRUE
  /\ UNCHANGED level /\ Stay

(* Mistake: a step back merges as a start does. *)
RewriteByMerging ==
  /\ toSave = 0
  /\ \E l \in {1, level - 1, level} \ {0} :
       /\ toSave' = l
       /\ file' = IF file # NoFile /\ Parses(file) THEN Merged(file, l) ELSE Sliced(l)
  /\ ahead' = FALSE
  /\ UNCHANGED level /\ Stay

(* A reset, to the first level or of the one that is open, and a step back *)
(* cut the file again, and save the level afterwards.                      *)
Rewrite ==
  /\ toSave = 0
  /\ \E l \in {1, level - 1, level} \ {0} : file' = Sliced(l) /\ toSave' = l
  /\ ahead' = FALSE
  /\ UNCHANGED level /\ Stay

(* unlock_next, lock_to_level, new_session *)
SaveLevel ==
  /\ toSave # 0
  /\ level' = toSave /\ toSave' = 0 /\ ahead' = FALSE
  /\ UNCHANGED file /\ Stay

(* The command is killed before it saves, or its save fails, or times out  *)
(* waiting for the lock.                                                   *)
Stop ==
  /\ toSave # 0
  /\ toSave' = 0
  /\ UNCHANGED <<level, ahead, file>> /\ Stay

Next == Start \/ Submit \/ Rewrite \/ SaveLevel \/ Stop \/ Add \/ ChangeDoc \/ Solve \/ Damage

Spec == Init /\ [][Next]_vars

-----------------------------------------------------------------------------
(* Properties *)

(* The levels are of the problem's, and the file a text of its language.   *)
WorkFileTypeOK ==
  /\ family \in Families /\ edits \in 0 .. MaxEdits
  /\ level \in 1 .. TopLevel /\ toSave \in 0 .. TopLevel /\ ahead \in BOOLEAN
  /\ file \in Texts(family) \cup {NoFile}

Merges == edits' = edits /\ file # NoFile /\ (Start \/ Submit)

(* The level that a command makes the file for *)
LevelFor == IF toSave = 0 THEN level ELSE toSave

(* Merging never harms: of a file that the language reads it leaves one,   *)
(* in which each method that the user has is as it was.                    *)
KeepsTheClass ==
  [][Merges /\ Parses(file) =>
       /\ Parses(file')
       /\ \A n \in Methods(file) : n \in Methods(file') /\ Body(file', n) = Body(file, n)]_vars

(* And it completes: such a file is not refused, and then has all methods  *)
(* of the level that it is merged for, wherever else their names occur.    *)
OpensEveryMethod ==
  [][Merges /\ Parses(file) => Allowed(LevelFor') \subseteq Methods(file')]_vars

(* A method of a locked level is in the file only if it is one of the next *)
(* level, and a submit wrote it that passed and has not yet saved the      *)
(* level, or was stopped before it did (cli.py:695, 713); what a step back *)
(* or a reset closed is gone.  All this while the file is edited as well.  *)
ShowsOnlyUnlocked ==
  file # NoFile => Methods(file) \subseteq Allowed(IF ahead THEN level + 1 ELSE level)

(* What a start has merged the next start leaves alone: a work file does   *)
(* not grow by being opened.                                               *)
Settles ==
  [][Merges /\ Declared(file') /\ ~Refuses(file', LevelFor')
       => Merged(file', LevelFor') = file']_vars
=============================================================================
