----------------------------- MODULE MCWorkFile ----------------------------
EXTENDS WorkFile

(* Method 3 opens first, 1 and 2 one level each after it: neither the      *)
(* stub's order nor that of the levels is the alphabet's.                  *)
Order == <<3, 1, 2>>
Levels == <<2, 3, 1>>
NeedsImport == {1}

Other == 0

Id(where, lines) == [where |-> where, lines |-> lines]

(* The idioms of the tests: a helper class, a nested class and a comment   *)
(* that have the method of a later level, strings and heredocs that hold   *)
(* what looks like code, and lines after the class.                        *)
UserIdioms ==
  [f \in {"py", "rb", "java", "js", "line", "block"} |->
     CASE f = "py" ->
       {Id("above", <<Line(0, "class", Other), Line(1, "def", 1), Line(2, "mine", 0)>>),
        Id("below", <<Line(0, "class", Other), Line(1, "def", 1), Line(2, "mine", 0)>>),
        Id("below", <<Line(0, "if", 0), Line(1, "mine", 0)>>),
        Id("above", <<Line(0, "quote", 0), Line(0, "text", 0), Line(0, "quote", 0)>>),
        Id("body", <<Line(2, "if", 0), Line(3, "mine", 0)>>),
        Id("below", <<Line(1, "com", 1)>>)}
     [] f = "rb" ->
       {Id("above", <<Line(0, "class", Other), Line(1, "def", 1), Line(2, "mine", 0), Line(1, "end", 0), Line(0, "end", 0)>>),
        Id("below", <<Line(0, "module", Other), Line(1, "def", 1), Line(1, "end", 0), Line(0, "end", 0)>>),
        Id("member", <<Line(1, "class", Other), Line(2, "def", 1), Line(2, "end", 0), Line(1, "end", 0)>>),
        Id("member", <<Line(0, "begin", 0), Line(1, "def", 1), Line(0, "end", 0), Line(0, "fin", 0)>>),
        Id("above", <<Line(0, "begin", 0), Line(0, "class", Own), Line(0, "end", 0), Line(0, "fin", 0)>>),
        Id("body", <<Line(2, "here", 0), Line(0, "end", 0), Line(2, "term", 0)>>),
        Id("body", <<Line(2, "if", 0), Line(3, "mine", 0), Line(2, "end", 0)>>),
        Id("member", <<Line(1, "com", 1)>>)}
     [] f = "java" ->
       {Id("below", <<Line(0, "class", Other), Line(1, "sig", 1), Line(2, "mine", 0), Line(1, "close", 0), Line(0, "close", 0)>>),
        Id("member", <<Line(1, "class", Other), Line(2, "sig1", 1), Line(1, "close", 0)>>),
        Id("body", <<Line(2, "call", 1)>>), Id("body", <<Line(2, "str", 0)>>),
        Id("member", <<Line(1, "com", 1)>>),
        Id("body", <<Line(2, "if", 0), Line(3, "mine", 0), Line(2, "close", 0)>>)}
     [] f = "js" ->
       {Id("above", <<Line(0, "class", Other), Line(1, "sig1", 1), Line(0, "close", 0)>>),
        Id("member", <<Line(1, "class", Other), Line(2, "sig1", 1), Line(1, "close", 0)>>),
        Id("body", <<Line(2, "call", 1)>>),
        Id("above", <<Line(0, "rem", Own)>>),
        Id("below", <<Line(0, "str", 0)>>)}
     [] f = "line" ->
       {Id("above", <<Line(0, "code", 0)>>), Id("below", <<Line(0, "com", 0)>>),
        Id("above", <<Line(0, "com", 0)>>)}
     [] OTHER -> {Id("below", <<Line(0, "one", 0)>>), Id("above", <<Line(0, "one", 0)>>)}]

(* Only a Java field whose text is the head of a method *)
QuotingIdioms ==
  [f \in {"py", "rb", "java", "js", "line", "block"} |->
     IF f = "java" THEN {Id("member", <<Line(1, "quotesig", 3)>>)} ELSE {}]

(* Only a plain block comment before a Java method *)
CommentIdioms ==
  [f \in {"py", "rb", "java", "js", "line", "block"} |->
     IF f = "java" THEN {Id("member", <<Line(1, "rem", 0)>>)} ELSE {}]

(* The JavaScript methods 1 and 2 get their brace on the next line. *)
UserAnswers ==
  [f \in {"py", "rb", "java", "js", "line", "block"} |-> [n \in 0 .. 3 |->
     CASE f = "py" -> <<Line(2, "if", 0), Line(3, "mine", 0)>>
       [] f \in {"rb", "java"} -> <<Line(2, "mine", 0)>>
       [] f = "js" -> (IF n = 3 THEN <<Line(1, "sig", n)>> ELSE <<Line(1, "head", n), Line(1, "open", 0)>>)
                        \o <<Line(2, "mine", 0), Line(1, "close", 0)>>
       [] OTHER -> <<>>]]
=============================================================================
