----------------------------- MODULE MCPractice ----------------------------
(* Practice on small instances, for TLC. *)
EXTENDS Practice

CONSTANTS p1, p2

Every == {"run", "submit", "start", "vscode", "reset", "back", "console reset",
          "console back", "console all", "console vscode"}

(* The files of a user who solves the levels in order and may take a       *)
(* method out, or the class, or the file.                                  *)
InOrder == {NoWork, NoClass} \cup
  {[l \in Levels |-> IF l <= k THEN "solved" ELSE "missing"] : k \in 0..Top}

Solved == {[l \in Levels |-> "solved"]}
=============================================================================
