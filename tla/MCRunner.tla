------------------------------ MODULE MCRunner -----------------------------
EXTENDS Runner

C(i, l) == [id |-> i, file |-> l, level |-> l]

(* Two cases of the level that is run or below, and one above it *)
ThreeCases == {C(1, 1), C(2, 2), C(3, 3)}

T(a, b, loads, late, leaves) ==
  [loads |-> loads, late |-> late, leaves |-> leaves,
   does |-> [c \in ThreeCases |-> IF c.id = 1 THEN a ELSE IF c.id = 2 THEN b ELSE "wrong"]]

Texts == {T("right", "right", TRUE, FALSE, FALSE),
          T("right", "wrong", TRUE, FALSE, FALSE),
          T("right", "right", TRUE, TRUE, TRUE),
          T("hangs", "dies", TRUE, FALSE, FALSE),
          T("right", "right", FALSE, FALSE, FALSE)}

R(kind, tool, steps, inFile) == [kind |-> kind, tool |-> tool, steps |-> steps, file |-> inFile]

Recipes == {R("hook", "bare", FALSE, FALSE),
            R("script", "listed", FALSE, FALSE),
            R("compiled", "bare", TRUE, TRUE)}
=============================================================================
