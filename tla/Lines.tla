------------------------------- MODULE Lines -------------------------------
(***************************************************************************)
(* Work files and stubs as sequences of lines.  A line is its indentation, *)
(* its kind and the name in it: 0 for none, the number of an API method in *)
(* the order of the alphabet, or the class or the constructor.  Blank      *)
(* lines are left out: workstub.py adds and drops them as layout.          *)
(***************************************************************************)
EXTENDS Integers, Sequences, FiniteSets, SequencesExt

CONSTANTS
  StubOrder,  \* the API methods in the order of the stub
  LevelOf     \* the level from which on a method is in the traces

Method == {StubOrder[i] : i \in DOMAIN StubOrder}

ASSUME LinesAssumption ==
  /\ StubOrder \in Seq(1 .. Len(StubOrder))
  /\ Cardinality(Method) = Len(StubOrder) /\ Len(StubOrder) < 100
  /\ LevelOf \in [Method -> Nat \ {0}]

Own == 100       \* the name of the class
Ctor == 101      \* the name of its constructor

Line(in, k, n) == [in |-> in, k |-> k, n |-> n]

LinesOf(kinds) == [in : Nat, k : kinds, n : Method \cup {0, Own, Ctor}]

(* methods_through_level *)
Allowed(level) == {n \in Method : LevelOf[n] <= level}

(* The lines with the numbers in S, in their order *)
Picked(t, S) == FlattenSeq([i \in DOMAIN t |-> IF i \in S THEN <<t[i]>> ELSE <<>>])

(* The first line from i on that is one of S, or the line after the last *)
FirstOf(S, i, t) == LET at == {j \in S : j >= i}
                    IN IF at = {} THEN Len(t) + 1 ELSE Min(at)

Where(t, Is(_)) == {i \in DOMAIN t : Is(t[i])}

Kept(t, Is(_)) == Picked(t, Where(t, Is))

Before(t, i) == SubSeq(t, 1, i - 1)

After(t, i) == SubSeq(t, i, Len(t))

(* What a scan over lines 1 .. n visits that goes from i to Next[i] *)
Visited(n, Next) ==
  LET from[i \in 1 .. n + 2] == IF i > n THEN {} ELSE {i} \cup from[Next[i]]
  IN from[1]

(* The blocks of the methods in S, in the order of the alphabet *)
Blocks(S, Block(_)) ==
  FlattenSeq([n \in DOMAIN StubOrder |-> IF n \in S THEN Block(n) ELSE <<>>])
=============================================================================
