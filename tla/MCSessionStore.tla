-------------------------- MODULE MCSessionStore ---------------------------
(* SessionStore on two commands, two or three problems and two desks. *)
EXTENDS SessionStore, FiniteSets, TLC

CONSTANTS p1, p2, d1, d2

Commands == {p1, p2}
SomeDesks == {d1, d2}

(* Every file a save can have left, spoiled or not. *)
AnyFile == SavedFile \cup {NoSession}

(* No file, or a good one with a single desk. *)
FreshFile == {NoSession} \cup {f \in SavedFile : f.status = "good" /\ f.parked = Empty}

(* After a kill, one command at a time: store_crash shows what two can do. *)
AloneAfterKill ==
  crashes > 0 => Cardinality({p \in Proc : pc[p] # "idle" \/ mem[p] # NoSession}) <= 1

Symmetry == Permutations(Commands) \cup Permutations(SomeDesks)
=============================================================================
