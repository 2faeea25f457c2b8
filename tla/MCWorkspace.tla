---------------------------- MODULE MCWorkspace ----------------------------
(* Small instances of Workspace. *)
EXTENDS Workspace, TLC

CONSTANTS p1, p2, t1, t2

Alike == Permutations({t1, t2})
=============================================================================
