------------------------------- MODULE Desks -------------------------------
(***************************************************************************)
(* What session.json promises to the commands that share it: one desk per  *)
(* problem and one problem that is active.  A save puts one desk, makes    *)
(* its problem the active one and leaves every other desk as it is.        *)
(***************************************************************************)
CONSTANTS
  Problem,    \* the problems of the pack
  Desk,       \* what is kept of one problem: lang, clock, level, last run
  NoDesk,     \* a problem that was never started
  NoProblem   \* active when no session was ever saved

VARIABLES active, desk

deskVars == <<active, desk>>

DesksTypeOK ==
  /\ active \in Problem \cup {NoProblem}
  /\ desk \in [Problem -> Desk \cup {NoDesk}]

DesksInit == DesksTypeOK

Put(q, d) ==
  /\ active' = q
  /\ desk' = [desk EXCEPT ![q] = d]

DesksSpec == DesksInit /\ [][\E q \in Problem, d \in Desk : Put(q, d)]_deskVars
=============================================================================
