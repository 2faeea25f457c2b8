------------------------------ MODULE Verdict ------------------------------
(***************************************************************************)
(* What one run promises to the person who edits the work file: the run    *)
(* looks at the file at one moment, and says pass only of a text that      *)
(* solves the level and fail only of one that does not.  It may also end   *)
(* without a verdict.                                                      *)
(***************************************************************************)
CONSTANTS
  Text,     \* what the work file may hold
  Solving,  \* the texts that answer every case of the level
  NoText    \* the file is missing, or nothing was looked at yet

VARIABLES file, seen, verdict

verdictVars == <<file, seen, verdict>>

VerdictInit == file \in Text \cup {NoText} /\ seen = NoText /\ verdict = "idle"

Save == file' \in Text \cup {NoText} /\ UNCHANGED <<seen, verdict>>

Ask == verdict # "none" /\ verdict' = "none" /\ seen' = NoText /\ UNCHANGED file

Look == verdict = "none" /\ seen = NoText /\ seen' = file /\ UNCHANGED <<file, verdict>>

Tell ==
  /\ verdict = "none"
  /\ \/ verdict' = "pass" /\ seen \in Solving
     \/ verdict' = "fail" /\ seen \in Text \ Solving
     \/ verdict' \in {"error", "interrupted"}
  /\ UNCHANGED <<file, seen>>

VerdictSpec == VerdictInit /\ [][Save \/ Ask \/ Look \/ Tell]_verdictVars
=============================================================================
