------------------------------- MODULE Ladder ------------------------------
(***************************************************************************)
(* What practice promises to somebody who uses one command at a time: the  *)
(* open level of a problem rises one step per submit, never past the top;  *)
(* only the top level is finished; and nothing but a reset takes a level   *)
(* back, to the one below or to the first.                                 *)
(***************************************************************************)
EXTENDS Naturals

CONSTANT Top   \* the last level of the problem

VARIABLES
  level,      \* the open level, 0 before the first start
  finished    \* whether the last level was passed

ladderVars == <<level, finished>>

LadderInit == level = 0 /\ finished = FALSE

Open == level = 0 /\ level' = 1 /\ finished' = FALSE

Climb == level \in 1..(Top - 1) /\ level' = level + 1 /\ finished' = FALSE

Finish == level = Top /\ level' = level /\ finished' = TRUE

GoBack == level > 1 /\ level' = level - 1 /\ finished' = FALSE

StartOver == level' = 1 /\ finished' = FALSE

LadderNext == Open \/ Climb \/ Finish \/ GoBack \/ StartOver

LadderSpec == LadderInit /\ [][LadderNext]_ladderVars
=============================================================================
