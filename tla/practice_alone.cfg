CONSTANTS
  p1 = p1
  p2 = p2
  Proc = {p1}
  Top = 3
  Minutes = {1}
  Default = 2
  NoMinutes = NoMinutes
  Commands <- Every
  Kinds = {"work", "solution"}
  Edits <- InOrder
  MaxNow = 2
  MaxFaults = 1
  NoDesk = NoDesk
  NoWork = NoWork
  NoClass = NoClass
  NoJob = NoJob
  NoWorkspace = NoWorkspace
  NoCases = NoCases
SPECIFICATION Spec
INVARIANT PracticeTypeOK
INVARIANT EveryLevelEarned
PROPERTY EndsAtTheOpenLevel
PROPERTY ClimbsTheLadder
PROPERTY OpensOverItsMethods
PROPERTY KeepsSolutions
PROPERTY ClockKeepsRunning
