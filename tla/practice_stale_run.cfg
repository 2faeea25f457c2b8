CONSTANTS
  p1 = p1
  p2 = p2
  Proc = {p1, p2}
  Top = 2
  Minutes = {1}
  Default = 1
  NoMinutes = NoMinutes
  Commands = {"reset", "submit", "run"}
  Kinds = {"work"}
  Edits <- Solved
  MaxNow = 1
  MaxFaults = 0
  NoDesk = NoDesk
  NoWork = NoWork
  NoClass = NoClass
  NoJob = NoJob
  NoWorkspace = NoWorkspace
  NoCases = NoCases
SPECIFICATION Spec
PROPERTY RunUnlocksNothing
