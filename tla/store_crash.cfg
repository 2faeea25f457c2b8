CONSTANTS
  p1 = p1
  p2 = p2
  d1 = d1
  d2 = d2
  Proc <- Commands
  Desk <- SomeDesks
  Problem = {x, y}
  NoLock = NoLock
  Dead = Dead
  NoDesk = NoDesk
  NoProblem = NoProblem
  NoSession = NoSession
  Files <- FreshFile
  Deadline = 1
  StaleAfter = 1
  MaxHold = 1
  MaxCrashes = 1
SYMMETRY Symmetry
SPECIFICATION Spec
PROPERTY NoDeskDropped
