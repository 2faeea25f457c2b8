CONSTANTS
  p1 = p1
  p2 = p2
  p3 = p3
  Proc = {p1, p2, p3}
  NoLock = NoLock
  Dead = Dead
  Deadline = 1
  StaleAfter = 2
  MaxHold = 2
  MaxCrashes = 2
SPECIFICATION FairLockSpec
INVARIANT LockTypeOK
INVARIANT ExclusiveUntilCrash
PROPERTY OnlyMakerRemoves
PROPERTY WaitEnds
PROPERTY DeadLockGoes
