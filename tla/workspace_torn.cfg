CONSTANTS
  p1 = p1
  p2 = p2
  t1 = t1
  t2 = t2
  Proc = {p1}
  Lang = {python3, c}
  Tested = {python3}
  Top = 2
  Text = {t1}
  LinkWorks = {TRUE}
  MaxFaults = 1
  NoFile = NoFile
  Linked = Linked
  NoJob = NoJob
  NoDesk = NoDesk
SPECIFICATION Spec
PROPERTY RefreshRepairs
