CONSTANTS
  here = here
  there = there
  Top = 2
  Minutes = 1
  Place = {here, there}
  Key = {"1", "2", "3", "6", "y", "all", "back", "Enter"}
  MaxTyped = 2
  NoKey = NoKey
SPECIFICATION Spec
INVARIANT ConsoleTypeOK
INVARIANT CommandsAreFresh
PROPERTY NothingUnasked
PROPERTY TimeUpIsTold
