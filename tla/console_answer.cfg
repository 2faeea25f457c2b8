CONSTANTS
  here = here
  there = there
  Top = 2
  Minutes = 1
  Place = {here}
  Key = {"1", "2", "3", "6", "y", "x", "Enter"}
  MaxTyped = 2
  NoKey = NoKey
SPECIFICATION Spec
INVARIANT AnswersAreTyped
