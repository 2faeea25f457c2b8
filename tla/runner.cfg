CONSTANTS
  Suite <- ThreeCases
  Level = 2
  Text <- Texts
  Recipe <- Recipes
  Refused = Refused
  Broken = Broken
  MaxWrites = 1
  RunLimit = 1
  MaxRuns = 2
  NoCopy = NoCopy
  NoLoad = NoLoad
  NoText = NoText
  NoRecipe = NoRecipe
  NoReport = NoReport
SPECIFICATION FairSpec
INVARIANT RunnerTypeOK
INVARIANT LoadsAreCurrent
INVARIANT PassMeansSolved
INVARIANT NothingLeft
PROPERTY RunEnds
PROPERTY JudgedIfWhole
PROPERTY JudgesOneMoment
