CONSTANTS
  StubOrder <- Order
  LevelOf <- Levels
  Families = {"py", "rb", "java", "js", "line"}
  Imports <- NeedsImport
  TopLevel = 3
  Idioms <- UserIdioms
  Answers <- UserAnswers
  MaxEdits = 2
  NoFile = NoFile
SPECIFICATION Spec
INVARIANT WorkFileTypeOK
INVARIANT ShowsOnlyUnlocked
PROPERTY KeepsTheClass
PROPERTY OpensEveryMethod
PROPERTY Settles
