CONSTANTS
  StubOrder <- Order
  LevelOf <- Levels
  Families = {"java", "block"}
  Imports <- NeedsImport
  TopLevel = 3
  Idioms <- QuotingIdioms
  Answers <- UserAnswers
  MaxEdits = 1
  NoFile = NoFile
SPECIFICATION Spec
PROPERTY KeepsTheClass
