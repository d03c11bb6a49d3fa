SPECIFICATION Spec
CONSTANTS
  PageSize = 2
  Pages = 2
  Base = 16
  Byte = 16
  Images <- MCImages
  Erased = Erased
  Torn = Torn
  MaxTries = 1
  MaxPolls = 1
  MaxRetry = 2
  MaxLosses = 1
INVARIANTS
  TypeOK
  PointerInStep
  ReportedIsStored
  ReadIsRight
  AnswersAreTrue
PROPERTIES
  OnlyAskedPage
  EveryCommandAnswers
