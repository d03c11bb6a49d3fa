SPECIFICATION Spec
CONSTANTS
  Chips = {"V003", "X03x", "V20x"}
  PerSector = 2
  NumBlocks = 3
  Protected = {2}
  Wanted <- MCWanted
  Erased = Erased
  Mixed = Mixed
  Blank = Blank
  Unsure = Unsure
  MaxPolls = 1
INVARIANTS
  TypeOK
  UnlockedWhenUsed
PROPERTIES
  PromiseKept
  EveryCommandAnswers
