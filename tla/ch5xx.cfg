SPECIFICATION Spec
CONSTANTS
  Chips = {"CH570", "CH58x"}
  PageSize = 2
  SectorSize = 4
  HalfSize = 8
  BankSize = 16
  FlashSize = 20
  Watched = {0, 1, 2, 3, 5, 8, 9}
  Written = {1, 2, 9}
  Ranges <- MCRanges
  MaxPolls = 1
INVARIANTS
  TypeOK
  SettledWhileGood
  ReportedIsThere
PROPERTIES
  OnlyAsked
