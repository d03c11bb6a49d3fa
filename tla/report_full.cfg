SPECIFICATION Spec
CONSTANTS
  Commands <- AllCommands
  Lengths = {0, 1, 4, 10}
  ReportLengths = {12, 26}
  CAP = 44
  PAGE = 4
  SLOT = 20
INVARIANTS
  ReplyFits
