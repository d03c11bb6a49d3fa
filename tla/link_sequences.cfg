SPECIFICATION Spec
CONSTANTS
  AddrSpace = 4
  FlashAddrs = {1}
  StatusAddrs = {2}
  ClockAddr = 0
  Unmapped = {3}
  Words = {0}
  Kinds = {"V003", "V10x"}
  ManualKinds = {"V10x"}
  ClockedKinds = {}
  TwoWireKinds = {"V10x"}
  Junk = Junk
  Glitches = {"none", "hartinfo", "wait", "data_lost", "data_late"}
  Uses = {}
INVARIANTS
  TypeOK
  TagTellsTheTruth
  CursorInStep
  ReadsWhatIsThere
  StatusIsFresh
  WritesWhereAsked
  RetriedReadIsRight
