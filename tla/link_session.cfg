SPECIFICATION Spec
CONSTANTS
  AddrSpace = 2
  FlashAddrs = {}
  StatusAddrs = {1}
  ClockAddr = 0
  Unmapped = {}
  Words = {0}
  Kinds = {"CH59x"}
  ManualKinds = {}
  ClockedKinds = {"CH59x"}
  TwoWireKinds = {"CH59x"}
  Junk = Junk
  Glitches = {"none"}
  Uses = {"session", "raw", "CH5xx", "terminal", "power", "override"}
CONSTRAINT NothingStrayed
ACTION_CONSTRAINTS
  NotPastRawAccess
  NotPastLostLink
INVARIANTS
  TagTellsTheTruth
  BytesAlwaysRight
PROPERTIES
  NoStrayProgram
