SPECIFICATION Spec
CONSTANTS
  AddrSpace = 3
  FlashAddrs = {1}
  StatusAddrs = {2}
  ClockAddr = 0
  Unmapped = {}
  Words = {0}
  Kinds = {"V003"}
  ManualKinds = {}
  ClockedKinds = {}
  TwoWireKinds = {}
  Junk = Junk
  Glitches = {"none"}
  Uses = {}
INVARIANTS
  WriteReachesItsAddress
