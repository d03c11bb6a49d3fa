SPECIFICATION Spec
CONSTANTS
  Builds = {"old", "new", "quiet"}
  Ticking = {"old", "new"}
  Decoms = {"old", "quiet"}
  Chunks = 3
  MaxTries = 1
  None = None
INVARIANTS
  TypeOK
  CurrentIsWhole
  CurrentIsUp
PROPERTIES
  UploadTakesEffect
