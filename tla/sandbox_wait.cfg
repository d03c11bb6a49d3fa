SPECIFICATION Spec
CONSTANTS
  Builds = {"old", "new"}
  Ticking = {"old", "new"}
  Decoms = {"old"}
  Chunks = 3
  MaxTries = 1
  None = None
INVARIANTS
  RunsWhatWasUploaded
