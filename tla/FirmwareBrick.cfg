\* The claim of the plan, against a caller that may stage again at any time.
CONSTANTS
  SlotCount = 2
  Chunks = 2
  MaxGeneration = 2
  MaxAttemptsArg = 0
  DefersStaging = FALSE
SPECIFICATION Spec
INVARIANTS CannotBrick
