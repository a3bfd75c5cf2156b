\* Three slots, a caller that waits for a pending update to be settled.
CONSTANTS
  SlotCount = 3
  Chunks = 2
  MaxGeneration = 2
  MaxAttemptsArg = 0
  DefersStaging = TRUE
SPECIFICATION FairSpec
INVARIANTS TypeOK ActiveBootable PendingVerified
PROPERTIES ActiveSlotUntouched NoSilentDowngrade ConfirmedWasBooted PendingResolved
