\* A warm reset leaves RAM as it was.
CONSTANTS
  TimeoutTicks = 3
  MidnightTick = 4
  TickModulus = 8
  RamRetained = TRUE
  MaxEntries = 2
  MaxReported = 3
  AddrLimit = 8
  Entries <- SmallEntries
  Modes <- VbeModes
  StageStart = 3
  StageEnd = 5
SPECIFICATION Spec
INVARIANTS FilesystemBootLoadsFile
