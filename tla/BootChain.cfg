\* A reset clears RAM above 1 MiB.  The tick counter is small, with the midnight
\* restart and the wrap both inside a timeout's reach.  Two map entries fit, the
\* firmware may go on to three.
CONSTANTS
  TimeoutTicks = 3
  MidnightTick = 4
  TickModulus = 8
  RamRetained = FALSE
  MaxEntries = 2
  MaxReported = 3
  AddrLimit = 8
  Entries <- SmallEntries
  Modes <- VbeModes
  StageStart = 3
  StageEnd = 5
SPECIFICATION FairSpec
INVARIANTS TypeOK FilesystemBootLoadsFile BootInfoOfThisBoot
  StagedInMemory FlatEntryLoaded
PROPERTIES MenuEnds
