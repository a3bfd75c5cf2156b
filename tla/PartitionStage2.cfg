\* What stage 2 sees of the table against what the scanner finds in it.
CONSTANTS
  Entries = 2
  LbaLimit = 8
  DeviceSectors = 8
  HealthFirst = 3
  HealthCount = 2
SPECIFICATION ScanSpec
INVARIANT PartitionedUsesFilesystem
CHECK_DEADLOCK FALSE
