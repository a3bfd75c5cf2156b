\* Partition table: two entries over a device of eight sectors with the health
\* sectors in the middle; every position and size around them, the ones that
\* reach past the end of the device included.
CONSTANTS
  Entries = 2
  LbaLimit = 8
  DeviceSectors = 8
  HealthFirst = 3
  HealthCount = 2
\* FAT32: every boot sector over 4-bit words and the bytes up to 4 on a partition
\* as large as a word allows; to be walked, three clusters, and six with the
\* numbers of the last two taken by the bad and end marks, paths of up to two
\* segments and files longer than a volume, so that the visited bound is met.
CONSTANTS
  WordLimit = 16
  ByteLimit = 5
  BadCluster = 6
  MinClusters = 3
  EntriesPerSector = 5
  MaxReserved = 2
  PartitionSectors = 15
  Images <- SmallImages
  Segments = {0, 1, 2}
  MaxSize = 5
\* Configuration: 4-bit numbers with the digits that meet the overflow test (15,
\* 16) and wrap to the only valid version (17); two-digit numbers and two-token
\* flag lists.
CONSTANTS
  UMax = 15
  MaxTimeout = 7
  Digits = {0, 1, 6, 7}
  MaxLength = 2
\* Block device: the code's own sizes; arguments on both sides of each limit.
CONSTANTS
  BounceSectors = 64
  BounceAddr = 393216
  SectorSize = 512
  LowMemory = 1048576
  SegmentBytes = 65536
  Lbas = {0, 2048}
  ReadCounts = {0, 1, 64, 65, 129}
  Counts = {0, 1, 127, 128}
  Buffers = {380928, 393216, 393231, 983552, 983553, 1048064, 1048065, 1048576}
\* Division: every pair of 5-bit words.
CONSTANTS
  Width = 5
  Weight <- PowersOfTwo
SPECIFICATION Spec
INVARIANTS
  LayoutCheckExact FindsBootPartition AddressesExact ReadsExactly ParsesExactly
  ReadDelivers ThunkSound DivisionExact
PROPERTY WalkEnds
CHECK_DEADLOCK FALSE
