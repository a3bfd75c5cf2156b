\* The window is cells 1 to 7, the staged image cells 5 to 7; pages of two.
CONSTANTS
  AddrLimit = 16
  ImageSize = 3
  Headers <- PlacedHeaders
  EntryPoints = {8, 10}
  MaxHeaders = 2
  Loaders = {"uefi"}
  VirtBase = 8
  PhysBase = 1
  PhysLimit = 8
  Stage = 5
  PageSize = 2
  MaxSpan = 6
  Frames = {2, 8}
CONSTANTS
  PoolPages = 48
  IdentityGib = 4
  MaxPages = 16384
  FirstPages = {0}
  PageCounts = {1}
SPECIFICATION Spec
INVARIANT PageTablesValid
CHECK_DEADLOCK FALSE
