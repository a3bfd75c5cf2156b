\* The window is cells 1 to 7, the staged image cells 5 to 7; pages of two.
CONSTANTS
  AddrLimit = 16
  ImageSize = 3
  Headers <- PlacedHeaders
  EntryPoints = {8, 10}
  MaxHeaders = 2
  Loaders = {"bios", "uefi"}
  VirtBase = 8
  PhysBase = 1
  PhysLimit = 8
  Stage = 5
  PageSize = 2
  MaxSpan = 6
  Frames = {2, 8}
\* Page tables: the largest kernel across the 1 GiB boundary, off a 2 MiB boundary
\* by one page either way, at both ends of the address space, and small ones.
CONSTANTS
  PoolPages = 48
  IdentityGib = 4
  MaxPages = 16384
  FirstPages = {0, 511, 253952, 253953, 262143, 507904}
  PageCounts = {1, 512, 513, 16384}
SPECIFICATION Spec
INVARIANTS ValidatesExactly LoadedAsFiled WritesConfined PoolSuffices
CHECK_DEADLOCK FALSE
