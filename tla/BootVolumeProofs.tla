-------------------------- MODULE BootVolumeProofs --------------------------
(***************************************************************************)
(* What the loader's way to its boot volume guarantees for every disk: the *)
(* partition scan (Partition), the mounted volume's addresses and chains   *)
(* (Fat32Volume, Fat32), the block-device thunk (BlockIO), the parser of   *)
(* BOOT.CFG (BootConfig) and 64-bit division (Runtime32).                  *)
(***************************************************************************)
EXTENDS Partition, Fat32, BlockIO, BootConfig, Runtime32, FiniteSetTheorems, SequenceTheorems,
        TLAPS

-----------------------------------------------------------------------------
(* Arithmetic. *)

LEMMA DivMod ==
  ASSUME NEW a \in Int, NEW n \in Nat \ {0}
  PROVE  /\ a \div n \in Int /\ a % n \in 0 .. n - 1
         /\ n * (a \div n) \in Int
         /\ a = n * (a \div n) + (a % n)
BY SMT

LEMMA DivModUnique ==
  ASSUME NEW a \in Int, NEW n \in Nat \ {0}, NEW q \in Int, NEW r \in 0 .. n - 1, a = n * q + r
  PROVE  a \div n = q /\ a % n = r
BY SMT

\* A multiple of n below another is at least n below it.
LEMMA MultipleBelow ==
  ASSUME NEW a \in Nat, NEW m \in Nat, NEW n \in Nat, a + 1 <= m
  PROVE  a * n \in Nat /\ a * n + n <= m * n
<1> DEFINE d == m - (a + 1)
<1>1. d \in Nat /\ m = a + 1 + d
  OBVIOUS
<1>2. d * n \in Nat /\ a * n \in Nat
  BY <1>1
<1>3. m * n = a * n + n + d * n
  BY <1>1
<1>4. QED
  BY <1>2, <1>3

LEMMA QuotientBounds ==
  ASSUME NEW a \in Nat, NEW n \in Nat \ {0}
  PROVE  /\ a \div n \in Nat /\ (a \div n) * n <= a /\ a \div n <= a
         /\ a >= n => 0 < a \div n
<1> DEFINE q == a \div n
           r == a % n
<1>1. q \in Int /\ r \in 0 .. n - 1 /\ a = n * q + r
  BY DivMod
<1> HIDE DEF q, r
<1>2. n * q = q * n
  BY <1>1
<1>3. q >= 0
  <2>1. SUFFICES ASSUME q < 0
                 PROVE  FALSE
    BY <1>1
  <2>2. -q - 1 \in Nat /\ (-q - 1) * n \in Nat
    BY <1>1, <2>1
  <2>3. n * q = -((-q - 1) * n) - n
    BY <1>1
  <2>4. QED
    BY <1>1, <2>2, <2>3
<1>4. q <= q * n
  <2>1. q * (n - 1) \in Nat /\ q * n = q + q * (n - 1)
    BY <1>1, <1>3
  <2>2. QED
    BY <1>1, <2>1
<1>5. q = 0 => q * n = 0
  OBVIOUS
<1>6. QED
  BY <1>1, <1>2, <1>3, <1>4, <1>5 DEF q

-----------------------------------------------------------------------------
(* The partition scan. *)

\* The entries the loop has passed, when it has met no active one: all it
\* remembers is the first in use.
NoneActive ==
  /\ \A k \in 1..Entries : k < entry => Unused(mbr[k]) \/ mbr[k].status # "active"
  /\ fallback # 0 => fallback < entry
  /\ \A k \in 1..Entries : k < entry /\ (fallback = 0 \/ k < fallback) => Unused(mbr[k])

\* The loop has left at the first active entry in use.
ActiveTaken ==
  /\ entry = Entries + 1
  /\ fallback # 0
  /\ mbr[fallback].status = "active"
  /\ \A k \in 1..Entries : k < fallback => Unused(mbr[k]) \/ mbr[k].status # "active"

\* What the loop remembers can be booted.
FallbackUsable ==
  fallback # 0 => /\ ~Unused(mbr[fallback])
                  /\ RangeValid(mbr[fallback].first, mbr[fallback].count)

ScanTypeOK ==
  /\ mbr \in [1..Entries -> MbrEntries]
  /\ entry \in 1..Entries + 1
  /\ fallback \in 0..Entries

\* The inductive invariant of josh_partition_find_boot and the layout check.
ScanInv ==
  /\ ScanTypeOK
  /\ FallbackUsable
  /\ scan = "open" => entry = 1 /\ fallback = 0
  /\ scan = "scan" => NoneActive \/ ActiveTaken
  /\ scan = "gpt_entries" => usable \in GptWord \X GptWord /\ HeaderRange(usable[1], usable[2])
  /\ find_status # "none" => scan \in {"found", "checked"}
  /\ FindsBootPartition
  /\ free => RangeUnallocated

\* An entry of the table has a status, and its sectors are numbers.
LEMMA EntryType ==
  ASSUME NEW e \in MbrEntries
  PROVE  e.first \in Nat /\ e.count \in Nat
BY PartitionAssumption DEF MbrEntries, Word

\* A range that RangeValid accepts is made of the device's sectors.
LEMMA RangeOnDevice ==
  ASSUME NEW f \in Nat, NEW n \in Nat, RangeValid(f, n)
  PROVE  n > 0 /\ SectorSet(f, n) \subseteq 0 .. DeviceSectors - 1
BY PartitionAssumption DEF RangeValid, SectorSet

\* The same, the other way round.
LEMMA OnDeviceRange ==
  ASSUME NEW f \in Nat, NEW n \in Nat \ {0},
         SectorSet(f, n) \subseteq 0 .. DeviceSectors - 1
  PROVE  RangeValid(f, n)
<1>1. f \in SectorSet(f, n) /\ f + n - 1 \in SectorSet(f, n)
  BY DEF SectorSet
<1>2. QED
  BY <1>1, PartitionAssumption DEF RangeValid

\* ranges_overlap says whether two ranges of sectors meet.
LEMMA OverlapExact ==
  ASSUME NEW a \in Nat, NEW m \in Nat, NEW b \in Nat, NEW n \in Nat
  PROVE  Overlap(a, m, b, n) <=> SectorSet(a, m) \cap SectorSet(b, n) # {}
<1>1. ASSUME Overlap(a, m, b, n)
      PROVE  SectorSet(a, m) \cap SectorSet(b, n) # {}
  <2>1. (IF a < b THEN b ELSE a) \in SectorSet(a, m) \cap SectorSet(b, n)
    BY <1>1 DEF Overlap, SectorSet
  <2>2. QED
    BY <2>1
<1>2. ASSUME NEW s \in SectorSet(a, m) \cap SectorSet(b, n)
      PROVE  Overlap(a, m, b, n)
  BY <1>2 DEF Overlap, SectorSet
<1>3. QED
  BY <1>1, <1>2

LEMMA ScanInitInv ==
  ScanInit => ScanInv
<1>1. QED
  BY PartitionAssumption DEF ScanInit, ScanStart, ScanInv, ScanTypeOK, FallbackUsable,
     FindsBootPartition, PartitionOnDevice, BootsActive, NoPartition

\* Steps that end the search without a partition.
LEMMA FindFails ==
  ASSUME ScanInv, NEW s, s # "ok", s # "none", Found(s, NoPartition),
         UNCHANGED <<mbr, signature, entry, fallback, usable, free>>
  PROVE  ScanInv'
BY DEF ScanInv, Found, ScanTypeOK, FallbackUsable, FindsBootPartition, PartitionOnDevice,
       BootsActive, RangeUnallocated

\* The search has not returned before it does.
LEMMA NotReturned ==
  ASSUME ScanInv, scan \notin {"found", "checked"}
  PROVE  find_status = "none"
BY DEF ScanInv

LEMMA ReadMbrInv ==
  ASSUME ScanInv, ReadMbr
  PROVE  ScanInv'
<1>1. NoneActive'
  BY PartitionAssumption DEF ReadMbr, ScanInv, NoneActive
<1>2. QED
  BY <1>1, NotReturned DEF ReadMbr, ScanInv, ScanTypeOK, FallbackUsable,
     FindsBootPartition, PartitionOnDevice, BootsActive, RangeUnallocated

LEMMA ScanSkipsInv ==
  ASSUME ScanInv, ScanSkips
  PROVE  ScanInv'
<1>1. entry' \in 1..Entries + 1
  BY PartitionAssumption DEF ScanSkips, ScanInv, ScanTypeOK
<1>2. NoneActive
  BY PartitionAssumption DEF ScanSkips, ScanInv, ScanTypeOK, ActiveTaken
<1>3. NoneActive'
  BY <1>2, PartitionAssumption DEF ScanSkips, ScanInv, ScanTypeOK, NoneActive
<1>4. QED
  BY <1>1, <1>3, NotReturned DEF ScanSkips, ScanInv, ScanTypeOK, FallbackUsable,
     FindsBootPartition, PartitionOnDevice, BootsActive, RangeUnallocated

LEMMA ScanTakesInv ==
  ASSUME ScanInv, ScanTakes
  PROVE  ScanInv'
<1>1. entry' \in 1..Entries + 1 /\ fallback' \in 0..Entries /\ entry \in 1..Entries
  BY PartitionAssumption DEF ScanTakes, ScanInv, ScanTypeOK
<1>2. NoneActive
  BY PartitionAssumption DEF ScanTakes, ScanInv, ScanTypeOK, ActiveTaken
<1>3. FallbackUsable'
  BY <1>1 DEF ScanTakes, ScanInv, FallbackUsable, EntryCorrupt, RangeValid, Unused
<1>4. ASSUME mbr[entry].status = "active" PROVE ActiveTaken'
  BY <1>1, <1>2, <1>4, PartitionAssumption DEF ScanTakes, ActiveTaken, NoneActive, Preferred
<1>5. ASSUME mbr[entry].status # "active" PROVE NoneActive'
  BY <1>1, <1>2, <1>5, PartitionAssumption
     DEF ScanTakes, ScanInv, ScanTypeOK, NoneActive, Preferred
<1>6. QED
  BY <1>1, <1>3, <1>4, <1>5, NotReturned DEF ScanTakes, ScanInv, ScanTypeOK,
     FindsBootPartition, PartitionOnDevice, BootsActive, RangeUnallocated

LEMMA ScanEndsInv ==
  ASSUME ScanInv, ScanEnds
  PROVE  ScanInv'
<1>1. CASE fallback = 0
  BY <1>1, FindFails DEF ScanEnds
<1>2. ASSUME fallback # 0
      PROVE  ScanInv'
  <2> DEFINE e == mbr[fallback]
             candidates == {j \in 1..Entries : ~Unused(mbr[j])}
             active == {j \in candidates : mbr[j].status = "active"}
             pool == IF active = {} THEN candidates ELSE active
  <2>1. fallback \in 1..Entries /\ e \in MbrEntries
    BY <1>2, PartitionAssumption DEF ScanInv, ScanTypeOK
  <2>2. ~Unused(e) /\ RangeValid(e.first, e.count)
    BY <1>2 DEF ScanInv, FallbackUsable
  <2>3. /\ find_status' = "ok"
        /\ partition' = [first |-> e.first, count |-> e.count, gpt |-> FALSE, type |-> e.type]
    BY <1>2 DEF ScanEnds, Found
  <2>4. PartitionOnDevice'
    BY <2>1, <2>2, <2>3, EntryType, RangeOnDevice DEF PartitionOnDevice, SectorSet, ScanEnds
  <2>5. fallback \in candidates
    BY <2>1, <2>2
  <2>6. fallback \in pool /\ \A k \in pool : fallback <= k
    <3>1. CASE NoneActive
      <4>1. active = {}
        BY <3>1, PartitionAssumption DEF NoneActive, ScanEnds, ScanInv, ScanTypeOK
      <4>2. \A k \in candidates : fallback <= k
        BY <3>1, <1>2, PartitionAssumption DEF NoneActive, ScanEnds, ScanInv, ScanTypeOK
      <4>3. QED
        BY <4>1, <4>2, <2>5
    <3>2. CASE ActiveTaken
      <4>1. fallback \in active
        BY <3>2, <2>5 DEF ActiveTaken
      <4>2. \A k \in active : fallback <= k
        BY <3>2, PartitionAssumption DEF ActiveTaken, ScanInv, ScanTypeOK
      <4>3. QED
        BY <4>1, <4>2
    <3>3. QED
      BY <3>1, <3>2 DEF ScanEnds, ScanInv
  <2>7. BootsActive'
    <3>1. mbr' = mbr
      BY DEF ScanEnds
    <3> HIDE DEF pool
    <3>2. \E j \in pool : /\ \A k \in pool : j <= k
                          /\ partition'.first = mbr[j].first
                          /\ partition'.count = mbr[j].count
                          /\ partition'.type = mbr[j].type
      BY <2>3, <2>6
    <3>3. QED
      BY <3>1, <3>2 DEF BootsActive, pool, Unused
  <2>8. QED
    BY <2>3, <2>4, <2>7 DEF ScanEnds, Found, ScanInv, ScanTypeOK, FallbackUsable,
       FindsBootPartition, RangeUnallocated
<1>3. QED
  BY <1>1, <1>2

LEMMA ScanGptInv ==
  ASSUME ScanInv, ScanGpt
  PROVE  ScanInv'
BY NotReturned DEF ScanGpt, ScanInv, ScanTypeOK, FallbackUsable, FindsBootPartition,
   PartitionOnDevice, BootsActive, RangeUnallocated

LEMMA GptHeaderInv ==
  ASSUME ScanInv, GptHeader
  PROVE  ScanInv'
BY NotReturned DEF GptHeader, ScanInv, ScanTypeOK, FallbackUsable, FindsBootPartition,
   PartitionOnDevice, BootsActive, RangeUnallocated

LEMMA GptEntryInv ==
  ASSUME ScanInv, GptEntry
  PROVE  ScanInv'
<1>1. CASE \E s \in {"io_error", "no_usable_partition", "corrupt"} : Found(s, NoPartition)
  BY <1>1, FindFails DEF GptEntry
<1>2. ASSUME NEW f \in GptWord, NEW l \in GptWord,
             ~(f > l \/ f < usable[1] \/ l > usable[2]),
             Found("ok", [first |-> f, count |-> l - f + 1, gpt |-> TRUE, type |-> "gpt"])
      PROVE  ScanInv'
  <2>1. RangeValid(f, l - f + 1) /\ f \in Nat /\ l - f + 1 \in Nat
    BY <1>2, PartitionAssumption DEF GptEntry, ScanInv, HeaderRange, GptWord, RangeValid
  <2>2. PartitionOnDevice'
    BY <1>2, <2>1, RangeOnDevice DEF PartitionOnDevice, SectorSet, Found
  <2>3. BootsActive'
    BY <1>2 DEF BootsActive, Found
  <2>4. QED
    BY <1>2, <2>2, <2>3 DEF GptEntry, Found, ScanInv, ScanTypeOK, FallbackUsable,
       FindsBootPartition, RangeUnallocated
<1>3. QED
  BY <1>1, <1>2 DEF GptEntry

LEMMA CheckLayoutInv ==
  ASSUME ScanInv, CheckLayout
  PROVE  ScanInv'
BY DEF CheckLayout, ScanInv, ScanTypeOK, FallbackUsable, FindsBootPartition,
   PartitionOnDevice, BootsActive, RangeUnallocated

LEMMA ScanInvariant ==
  ScanSpec => []ScanInv
<1>1. ASSUME ScanInv, [ScanNext]_scanVars
      PROVE  ScanInv'
  <2>1. CASE FindBootFails
    BY <1>1, <2>1, FindFails DEF FindBootFails
  <2>2. CASE ScanCorrupt
    BY <1>1, <2>2, FindFails DEF ScanCorrupt
  <2>3. CASE GptFails
    BY <1>1, <2>3, FindFails DEF GptFails
  <2>4. CASE UNCHANGED scanVars
    BY <1>1, <2>4 DEF scanVars, ScanInv, ScanTypeOK, FallbackUsable, NoneActive, ActiveTaken,
       FindsBootPartition, PartitionOnDevice, BootsActive, RangeUnallocated
  <2>5. QED
    BY <1>1, <2>1, <2>2, <2>3, <2>4, ReadMbrInv, ScanSkipsInv, ScanTakesInv, ScanEndsInv,
       ScanGptInv, GptHeaderInv, GptEntryInv, CheckLayoutInv DEF ScanNext
<1>2. QED
  BY <1>1, ScanInitInv, PTL DEF ScanSpec

\* josh_partition_find_boot, on every table, device size and sequence of read
\* failures: what it returns lies on the device to its last sector, and on an
\* MBR disk it is the first active entry in use or, without one, the first in
\* use.
THEOREM FindsTheBootPartition ==
  ScanSpec => []FindsBootPartition
<1>1. ScanInv => FindsBootPartition
  BY DEF ScanInv
<1>2. QED
  BY <1>1, ScanInvariant, PTL

\* What the layout check tests is what it means: the health sectors exist, are
\* not the MBR and nobody owns one of them.
LEMMA UnallocatedMeansFree ==
  ASSUME mbr \in [1..Entries -> MbrEntries]
  PROVE  RangeUnallocated <=> LayoutAccepted
<1> DEFINE Health == SectorSet(HealthFirst, HealthCount)
           Owned(j) == SectorSet(mbr[j].first, mbr[j].count)
<1>1. /\ HealthFirst \in Nat /\ HealthCount \in Nat \ {0}
      /\ \A j \in 1..Entries : mbr[j].first \in Nat /\ mbr[j].count \in Nat
  BY PartitionAssumption, EntryType
<1>2. RangeValid(HealthFirst, HealthCount) /\ ~Overlap(HealthFirst, HealthCount, 0, 1)
        <=> Health \subseteq 1 .. DeviceSectors - 1
  <2>1. Overlap(HealthFirst, HealthCount, 0, 1) <=> 0 \in Health
    BY <1>1 DEF Overlap, SectorSet
  <2>2. RangeValid(HealthFirst, HealthCount) <=> Health \subseteq 0 .. DeviceSectors - 1
    BY <1>1, RangeOnDevice, OnDeviceRange
  <2>3. Health \subseteq 1 .. DeviceSectors - 1
          <=> 0 \notin Health /\ Health \subseteq 0 .. DeviceSectors - 1
    BY PartitionAssumption
  <2>4. QED
    BY <2>1, <2>2, <2>3
<1>3. ASSUME NEW j \in 1..Entries, ~Unused(mbr[j])
      PROVE  /\ RangeValid(mbr[j].first, mbr[j].count) <=> Owned(j) \subseteq 0 .. DeviceSectors - 1
             /\ Overlap(HealthFirst, HealthCount, mbr[j].first, mbr[j].count)
                  <=> Health \cap Owned(j) # {}
  BY <1>1, <1>3, RangeOnDevice, OnDeviceRange, OverlapExact DEF Unused
<1>4. Health \cap Allocated = {}
        <=> \A j \in 1..Entries : ~Unused(mbr[j]) => Health \cap Owned(j) = {}
  BY DEF Allocated
<1> HIDE DEF Health, Owned
<1>5. QED
  BY <1>2, <1>3, <1>4 DEF RangeUnallocated, LayoutAccepted, Health, Owned

\* josh_partition_range_is_unallocated, on every table: the loader may write
\* the health sectors only where nobody owns them, and the check refuses no
\* other disk.
THEOREM LayoutCheckIsExact ==
  ScanSpec => []LayoutCheckExact
<1>1. ASSUME ScanInv
      PROVE  LayoutCheckExact
  <2>1. RangeUnallocated <=> LayoutAccepted
    BY <1>1, UnallocatedMeansFree DEF ScanInv, ScanTypeOK
  <2>2. FreeIsUsable
    BY <2>1 DEF FreeIsUsable
  <2>3. ASSUME free
        PROVE  /\ SectorSet(HealthFirst, HealthCount) \subseteq 1 .. DeviceSectors - 1
               /\ SectorSet(HealthFirst, HealthCount) \cap Allocated = {}
    BY <1>1, <2>1, <2>3 DEF ScanInv, LayoutAccepted
  <2>4. ASSUME free, NEW j \in 1..Entries, mbr[j].type = "gpt"
        PROVE  mbr[j].count = 0
    BY <1>1, <2>4 DEF ScanInv, RangeUnallocated, Unused
  <2>5. QED
    BY <2>2, <2>3, <2>4 DEF LayoutCheckExact, HealthSectorsFree
<1>2. QED
  BY <1>1, ScanInvariant, PTL

-----------------------------------------------------------------------------
(* The mounted volume. *)

\* The invariant: what mount returned is what it computes from the boot sector.
VolumeInv ==
  /\ bpb \in Bpbs
  /\ status = "ok" => MountStatus(bpb) = "ok" /\ volume = Volume(bpb)

\* All that the addresses need of a cluster size.
LEMMA ClusterSizeNat ==
  ASSUME NEW n \in ClusterSizes
  PROVE  n \in Nat \ {0}
<1>1. n \in Bytes \ {0}
  BY DEF ClusterSizes
<1>2. QED
  BY <1>1, Fat32VolumeAssumption DEF Bytes

\* What josh_fat32_mount's checks establish together.
LEMMA MountAccepts ==
  ASSUME NEW b \in Bpbs, MountStatus(b) = "ok"
  PROVE  /\ b.sectors_per_cluster \in ClusterSizes
         /\ b.reserved \in Nat \ {0}
         /\ b.fat_count \in {1, 2}
         /\ b.fat32 \in Nat \ {0}
         /\ b.total \in Words /\ b.total <= PartitionSectors
         /\ DataStart(b) < b.total
         /\ b.root_cluster \in Words
         /\ b.root_cluster >= 2 /\ b.root_cluster < (Clusters(b) + 2) % WordLimit
<1>1. /\ b.reserved \in Nat
      /\ b.total \in Words /\ b.fat32 \in Words /\ b.root_cluster \in Words
  BY Fat32VolumeAssumption DEF Bpbs
<1>2. /\ b.sectors_per_cluster \in ClusterSizes /\ ~NotFat32(b) /\ ~TotalCorrupt(b)
      /\ ~(b.reserved + FatArea(b) >= b.total)
      /\ ~(b.root_cluster < 2 \/ b.root_cluster >= (Clusters(b) + 2) % WordLimit)
  BY DEF MountStatus
<1>3. b.fat_count \in {1, 2} /\ b.reserved # 0 /\ b.fat32 # 0
  BY <1>2 DEF NotFat32
<1>4. FatArea(b) \in Nat
  BY <1>1, <1>3, Fat32VolumeAssumption DEF FatArea, Words
<1>5. (Clusters(b) + 2) % WordLimit \in Int
  <2>1. Clusters(b) \in Int
    BY <1>1, <1>2, <1>4, ClusterSizeNat, Fat32VolumeAssumption DEF Clusters, Words
  <2>2. QED
    BY <2>1, Fat32VolumeAssumption
<1>6. QED
  BY <1>1, <1>2, <1>3, <1>4, <1>5, Fat32VolumeAssumption
     DEF TotalCorrupt, DataStart, FatArea, Words

\* The data area of an accepted volume, in whole clusters: it ends before the
\* volume does, and its cluster numbers fit a word.
LEMMA DataArea ==
  ASSUME NEW b \in Bpbs, MountStatus(b) = "ok"
  PROVE  /\ DataStart(b) \in Nat
         /\ Capacity(b) \in Nat /\ Clusters(b) = Capacity(b)
         /\ DataStart(b) + Capacity(b) * b.sectors_per_cluster <= b.total
         /\ Capacity(b) + 2 < WordLimit
<1> DEFINE room == b.total - DataStart(b)
<1>1. DataStart(b) \in Nat /\ DataStart(b) >= 2 /\ FatArea(b) \in Nat
      /\ DataStart(b) = b.reserved + FatArea(b)
  BY MountAccepts DEF DataStart, FatArea
<1>2. room \in Nat /\ room + 3 <= WordLimit /\ room = b.total - b.reserved - FatArea(b)
  BY <1>1, MountAccepts, Fat32VolumeAssumption DEF Words
<1>3. Clusters(b) = Capacity(b) /\ Capacity(b) = room \div b.sectors_per_cluster
  BY <1>2 DEF Clusters, Capacity
<1> HIDE DEF room
<1>4. /\ Capacity(b) \in Nat /\ Capacity(b) <= room
      /\ Capacity(b) * b.sectors_per_cluster <= room
  <2>1. b.sectors_per_cluster \in Nat \ {0}
    BY MountAccepts, ClusterSizeNat
  <2>2. QED
    BY <1>2, <1>3, <2>1, QuotientBounds
<1>5. Capacity(b) * b.sectors_per_cluster \in Nat
  BY <1>4, MountAccepts, ClusterSizeNat
<1>6. QED
  BY <1>1, <1>2, <1>3, <1>4, <1>5, MountAccepts, Fat32VolumeAssumption DEF room, Words

\* The fields of the mounted volume hold what was computed, and cluster_valid
\* admits the clusters of the data area.
LEMMA VolumeFields ==
  ASSUME NEW b \in Bpbs, MountStatus(b) = "ok"
  PROVE  /\ Volume(b).total = b.total
         /\ Volume(b).fat_lba = b.reserved
         /\ Volume(b).data_lba = DataStart(b)
         /\ Volume(b).sectors_per_fat = b.fat32
         /\ Volume(b).cluster_count = Capacity(b)
         /\ Volume(b).root_cluster = b.root_cluster
         /\ Volume(b).sectors_per_cluster = b.sectors_per_cluster
         /\ \A c \in Words : ClusterValid(Volume(b), c) <=> c \in 2 .. Capacity(b) + 1
<1>1. DataStart(b) % WordLimit = DataStart(b)
  BY DataArea, MountAccepts, Fat32VolumeAssumption DEF Words
<1>2. Capacity(b) % WordLimit = Capacity(b) /\ (Capacity(b) + 2) % WordLimit = Capacity(b) + 2
  BY DataArea, Fat32VolumeAssumption
<1>3. /\ Volume(b).data_lba = DataStart(b)
      /\ Volume(b).cluster_count = Capacity(b)
  BY <1>1, <1>2, DataArea DEF Volume, DataStart, FatArea
<1>4. \A c \in Words : ClusterValid(Volume(b), c) <=> c \in 2 .. Capacity(b) + 1
  BY <1>2, <1>3, DataArea, Fat32VolumeAssumption DEF ClusterValid, Words
<1>5. QED
  BY <1>3, <1>4 DEF Volume

\* A valid cluster's sectors lie behind the FATs and before the end.
LEMMA ClusterOnVolume ==
  ASSUME NEW b \in Bpbs, MountStatus(b) = "ok", NEW c \in 2 .. Capacity(b) + 1
  PROVE  /\ ClusterLba(Volume(b), c) \in Nat
         /\ DataStart(b) <= ClusterLba(Volume(b), c)
         /\ ClusterLba(Volume(b), c) + b.sectors_per_cluster <= b.total
<1>1. ClusterLba(Volume(b), c) = DataStart(b) + (c - 2) * b.sectors_per_cluster
  BY VolumeFields DEF ClusterLba
<1> DEFINE n == b.sectors_per_cluster
           m == Capacity(b)
<1>2. /\ DataStart(b) \in Nat /\ m \in Nat /\ n \in Nat \ {0} /\ b.total \in Int
      /\ DataStart(b) + m * n <= b.total
  BY DataArea, MountAccepts, ClusterSizeNat DEF Words
<1>3. c - 2 \in Nat /\ (c - 2) + 1 <= m
  BY <1>2
<1> HIDE DEF n, m
<1>4. (c - 2) * n \in Nat /\ (c - 2) * n + n <= m * n
  BY <1>2, <1>3, MultipleBelow
<1>5. m * n \in Nat
  BY <1>2
<1>6. QED
  BY <1>1, <1>2, <1>4, <1>5 DEF n

LEMMA VolumeInvariant ==
  VolumeSpec => []VolumeInv
<1>1. VolumeInit => VolumeInv
  BY DEF VolumeInit, VolumeStart, VolumeInv
<1>2. ASSUME VolumeInv, [VolumeNext]_volumeVars
      PROVE  VolumeInv'
  BY <1>2 DEF VolumeInv, VolumeNext, Mount, MountUnreadable, volumeVars
<1>3. QED
  BY <1>1, <1>2, PTL DEF VolumeSpec

\* Whatever boot sector josh_fat32_mount accepts, on words of any width: the
\* clusters it admits are those of the data area, and every sector address
\* computed from them lies where it should.  No sum wraps.
THEOREM MountedAddressesExact ==
  VolumeSpec => []AddressesExact
<1>1. ASSUME VolumeInv, status = "ok"
      PROVE  AddressesExact
  <2>1. bpb \in Bpbs /\ MountStatus(bpb) = "ok" /\ volume = Volume(bpb)
    BY <1>1 DEF VolumeInv
  <2>2. 2 .. Capacity(bpb) + 1 \subseteq Words
    BY <2>1, DataArea, Fat32VolumeAssumption DEF Words
  <2>3. \A c \in Words : ClusterValid(volume, c) <=> c \in 2 .. Capacity(bpb) + 1
    BY <2>1, VolumeFields
  <2>4. ClusterValid(volume, volume.root_cluster)
    <3>1. volume.root_cluster = bpb.root_cluster /\ volume.cluster_count = Clusters(bpb)
      BY <2>1, VolumeFields, DataArea
    <3>2. QED
      BY <2>1, <3>1, MountAccepts DEF ClusterValid
  <2>5. ASSUME NEW c \in Words, ClusterValid(volume, c)
        PROVE  /\ ClusterReadable(volume, c)
               /\ ClusterSectors(volume, c) \subseteq DataStart(bpb) .. PartitionSectors - 1
               /\ InFat(volume, c) =>
                    FatLba(volume, c) \in bpb.reserved .. bpb.reserved + bpb.fat32 - 1
    <3> DEFINE lbaOf == ClusterLba(volume, c)
               spc == bpb.sectors_per_cluster
    <3>1. c \in 2 .. Capacity(bpb) + 1
      BY <2>3, <2>5
    <3>2. /\ lbaOf \in Nat /\ DataStart(bpb) <= lbaOf /\ lbaOf + spc <= bpb.total
          /\ volume.sectors_per_cluster = spc /\ volume.total = bpb.total
          /\ spc \in ClusterSizes /\ bpb.total \in Nat /\ bpb.total <= PartitionSectors
          /\ DataStart(bpb) \in Nat
      BY <2>1, <3>1, ClusterOnVolume, VolumeFields, MountAccepts, DataArea DEF Words
    <3> HIDE DEF lbaOf, spc
    <3>3. ClusterReadable(volume, c)
      BY <2>5, <3>2, ClusterSizeNat DEF ClusterReadable, lbaOf
    <3>4. ClusterSectors(volume, c) \subseteq DataStart(bpb) .. PartitionSectors - 1
      BY <3>2, ClusterSizeNat, Fat32VolumeAssumption DEF ClusterSectors, lbaOf
    <3>5. c \div EntriesPerSector \in Nat
      BY Fat32VolumeAssumption DEF Words
    <3>6. QED
      BY <2>1, <3>3, <3>4, <3>5, VolumeFields, MountAccepts DEF InFat, FatLba
  <2>6. ClusterNumbersExact
    BY <2>2, <2>3, <2>4 DEF ClusterNumbersExact
  <2>7. SectorsInVolume
    BY <2>5 DEF SectorsInVolume
  <2>8. QED
    BY <2>6, <2>7 DEF AddressesExact
<1>2. VolumeInv => AddressesExact
  BY <1>1 DEF AddressesExact, ClusterNumbersExact, SectorsInVolume
<1>3. QED
  BY <1>2, VolumeInvariant, PTL

-----------------------------------------------------------------------------
(* Chain walks on the mounted volume. *)

WalkTypeOK ==
  /\ bpb \in Bpbs
  /\ depth \in Nat /\ visited \in Nat
  /\ file.size \in 0..MaxSize
  /\ offset \in 0..MaxSize

\* The fields the walk counts with, once there is a volume.
MountedGeometry ==
  walk \notin {"mount", "done"} =>
    volume.cluster_count \in Nat /\ volume.sectors_per_cluster \in ClusterSizes

\* How far the counter of each loop can have come.
CountsBounded ==
  /\ walk \in {"directory", "directory_next"} => depth >= 1 /\ visited <= volume.cluster_count
  /\ walk = "skip" => visited < Skipped
  /\ walk = "read" => visited <= volume.cluster_count + 1 \/ visited <= MaxSize
  /\ walk = "read_next" => visited <= volume.cluster_count

WalkInv == WalkTypeOK /\ MountedGeometry /\ CountsBounded

\* The clusters passed over by a request inside the file.
LEMMA SkippedBounds ==
  ASSUME NEW o \in 0..MaxSize, NEW n \in ClusterSizes
  PROVE  /\ o \div n \in 0..MaxSize
         /\ o >= n => 0 < o \div n
<1>1. o \in Nat /\ n \in Nat \ {0}
  BY ClusterSizeNat, Fat32Assumption
<1>2. QED
  BY <1>1, QuotientBounds, Fat32Assumption

LEMMA WalkInitInv ==
  WalkInit => WalkInv
BY Fat32Assumption DEF WalkInit, WalkStart, VolumeStart, WalkInv, WalkTypeOK, MountedGeometry,
   CountsBounded, NoFile

LEMMA DoMountInv ==
  ASSUME WalkInv, DoMount
  PROVE  WalkInv'
<1>1. CASE status' # "ok"
  BY <1>1 DEF DoMount, Ends, Mount, MountUnreadable, WalkInv, WalkTypeOK, MountedGeometry,
     CountsBounded
<1>2. CASE status' = "ok"
  <2>1. MountStatus(bpb) = "ok" /\ volume' = Volume(bpb) /\ bpb' = bpb /\ bpb \in Bpbs
    BY <1>2 DEF DoMount, Mount, MountUnreadable, WalkInv, WalkTypeOK
  <2>2. volume'.cluster_count \in Nat /\ volume'.sectors_per_cluster \in ClusterSizes
    BY <2>1, VolumeFields, DataArea, MountAccepts
  <2>3. /\ walk' = IF depth = 0 THEN "opened" ELSE "directory"
        /\ visited' = 0 /\ depth' = depth /\ offset' = offset /\ file'.size = 0
    BY <1>2 DEF DoMount, Enter
  <2>4. QED
    BY <2>1, <2>2, <2>3, Fat32Assumption DEF WalkInv, WalkTypeOK, MountedGeometry, CountsBounded
<1>3. QED
  BY <1>1, <1>2

\* Steps that end the walk where it is.
LEMMA WalkStops ==
  ASSUME WalkInv, walk' = "done", UNCHANGED <<volumeVars, walkVars>>
  PROVE  WalkInv'
BY DEF WalkInv, WalkTypeOK, MountedGeometry, CountsBounded, volumeVars, walkVars

LEMMA MatchInv ==
  ASSUME WalkInv, NEW f \in Files, Match(f)
  PROVE  WalkInv'
<1>1. f.size \in 0..MaxSize
  BY DEF Files
<1>2. QED
  BY <1>1 DEF Match, Ends, Enter, WalkInv, WalkTypeOK, MountedGeometry, CountsBounded, volumeVars

LEMMA ReadFileInv ==
  ASSUME WalkInv, NEW o \in 0..MaxSize, NEW l, ReadFile(o, l)
  PROVE  WalkInv'
<1>1. /\ offset' = o /\ visited' = 0 /\ UNCHANGED <<volumeVars, depth, file>>
      /\ walk = "opened"
      /\ walk' \in {"done", "read"} \/ (walk' = "skip" /\ o >= PerCluster)
  BY DEF ReadFile, Ends, Enter
<1>2. volume.cluster_count \in Nat /\ PerCluster \in ClusterSizes
  BY <1>1 DEF WalkInv, MountedGeometry, PerCluster
<1>3. walk' = "skip" => 0 < o \div PerCluster
  BY <1>1, <1>2, SkippedBounds
<1>4. Skipped' = o \div PerCluster
  BY <1>1 DEF Skipped, PerCluster, volumeVars
<1>5. QED
  BY <1>1, <1>2, <1>3, <1>4, Fat32Assumption
     DEF WalkInv, WalkTypeOK, MountedGeometry, CountsBounded, volumeVars, PerCluster

LEMMA SkipClusterInv ==
  ASSUME WalkInv, NEW v, SkipCluster(v)
  PROVE  WalkInv'
<1>1. /\ visited \in Nat /\ visited < Skipped /\ Skipped \in 0..MaxSize
  BY SkippedBounds DEF SkipCluster, WalkInv, WalkTypeOK, MountedGeometry, CountsBounded, Skipped,
     PerCluster
<1>2. Skipped' = Skipped
  BY DEF SkipCluster, Skipped, PerCluster, volumeVars
<1>3. QED
  BY <1>1, <1>2, Fat32Assumption DEF SkipCluster, Ends, WalkInv, WalkTypeOK, MountedGeometry,
     CountsBounded, volumeVars

LEMMA WalkNextInv ==
  ASSUME WalkInv, [WalkNext]_fatVars
  PROVE  WalkInv'
<1>1. CASE ReadFault \/ BadSegment \/ DirectoryLeavesVolume \/ EndOfDirectory \/ BeyondFat
           \/ SkipFault \/ ReadTooLong
  BY <1>1, WalkStops DEF ReadFault, BadSegment, DirectoryLeavesVolume, EndOfDirectory, BeyondFat,
     SkipFault, ReadTooLong, Fails, Ends
<1>2. CASE NoMatch
  BY <1>2 DEF NoMatch, WalkInv, WalkTypeOK, MountedGeometry, CountsBounded, volumeVars, walkVars
<1>3. ASSUME NEW v \in FatValues, DirectoryNext(v)
      PROVE  WalkInv'
  BY <1>3 DEF DirectoryNext, Ends, Visited, WalkInv, WalkTypeOK, MountedGeometry, CountsBounded,
     volumeVars
<1>4. CASE ReadCluster
  BY <1>4 DEF ReadCluster, Ends, TooLong, WalkInv, WalkTypeOK, MountedGeometry, CountsBounded,
     volumeVars
<1>5. ASSUME NEW v \in FatValues, ReadNext(v)
      PROVE  WalkInv'
  BY <1>5 DEF ReadNext, Ends, WalkInv, WalkTypeOK, MountedGeometry, CountsBounded, volumeVars
<1>6. CASE UNCHANGED fatVars
  BY <1>6 DEF fatVars, walkVars, volumeVars, WalkInv, WalkTypeOK, MountedGeometry, CountsBounded,
     Skipped, PerCluster
<1>7. QED
  BY <1>1, <1>2, <1>3, <1>4, <1>5, <1>6, DoMountInv, MatchInv, ReadFileInv, SkipClusterInv
     DEF WalkNext, Lookups, Reads

\* The two parts of the bound, for one directory and for reading the file.
PerDirectory == 2 * (volume.cluster_count + 2)
ForReading   == 2 * (volume.cluster_count + MaxSize + 3)

\* The bound in each place of the walk.
LEMMA StepsLeftIs ==
  /\ walk = "directory" => StepsLeft = ForReading + 1 + depth * PerDirectory - 2 * visited
  /\ walk = "directory_next" => StepsLeft = ForReading + depth * PerDirectory - 2 * visited
  /\ walk = "opened" => StepsLeft = ForReading
  /\ walk = "skip" => StepsLeft = ForReading - 1 - 2 * visited
  /\ walk = "read" => StepsLeft = ForReading - 1 - 2 * visited
  /\ walk = "read_next" => StepsLeft = ForReading - 2 - 2 * visited
  /\ walk = "done" => StepsLeft = 0
BY DEF StepsLeft, ForReading, PerDirectory

\* While the walk goes on the bound is positive.
LEMMA StepsLeftPositive ==
  ASSUME WalkInv, walk \in {"directory", "directory_next", "opened", "skip", "read", "read_next"}
  PROVE  StepsLeft \in Nat \ {0}
<1>1. /\ volume.cluster_count \in Nat /\ depth \in Nat /\ visited \in Nat /\ MaxSize \in Nat
      /\ PerDirectory \in Nat /\ ForReading \in Nat
  BY Fat32Assumption DEF WalkInv, WalkTypeOK, MountedGeometry, PerDirectory, ForReading
<1>2. CASE walk \in {"directory", "directory_next"}
  <2>1. depth >= 1 /\ visited <= volume.cluster_count
    BY <1>2 DEF WalkInv, CountsBounded
  <2>2. depth * PerDirectory \in Nat
    BY <1>1
  <2>3. 2 * visited < ForReading
    BY <1>1, <2>1 DEF ForReading
  <2>4. QED
    BY <1>1, <1>2, <2>2, <2>3, StepsLeftIs
<1>3. CASE walk \in {"opened", "skip", "read", "read_next"}
  <2>1. walk = "skip" => visited <= MaxSize
    BY <1>1, SkippedBounds DEF WalkInv, WalkTypeOK, MountedGeometry, CountsBounded, Skipped,
       PerCluster
  <2>2. QED
    BY <1>1, <1>3, <2>1, StepsLeftIs DEF WalkInv, CountsBounded, ForReading
<1>4. QED
  BY <1>2, <1>3

LEMMA StepsLeftPositiveNext ==
  (WalkInv /\ walk \in {"directory", "directory_next", "opened", "skip", "read", "read_next"}
     => StepsLeft \in Nat \ {0})'
<1>1. WalkInv /\ walk \in {"directory", "directory_next", "opened", "skip", "read", "read_next"}
        => StepsLeft \in Nat \ {0}
  BY StepsLeftPositive
<1>2. QED
  BY <1>1, PTL

LEMMA StopsCount ==
  ASSUME WalkInv, walk' = "done",
         walk \in {"directory", "directory_next", "opened", "skip", "read", "read_next"}
  PROVE  StepsLeft' < StepsLeft /\ StepsLeft' >= 0
<1>1. StepsLeft' = 0
  BY DEF StepsLeft
<1>2. QED
  BY <1>1, StepsLeftPositive

LEMMA MatchCounts ==
  ASSUME WalkInv, WalkInv', NEW f, Match(f)
  PROVE  StepsLeft' < StepsLeft /\ StepsLeft' >= 0
<1>1. walk = "directory" /\ volume' = volume
  BY DEF Match, volumeVars
<1>2. /\ volume.cluster_count \in Nat /\ depth \in Nat /\ visited \in Nat /\ MaxSize \in Nat
      /\ PerDirectory \in Nat /\ ForReading \in Nat /\ 2 * visited < PerDirectory /\ depth >= 1
      /\ PerDirectory' = PerDirectory /\ ForReading' = ForReading
  BY <1>1, Fat32Assumption
     DEF WalkInv, WalkTypeOK, MountedGeometry, CountsBounded, PerDirectory, ForReading
<1>3. /\ depth * PerDirectory >= PerDirectory
      /\ (depth - 1) * PerDirectory = depth * PerDirectory - PerDirectory
      /\ depth * PerDirectory \in Nat
  BY <1>2
<1>4. StepsLeft = ForReading + 1 + depth * PerDirectory - 2 * visited
  BY <1>1, StepsLeftIs
<1>5. CASE walk' = "done"
  BY <1>1, <1>5, StopsCount
<1>6. CASE walk' = "opened"
  <2>1. StepsLeft' = ForReading
    BY <1>2, <1>6 DEF StepsLeft, ForReading
  <2>2. QED
    BY <1>2, <1>3, <1>4, <2>1
<1>7. CASE walk' = "directory"
  <2>1. depth' = depth - 1 /\ visited' = 0
    BY <1>1, <1>7 DEF Match, Ends, Enter
  <2>2. StepsLeft' = ForReading + 1 + (depth - 1) * PerDirectory
    BY <1>2, <1>7, <2>1 DEF StepsLeft, ForReading, PerDirectory
  <2>3. QED
    BY <1>2, <1>3, <1>4, <2>2
<1>8. QED
  BY <1>5, <1>6, <1>7 DEF Match, Ends

\* One turn of a loop: the places before and after, and the counter.
LEMMA LoopCounts ==
  ASSUME WalkInv, WalkInv', UNCHANGED <<volume, depth>>,
         \/ walk = "directory" /\ walk' = "directory_next" /\ visited' = visited
         \/ walk = "directory_next" /\ walk' = "directory" /\ visited' = visited + 1
         \/ walk = "skip" /\ walk' \in {"skip", "read"} /\ visited' = visited + 1
         \/ walk = "read" /\ walk' = "read_next" /\ visited' = visited
         \/ walk = "read_next" /\ walk' = "read" /\ visited' = visited + 1
         \/ walk = "opened" /\ walk' \in {"skip", "read"} /\ visited' = 0
  PROVE  StepsLeft' < StepsLeft /\ StepsLeft' >= 0
<1>1. /\ volume.cluster_count \in Nat /\ depth \in Nat /\ visited \in Nat /\ MaxSize \in Nat
      /\ PerDirectory \in Nat /\ ForReading \in Nat
  BY Fat32Assumption DEF WalkInv, WalkTypeOK, MountedGeometry, PerDirectory, ForReading
<1>2. depth * PerDirectory \in Nat
  BY <1>1
<1>3. /\ walk' = "directory" => StepsLeft' = ForReading + 1 + depth * PerDirectory - 2 * visited'
      /\ walk' = "directory_next" => StepsLeft' = ForReading + depth * PerDirectory - 2 * visited'
      /\ walk' \in {"skip", "read"} => StepsLeft' = ForReading - 1 - 2 * visited'
      /\ walk' = "read_next" => StepsLeft' = ForReading - 2 - 2 * visited'
  BY DEF StepsLeft, ForReading, PerDirectory
<1>4. StepsLeft' < StepsLeft
  BY <1>1, <1>2, <1>3, StepsLeftIs
<1>5. (StepsLeft \in Nat \ {0})'
  BY StepsLeftPositiveNext
<1>6. QED
  BY <1>4, <1>5

\* josh_fat32_open_path and josh_fat32_read_file end on every FAT, cyclic or
\* corrupt, for every volume that mounts, every path length and file size: each
\* step of a walk brings the bound on their number down, and never below zero.
THEOREM WalksEnd ==
  WalkSpec => WalkEnds
<1> DEFINE CountsDown == walk # "mount" => StepsLeft' < StepsLeft /\ StepsLeft' >= 0
<1>1. ASSUME WalkInv, WalkInv', [WalkNext]_fatVars
      PROVE  [CountsDown]_<<walk, walkVars>>
  <2>1. CASE DoMount
    BY <2>1 DEF DoMount
  <2>2. CASE ReadFault \/ BadSegment \/ DirectoryLeavesVolume \/ EndOfDirectory \/ BeyondFat
             \/ SkipFault \/ ReadTooLong
    BY <1>1, <2>2, StopsCount DEF ReadFault, BadSegment, DirectoryLeavesVolume, EndOfDirectory,
       BeyondFat, SkipFault, ReadTooLong, Fails, Ends
  <2>3. CASE NoMatch
    BY <1>1, <2>3, LoopCounts DEF NoMatch, volumeVars, walkVars
  <2>4. ASSUME NEW f \in Files, Match(f)
        PROVE  CountsDown
    BY <1>1, <2>4, MatchCounts
  <2>5. ASSUME NEW v \in FatValues, DirectoryNext(v)
        PROVE  CountsDown
    BY <1>1, <2>5, LoopCounts, StopsCount DEF DirectoryNext, Visited, Ends, volumeVars
  <2>6. ASSUME NEW o \in 0..MaxSize, NEW l, ReadFile(o, l)
        PROVE  CountsDown
    <3>1. /\ walk = "opened" /\ walk' \in {"done", "skip", "read"} /\ visited' = 0
          /\ UNCHANGED <<volume, depth>>
      BY <2>6 DEF ReadFile, Ends, Enter, volumeVars
    <3>2. QED
      BY <1>1, <3>1, LoopCounts, StopsCount
  <2>7. ASSUME NEW v \in FatValues, SkipCluster(v) \/ ReadNext(v)
        PROVE  CountsDown
    BY <1>1, <2>7, LoopCounts, StopsCount DEF SkipCluster, ReadNext, Ends, volumeVars
  <2>8. CASE ReadCluster
    BY <1>1, <2>8, LoopCounts, StopsCount DEF ReadCluster, Ends, volumeVars
  <2>9. CASE UNCHANGED fatVars
    BY <2>9 DEF fatVars
  <2>10. QED
    BY <1>1, <2>1, <2>2, <2>3, <2>4, <2>5, <2>6, <2>7, <2>8, <2>9 DEF WalkNext, Lookups, Reads
<1>2. QED
  BY <1>1, WalkInitInv, WalkNextInv, PTL DEF WalkSpec, WalkEnds

-----------------------------------------------------------------------------
(* What the walks report. *)

\* Where the s-th sector of the request is, going by the clusters walked.
SectorAt(s) ==
  ClusterLba(volume, trail[((offset + s - 1) \div PerCluster) + 1])
    + ((offset + s - 1) % PerCluster)

TrailTypeOK ==
  /\ bpb \in Bpbs
  /\ walk = "mount" => status = "none"
  /\ walk \notin {"mount", "done"} => status = "ok"
  /\ status = "ok" => MountStatus(bpb) = "ok" /\ volume = Volume(bpb)
  /\ fat \in [Words -> Words \cup {Unread}]
  /\ trail \in Seq(Words)
  /\ status = "ok" => Len(trail) = visited + 1 /\ cluster = trail[visited + 1]
  /\ visited \in Nat /\ offset \in Nat /\ length \in Nat
  /\ file.size \in Nat /\ file.first \in Words
  /\ out \in Seq(Int)

\* Delivered so far: the request's first sectors, up to the end of the last
\* cluster read.
SectorsSoFar ==
  /\ walk \in {"mount", "directory", "directory_next", "opened", "skip"} => out = <<>>
  /\ walk \in {"skip", "read", "read_next"} =>
       trail[1] = file.first /\ Len(out) < length
  /\ walk = "skip" => visited < Skipped
  /\ walk \in {"read", "read_next"} => visited >= Skipped
  /\ walk = "read" => Len(out) = IF visited = Skipped THEN 0 ELSE PerCluster * visited - offset
  /\ walk = "read_next" => Len(out) = PerCluster * (visited + 1) - offset
  /\ walk \in {"read", "read_next"} =>
       \A s \in 1..Len(out) : /\ (offset + s - 1) \div PerCluster \in 0..visited
                              /\ out[s] = SectorAt(s)

TrailInv == TrailTypeOK /\ SectorsSoFar /\ ReadsExactly

LEMMA TrailGeometry ==
  ASSUME TrailTypeOK, status = "ok"
  PROVE  /\ PerCluster \in Nat \ {0} /\ PerCluster \in ClusterSizes
         /\ volume.cluster_count \in Nat /\ volume.cluster_count + 2 < WordLimit
         /\ volume.data_lba \in Nat /\ WordLimit \in Nat
         /\ \A c \in Words : ClusterValid(volume, c) <=> c \in 2 .. volume.cluster_count + 1
         /\ FatValues \subseteq Words /\ Unread \notin Words
         /\ 0 .. volume.cluster_count + 2 \subseteq Words
<1>1. bpb \in Bpbs /\ MountStatus(bpb) = "ok" /\ volume = Volume(bpb)
  BY DEF TrailTypeOK
<1>2. /\ volume.cluster_count = Capacity(bpb) /\ volume.sectors_per_cluster \in ClusterSizes
      /\ volume.data_lba = DataStart(bpb)
      /\ \A c \in Words : ClusterValid(volume, c) <=> c \in 2 .. Capacity(bpb) + 1
  BY <1>1, VolumeFields, MountAccepts
<1>3. Capacity(bpb) \in Nat /\ Capacity(bpb) + 2 < WordLimit /\ DataStart(bpb) \in Nat
  BY <1>1, DataArea
<1>4. PerCluster \in Nat \ {0} /\ PerCluster \in ClusterSizes
  BY <1>2, ClusterSizeNat DEF PerCluster
<1>5. WordLimit \in Nat \ {0}
  BY Fat32VolumeAssumption
<1>6. 0 .. Capacity(bpb) + 2 \subseteq Words /\ Unread \notin Words
  BY <1>3, <1>5 DEF Words, Unread
<1>7. FatValues \subseteq Words
  BY <1>2, <1>3, <1>5, Fat32Assumption DEF Words, FatValues, Broken, Eoc
<1>8. QED
  BY <1>2, <1>3, <1>4, <1>5, <1>6, <1>7

\* More clusters walked than there are: some cluster came twice.
LEMMA LongTrailRepeats ==
  ASSUME TrailTypeOK, status = "ok", visited >= volume.cluster_count,
         \A k \in 1..Len(trail) : ClusterReadable(volume, trail[k])
  PROVE  \E k \in 1..Len(trail) : \E j \in 1 .. k - 1 : trail[j] = trail[k]
<1> DEFINE n == Len(trail)
           m == volume.cluster_count
<1>1. n = visited + 1 /\ visited \in Nat /\ m \in Nat /\ trail \in Seq(Words)
  BY TrailGeometry DEF TrailTypeOK
<1>2. trail \in [1..n -> 2 .. m + 1]
  <2>1. ASSUME NEW k \in 1..n
        PROVE  trail[k] \in 2 .. m + 1
    <3>1. trail[k] \in Words /\ ClusterValid(volume, trail[k])
      BY <1>1, <2>1 DEF ClusterReadable
    <3>2. QED
      BY <3>1, TrailGeometry
  <2>2. QED
    BY <1>1, <2>1
<1> HIDE DEF n, m
<1>3. n \in Nat /\ m < n
  BY <1>1 DEF m
<1>4. IsFiniteSet(1..n) /\ Cardinality(1..n) = n
  BY <1>3, FS_Interval
<1>5. IsFiniteSet(2 .. m + 1) /\ Cardinality(2 .. m + 1) = m
  BY <1>1, FS_Interval
<1>6. PICK x \in 1..n, y \in 1..n : x # y /\ trail[x] = trail[y]
  BY <1>2, <1>3, <1>4, <1>5, FS_PigeonHole
<1>7. CASE x < y
  <2>1. x \in 1 .. y - 1
    BY <1>3, <1>7
  <2>2. QED
    BY <1>6, <2>1 DEF n
<1>8. CASE y < x
  <2>1. y \in 1 .. x - 1
    BY <1>3, <1>8
  <2>2. QED
    BY <1>6, <2>1 DEF n
<1>9. QED
  BY <1>3, <1>6, <1>7, <1>8

\* Where the walk gives up, its chain is bad.
LEMMA GivesUpOnBadChain ==
  TrailTypeOK /\ status = "ok"
    /\ (\/ ~ClusterReadable(volume, cluster)
        \/ ~InFat(volume, cluster)
        \/ visited >= volume.cluster_count)
  => ChainIsBad
<1>1. SUFFICES ASSUME TrailTypeOK, status = "ok",
                      \/ ~ClusterReadable(volume, cluster)
                      \/ ~InFat(volume, cluster)
                      \/ visited >= volume.cluster_count
               PROVE  ChainIsBad
  OBVIOUS
<1>2. Len(trail) \in 1..Len(trail) /\ cluster = trail[Len(trail)]
  BY <1>1 DEF TrailTypeOK
<1>3. CASE ~ClusterReadable(volume, cluster) \/ ~InFat(volume, cluster)
  BY <1>2, <1>3 DEF ChainIsBad
<1>4. CASE visited >= volume.cluster_count
  BY <1>1, <1>4, LongTrailRepeats DEF ChainIsBad
<1>5. QED
  BY <1>1, <1>3, <1>4

LEMMA GivesUpOnBadChainNext ==
  (TrailTypeOK /\ status = "ok"
    /\ (\/ ~ClusterReadable(volume, cluster)
        \/ ~InFat(volume, cluster)
        \/ visited >= volume.cluster_count)
   => ChainIsBad)'
BY GivesUpOnBadChain, PTL

\* next_cluster gives the cluster that the FAT links to the last one, and keeps
\* the links found before.
LEMMA AdvanceTrail ==
  ASSUME TrailTypeOK, Chained, status = "ok", NEW v \in FatValues, Advance(v)
  PROVE  /\ Chained' /\ fat' \in [Words -> Words \cup {Unread}] /\ trail' \in Seq(Words)
         /\ Len(trail') = Len(trail) + 1 /\ trail'[Len(trail) + 1] = v
         /\ cluster' = v
         /\ \A k \in 1..Len(trail) : trail'[k] = trail[k]
<1> DEFINE n == Len(trail)
<1>1. /\ n \in Nat \ {0} /\ trail \in Seq(Words) /\ cluster = trail[n] /\ cluster \in Words
      /\ v \in Words /\ Unread \notin Words /\ fat \in [Words -> Words \cup {Unread}]
  <2>1. n = visited + 1 /\ visited \in Nat /\ trail \in Seq(Words) /\ cluster = trail[n]
    BY DEF TrailTypeOK
  <2>2. QED
    BY <2>1, TrailGeometry DEF TrailTypeOK
<1>2. /\ fat' = [fat EXCEPT ![cluster] = v] /\ trail' = Append(trail, v) /\ cluster' = v
      /\ fat[cluster] # Unread => v = fat[cluster]
  BY DEF Advance, Lookup
<1>3. /\ Len(trail') = n + 1 /\ trail'[n + 1] = v /\ trail' \in Seq(Words)
      /\ \A k \in 1..n : trail'[k] = trail[k]
  BY <1>1, <1>2
<1>4. fat'[cluster] = v /\ \A c \in Words : c # cluster => fat'[c] = fat[c]
  BY <1>1, <1>2
<1>5. ASSUME NEW k \in 1..n - 1
      PROVE  fat'[trail[k]] = trail[k + 1]
  <2>1. trail[k] \in Words /\ trail[k + 1] \in Words /\ trail[k + 1] = fat[trail[k]]
    <3>1. k \in 1..n /\ k + 1 \in 1..n
      BY <1>1
    <3>2. QED
      BY <1>1, <3>1 DEF Chained
  <2>2. CASE trail[k] = cluster
    BY <1>1, <1>2, <1>4, <2>1, <2>2
  <2>3. CASE trail[k] # cluster
    BY <1>4, <2>1, <2>3
  <2>4. QED
    BY <2>2, <2>3
<1> HIDE DEF n
<1>6. ASSUME NEW k \in 1 .. Len(trail') - 1
      PROVE  trail'[k + 1] = fat'[trail'[k]]
  <2>1. k \in 1..n
    BY <1>1, <1>3
  <2>2. CASE k = n
    BY <1>1, <1>3, <1>4, <2>1, <2>2
  <2>3. CASE k # n
    <3>1. k \in 1..n - 1 /\ k + 1 \in 1..n
      BY <1>1, <2>1, <2>3
    <3>2. QED
      BY <1>3, <1>5, <2>1, <3>1
  <2>4. QED
    BY <2>2, <2>3
<1>7. Chained'
  BY <1>6 DEF Chained
<1>8. fat' \in [Words -> Words \cup {Unread}]
  BY <1>1, <1>2
<1>9. QED
  BY <1>2, <1>3, <1>7, <1>8 DEF n

LEMMA StillWalking ==
  ASSUME Chained', walk' # "done"
  PROVE  ReadsExactly'
BY DEF ReadsExactly, ReadsFollowChain, CorruptIsReal

\* A walk that ends without delivering.
LEMMA NothingDelivered ==
  ASSUME TrailTypeOK', Chained', walk' = "done", outcome' # "ok",
         outcome' = "corrupt" => (status' # "ok" \/ faulted' \/ (ChainIsBad \/ EntryIsBad)')
  PROVE  TrailInv'
<1>1. SectorsSoFar'
  BY DEF SectorsSoFar
<1>2. ReadsExactly'
  BY DEF ReadsExactly, ReadsFollowChain, CorruptIsReal
<1>3. QED
  BY <1>1, <1>2 DEF TrailInv

LEMMA TrailInitInv ==
  WalkInit => TrailInv
<1>1. SUFFICES ASSUME WalkInit PROVE TrailInv
  OBVIOUS
<1>2. /\ bpb \in Bpbs /\ status = "none" /\ walk = "mount" /\ trail = <<>> /\ out = <<>>
      /\ fat = [c \in Words |-> Unread] /\ visited = 0 /\ offset = 0 /\ length = 0
      /\ file = NoFile
  BY <1>1, Fat32Assumption DEF WalkInit, WalkStart, VolumeStart
<1>3. 0 \in Words
  BY Fat32VolumeAssumption DEF Words
<1>4. TrailTypeOK
  BY <1>2, <1>3 DEF TrailTypeOK, NoFile
<1>5. QED
  BY <1>2, <1>4 DEF TrailInv, SectorsSoFar, ReadsExactly, Chained, ReadsFollowChain, CorruptIsReal

LEMMA DoMountTrail ==
  ASSUME TrailInv, DoMount
  PROVE  TrailInv'
<1>1. /\ walk = "mount" /\ UNCHANGED <<bpb, fat, depth, offset, length, out, faulted>>
      /\ status' = "ok" => MountStatus(bpb) = "ok" /\ volume' = Volume(bpb)
  BY DEF DoMount, Mount, MountUnreadable
<1>2. CASE status' # "ok"
  <2>1. walk' = "done" /\ outcome' = status' /\ UNCHANGED <<cluster, visited, trail, file>>
    BY <1>2 DEF DoMount, Ends
  <2>2. TrailTypeOK'
    BY <1>1, <1>2, <2>1 DEF TrailInv, TrailTypeOK
  <2>3. Chained'
    BY <1>1, <2>1 DEF TrailInv, ReadsExactly, Chained
  <2>4. QED
    BY <1>2, <2>1, <2>2, <2>3, NothingDelivered
<1>3. CASE status' = "ok"
  <2> DEFINE root == volume'.root_cluster
  <2>1. /\ walk' \in {"opened", "directory"} /\ cluster' = root /\ visited' = 0 /\ trail' = <<root>>
        /\ file'.first = root /\ file'.size = 0
    BY <1>3 DEF DoMount, Enter
  <2>2. root \in Words
    BY <1>1, <1>3, VolumeFields, MountAccepts DEF TrailInv, TrailTypeOK
  <2> HIDE DEF root
  <2>3. trail' \in Seq(Words) /\ Len(trail') = 1 /\ trail'[1] = root
    BY <2>1, <2>2
  <2>4. TrailTypeOK'
    BY <1>1, <1>3, <2>1, <2>2, <2>3 DEF TrailInv, TrailTypeOK
  <2>5. Chained'
    BY <2>3 DEF Chained
  <2>6. SectorsSoFar'
    BY <1>1, <2>1 DEF TrailInv, SectorsSoFar
  <2>7. QED
    BY <2>1, <2>4, <2>5, <2>6, StillWalking DEF TrailInv
<1>4. QED
  BY <1>2, <1>3

\* Steps that end the walk where it is.
LEMMA TrailStops ==
  ASSUME TrailInv, walk \notin {"mount", "done"}, walk' = "done", outcome' # "ok",
         UNCHANGED <<volumeVars, walkVars>>,
         outcome' = "corrupt" => faulted' \/ ~ClusterReadable(volume, cluster)
                                 \/ ~InFat(volume, cluster) \/ visited >= volume.cluster_count
  PROVE  TrailInv'
<1>1. UNCHANGED <<bpb, volume, status, fat, depth, cluster, visited, file, offset, length, trail,
                  out>>
  BY DEF volumeVars, walkVars
<1>2. TrailTypeOK' /\ Chained' /\ TrailTypeOK /\ status = "ok"
  BY <1>1 DEF TrailInv, TrailTypeOK, ReadsExactly, Chained
<1>3. outcome' = "corrupt" => faulted' \/ ChainIsBad
  BY <1>2, GivesUpOnBadChain
<1>4. ChainIsBad' = ChainIsBad
  BY <1>1 DEF ChainIsBad
<1>5. QED
  BY <1>2, <1>3, <1>4, NothingDelivered

LEMMA MatchTrail ==
  ASSUME TrailInv, NEW f \in Files, Match(f)
  PROVE  TrailInv'
<1>1. /\ walk = "directory" /\ UNCHANGED <<bpb, volume, status, fat, offset, length, out, faulted>>
      /\ file' = f /\ status = "ok" /\ TrailTypeOK /\ out = <<>>
  BY DEF Match, volumeVars, TrailInv, TrailTypeOK, SectorsSoFar
<1>2. f.first \in Words /\ f.size \in Nat
  <2>1. f.first \in 0 .. volume.cluster_count + 2 /\ f.size \in 0..MaxSize
    BY DEF Files
  <2>2. QED
    BY <1>1, <2>1, TrailGeometry, Fat32Assumption
<1>3. \/ walk' = "opened" /\ UNCHANGED <<cluster, visited, trail, outcome>>
      \/ walk' = "directory" /\ cluster' = f.first /\ visited' = 0 /\ trail' = <<f.first>>
      \/ /\ walk' = "done" /\ outcome' \in {"corrupt", "not_directory"}
         /\ UNCHANGED <<cluster, visited, trail>>
         /\ outcome' = "corrupt" => f.first < 2 \/ ~ClusterValid(volume, f.first)
  BY <1>1 DEF Match, Ends, Enter
<1>4. CASE walk' = "directory"
  <2>1. trail' = <<f.first>> /\ cluster' = f.first /\ visited' = 0
    BY <1>3, <1>4
  <2>2. trail' \in Seq(Words) /\ Len(trail') = 1 /\ trail'[1] = f.first
    BY <1>2, <2>1
  <2>3. TrailTypeOK'
    BY <1>1, <1>2, <1>4, <2>1, <2>2 DEF TrailTypeOK
  <2>4. Chained'
    BY <2>2 DEF Chained
  <2>5. SectorsSoFar'
    BY <1>1, <1>4 DEF SectorsSoFar
  <2>6. QED
    BY <1>4, <2>3, <2>4, <2>5, StillWalking DEF TrailInv
<1>5. CASE walk' # "directory"
  <2>1. UNCHANGED <<cluster, visited, trail>>
    BY <1>3, <1>5
  <2>2. TrailTypeOK' /\ Chained'
    BY <1>1, <1>2, <1>3, <1>5, <2>1 DEF TrailInv, TrailTypeOK, ReadsExactly, Chained
  <2>3. CASE walk' = "opened"
    <3>1. SectorsSoFar'
      BY <1>1, <2>3 DEF SectorsSoFar
    <3>2. QED
      BY <2>2, <2>3, <3>1, StillWalking DEF TrailInv
  <2>4. CASE walk' = "done"
    <3>1. outcome' \in {"corrupt", "not_directory"}
          /\ (outcome' = "corrupt" => f.first < 2 \/ ~ClusterValid(volume, f.first))
      BY <1>3, <2>4
    <3>2. f.first < 2 => ~ClusterValid(volume, f.first)
      <4>1. f.first \in Int
        BY <1>2 DEF Words
      <4>2. QED
        BY <4>1 DEF ClusterValid
    <3>3. outcome' = "corrupt" => EntryIsBad'
      BY <1>1, <3>1, <3>2 DEF EntryIsBad
    <3>4. QED
      BY <2>2, <2>4, <3>1, <3>3, NothingDelivered
  <2>5. QED
    BY <1>3, <1>5, <2>3, <2>4
<1>6. QED
  BY <1>4, <1>5

\* What the three loops share when they go on to the next cluster.
LEMMA AdvanceType ==
  ASSUME TrailInv, status = "ok", NEW v \in FatValues, Advance(v), visited' = visited + 1,
         UNCHANGED <<bpb, volume, status, depth, file, offset, length, out, faulted>>,
         walk' # "mount"
  PROVE  /\ TrailTypeOK' /\ Chained' /\ cluster' = v
         /\ \A k \in 1 .. visited + 1 : trail'[k] = trail[k]
<1>1. TrailTypeOK /\ Chained /\ Len(trail) = visited + 1 /\ visited \in Nat
  BY DEF TrailInv, TrailTypeOK, ReadsExactly
<1>2. /\ Chained' /\ fat' \in [Words -> Words \cup {Unread}] /\ trail' \in Seq(Words)
      /\ Len(trail') = Len(trail) + 1 /\ trail'[Len(trail) + 1] = v
      /\ cluster' = v
      /\ \A k \in 1..Len(trail) : trail'[k] = trail[k]
  BY <1>1, AdvanceTrail
<1>3. Len(trail') = visited' + 1 /\ cluster' = trail'[visited' + 1] /\ visited' \in Nat
  BY <1>1, <1>2
<1>4. TrailTypeOK'
  BY <1>1, <1>2, <1>3 DEF TrailTypeOK
<1>5. QED
  BY <1>1, <1>2, <1>4

\* Going on from there, the loop may find that the chain ends or is too long.
LEMMA AdvanceStops ==
  ASSUME TrailInv, status = "ok", NEW v \in FatValues, Advance(v), visited' = visited + 1,
         UNCHANGED <<bpb, volume, status, depth, file, offset, length, out, faulted>>,
         walk' = "done", outcome' # "ok",
         outcome' = "corrupt" => v \in {Broken, Eoc} \/ visited' > volume.cluster_count
  PROVE  TrailInv'
<1>1. TrailTypeOK' /\ Chained' /\ cluster' = v /\ TrailTypeOK
  BY AdvanceType DEF TrailInv
<1>2. v \in {Broken, Eoc} => ChainIsBad'
  <2>1. /\ Len(trail') \in 1..Len(trail') /\ Len(trail') > 1
        /\ trail'[Len(trail')] = v
    BY <1>1 DEF TrailTypeOK
  <2>2. ASSUME v \in {Broken, Eoc}
        PROVE  v \in {Broken', Eoc'}
    BY <2>2 DEF Broken, Eoc
  <2>3. QED
    BY <2>1, <2>2 DEF ChainIsBad
<1>3. visited' > volume.cluster_count => visited' >= volume'.cluster_count
  BY <1>1, TrailGeometry DEF TrailTypeOK
<1>4. outcome' = "corrupt" => ChainIsBad'
  BY <1>1, <1>2, <1>3, GivesUpOnBadChainNext
<1>5. QED
  BY <1>1, <1>4, NothingDelivered

LEMMA DirectoryNextTrail ==
  ASSUME TrailInv, NEW v \in FatValues, DirectoryNext(v)
  PROVE  TrailInv'
<1>1. /\ walk = "directory_next" /\ status = "ok" /\ out = <<>> /\ Advance(v)
      /\ visited' = visited + 1
      /\ UNCHANGED <<bpb, volume, status, depth, file, offset, length, out, faulted>>
  BY DEF DirectoryNext, Visited, volumeVars, TrailInv, TrailTypeOK, SectorsSoFar
<1>2. \/ walk' = "directory"
      \/ /\ walk' = "done" /\ outcome' \in {"corrupt", "not_found"}
         /\ outcome' = "corrupt" => v = Broken \/ visited' > volume.cluster_count
  BY DEF DirectoryNext, Ends
<1>3. CASE walk' = "done"
  BY <1>1, <1>2, <1>3, AdvanceStops
<1>4. CASE walk' = "directory"
  <2>1. TrailTypeOK' /\ Chained'
    BY <1>1, <1>4, AdvanceType
  <2>2. SectorsSoFar'
    BY <1>1, <1>4 DEF SectorsSoFar
  <2>3. QED
    BY <1>4, <2>1, <2>2, StillWalking DEF TrailInv
<1>5. QED
  BY <1>2, <1>3, <1>4

LEMMA ReadFileTrail ==
  ASSUME TrailInv, NEW o \in 0..MaxSize, NEW l \in {0, 1, MaxSize}, ReadFile(o, l)
  PROVE  TrailInv'
<1> DEFINE clipped == IF l > file.size - o THEN file.size - o ELSE l
<1>1. /\ walk = "opened" /\ status = "ok" /\ out = <<>> /\ TrailTypeOK /\ offset' = o
      /\ UNCHANGED <<bpb, volume, status, fat, depth, file, out, faulted>>
      /\ cluster' = file.first /\ visited' = 0 /\ trail' = <<file.first>>
  BY DEF ReadFile, Enter, volumeVars, TrailInv, TrailTypeOK, SectorsSoFar
<1>2. /\ o \in Nat /\ l \in Nat /\ file.size \in Nat /\ file.first \in Words
      /\ PerCluster \in Nat \ {0} /\ PerCluster' = PerCluster
  BY <1>1, TrailGeometry, Fat32Assumption DEF TrailTypeOK, PerCluster
<1>3. \/ walk' = "done" /\ outcome' \in {"not_directory", "bad_path"} /\ length' = 0
      \/ walk' = "done" /\ outcome' = "ok" /\ length' = 0
      \/ walk' = "done" /\ outcome' = "corrupt" /\ ~ClusterValid(volume, file.first)
           /\ length' \in Nat
      \/ /\ walk' = (IF o >= PerCluster THEN "skip" ELSE "read")
         /\ length' \in Nat \ {0}
  <2>1. o <= file.size => clipped \in Nat
    BY <1>2
  <2>2. ~(o > file.size) => o <= file.size
    BY <1>2
  <2>3. CASE file.directory \/ o > file.size
    BY <2>3 DEF ReadFile, Ends
  <2>4. CASE ~(file.directory \/ o > file.size)
    <3>1. /\ length' = clipped
          /\ IF clipped = 0 THEN walk' = "done" /\ outcome' = "ok"
             ELSE IF ~ClusterValid(volume, file.first) THEN walk' = "done" /\ outcome' = "corrupt"
             ELSE walk' = IF o >= PerCluster THEN "skip" ELSE "read"
      BY <2>4 DEF ReadFile, Ends
    <3> HIDE DEF clipped
    <3>2. QED
      BY <2>1, <2>2, <2>4, <3>1
  <2>5. QED
    BY <2>3, <2>4
<1>4. trail' \in Seq(Words) /\ Len(trail') = 1 /\ trail'[1] = file.first
  BY <1>1, <1>2
<1>5. walk' \in {"done", "skip", "read"} /\ length' \in Nat
  BY <1>3
<1>6. TrailTypeOK'
  BY <1>1, <1>2, <1>4, <1>5 DEF TrailTypeOK
<1>7. Chained'
  BY <1>4 DEF Chained
<1>8. CASE walk' = "done" /\ outcome' # "ok"
  <2>1. outcome' = "corrupt" => EntryIsBad'
    BY <1>1, <1>3, <1>8 DEF EntryIsBad
  <2>2. QED
    BY <1>6, <1>7, <1>8, <2>1, NothingDelivered
<1>9. CASE walk' = "done" /\ outcome' = "ok"
  <2>1. length' = 0
    BY <1>3, <1>9
  <2>2. Requested' = <<>>
    BY <2>1 DEF Requested
  <2>3. ReadsExactly'
    BY <1>1, <1>4, <1>7, <1>9, <2>2 DEF ReadsExactly, ReadsFollowChain, CorruptIsReal
  <2>4. SectorsSoFar'
    BY <1>9 DEF SectorsSoFar
  <2>5. QED
    BY <1>6, <2>3, <2>4 DEF TrailInv
<1>10. CASE walk' # "done"
  <2>1. walk' = (IF o >= PerCluster THEN "skip" ELSE "read") /\ length' \in Nat \ {0}
    BY <1>3, <1>10
  <2>2. Skipped' = o \div PerCluster
    BY <1>1, <1>2 DEF Skipped
  <2>3. (o >= PerCluster => 0 < o \div PerCluster) /\ (~(o >= PerCluster) => o \div PerCluster = 0)
    <3>1. o \div PerCluster \in Int /\ PerCluster * (o \div PerCluster) \in Int
          /\ o < PerCluster * (o \div PerCluster) + PerCluster
      BY <1>2, DivMod
    <3>2. ~(o >= PerCluster) => o \div PerCluster = 0
      BY <1>2
    <3> DEFINE q == o \div PerCluster
    <3>3. o >= PerCluster => 0 < q
      <4>1. q \in Int /\ o < PerCluster * q + PerCluster
        BY <3>1
      <4> HIDE DEF q
      <4>2. q <= 0 => PerCluster * q <= 0
        BY <1>2, <4>1, SMT
      <4>3. PerCluster * q \in Int
        BY <1>2, <4>1
      <4>4. QED
        BY <1>2, <4>1, <4>2, <4>3
    <3>4. QED
      BY <3>2, <3>3
  <2>4. Len(out') = 0 /\ 0 < length' /\ out' = <<>>
    BY <1>1, <2>1
  <2>5. SectorsSoFar'
    BY <1>1, <1>4, <2>1, <2>2, <2>3, <2>4 DEF SectorsSoFar
  <2>6. QED
    BY <1>6, <1>7, <1>10, <2>5, StillWalking DEF TrailInv
<1>11. QED
  BY <1>8, <1>9, <1>10

\* The cluster where the request begins.
LEMMA SkippedIs ==
  ASSUME TrailTypeOK, status = "ok"
  PROVE  /\ Skipped \in Nat /\ offset % PerCluster \in 0 .. PerCluster - 1
         /\ PerCluster * Skipped \in Nat /\ offset = PerCluster * Skipped + (offset % PerCluster)
<1>1. offset \in Nat /\ PerCluster \in Nat \ {0}
  BY TrailGeometry DEF TrailTypeOK
<1>2. Skipped \in Nat
  BY <1>1 DEF Skipped
<1>3. QED
  BY <1>1, <1>2, DivMod DEF Skipped

\* The sectors delivered do not depend on what is walked later.
LEMMA DeliveredKept ==
  ASSUME NEW s, UNCHANGED <<volume, offset>>, NEW n \in Nat,
         (offset + s - 1) \div PerCluster \in 0..n,
         \A k \in 1 .. n + 1 : trail'[k] = trail[k]
  PROVE  SectorAt(s)' = SectorAt(s)
<1> DEFINE q == (offset + s - 1) \div PerCluster
<1>1. q + 1 \in 1 .. n + 1
  OBVIOUS
<1>2. PerCluster' = PerCluster
  BY DEF PerCluster
<1>3. trail'[q + 1] = trail[q + 1]
  BY <1>1
<1>4. QED
  BY <1>2, <1>3 DEF SectorAt

LEMMA SkipClusterTrail ==
  ASSUME TrailInv, NEW v \in FatValues, SkipCluster(v)
  PROVE  TrailInv'
<1>1. /\ walk = "skip" /\ status = "ok" /\ out = <<>> /\ Advance(v) /\ visited' = visited + 1
      /\ UNCHANGED <<bpb, volume, status, depth, file, offset, length, out, faulted>>
      /\ trail[1] = file.first /\ Len(out) < length /\ visited < Skipped /\ visited \in Nat
      /\ TrailTypeOK
  BY DEF SkipCluster, volumeVars, TrailInv, TrailTypeOK, SectorsSoFar
<1>2. CASE walk' = "done"
  BY <1>1, <1>2, AdvanceStops DEF SkipCluster, Ends
<1>3. CASE walk' # "done"
  <2>1. walk' = IF visited' = Skipped THEN "read" ELSE "skip"
    BY <1>3 DEF SkipCluster, Ends
  <2>2. /\ TrailTypeOK' /\ Chained'
        /\ \A k \in 1 .. visited + 1 : trail'[k] = trail[k]
    BY <1>1, <2>1, AdvanceType
  <2>3. trail'[1] = file'.first
    BY <1>1, <2>2
  <2>4. Skipped \in Nat /\ Skipped' = Skipped
    BY <1>1, SkippedIs DEF Skipped, PerCluster
  <2>5. SectorsSoFar'
    BY <1>1, <2>1, <2>3, <2>4 DEF SectorsSoFar
  <2>6. QED
    BY <1>3, <2>2, <2>5, StillWalking DEF TrailInv
<1>4. QED
  BY <1>2, <1>3

LEMMA ReadNextTrail ==
  ASSUME TrailInv, NEW v \in FatValues, ReadNext(v)
  PROVE  TrailInv'
<1>1. /\ walk = "read_next" /\ status = "ok" /\ Advance(v) /\ visited' = visited + 1
      /\ UNCHANGED <<bpb, volume, status, depth, file, offset, length, out, faulted>>
      /\ trail[1] = file.first /\ Len(out) < length /\ visited \in Nat /\ TrailTypeOK
      /\ visited >= Skipped /\ Len(out) = PerCluster * (visited + 1) - offset
      /\ \A s \in 1..Len(out) : /\ (offset + s - 1) \div PerCluster \in 0..visited
                                /\ out[s] = SectorAt(s)
  BY DEF ReadNext, volumeVars, TrailInv, TrailTypeOK, SectorsSoFar
<1>2. CASE walk' = "done"
  BY <1>1, <1>2, AdvanceStops DEF ReadNext, Ends
<1>3. CASE walk' # "done"
  <2>1. walk' = "read"
    BY <1>3 DEF ReadNext, Ends
  <2>2. /\ TrailTypeOK' /\ Chained'
        /\ \A k \in 1 .. visited + 1 : trail'[k] = trail[k]
    BY <1>1, <2>1, AdvanceType
  <2>3. trail'[1] = file'.first
    BY <1>1, <2>2
  <2>4. Skipped \in Nat /\ Skipped' = Skipped /\ PerCluster' = PerCluster
    BY <1>1, SkippedIs DEF Skipped, PerCluster
  <2>5. visited' # Skipped /\ visited' >= Skipped
    BY <1>1, <2>4
  <2>6. ASSUME NEW s \in 1..Len(out)
        PROVE  (offset + s - 1) \div PerCluster \in 0..visited' /\ out[s] = SectorAt(s)'
    <3>1. (offset + s - 1) \div PerCluster \in 0..visited /\ out[s] = SectorAt(s)
      BY <1>1
    <3>2. SectorAt(s)' = SectorAt(s)
      BY <1>1, <2>2, <3>1, DeliveredKept
    <3>3. QED
      BY <1>1, <3>1, <3>2
  <2>7. Len(out') = PerCluster * visited' - offset'
    BY <1>1
  <2>8. SectorsSoFar'
    BY <1>1, <2>1, <2>3, <2>4, <2>5, <2>6, <2>7 DEF SectorsSoFar
  <2>9. QED
    BY <1>3, <2>2, <2>8, StillWalking DEF TrailInv
<1>4. QED
  BY <1>2, <1>3

\* The cluster the walk is at.
LEMMA ClusterIsWord ==
  ASSUME TrailTypeOK, status = "ok"
  PROVE  cluster \in Int
<1>1. /\ trail \in Seq(Words) /\ visited \in Nat /\ Len(trail) = visited + 1
      /\ cluster = trail[visited + 1]
  BY DEF TrailTypeOK
<1>2. visited + 1 \in 1..Len(trail)
  BY <1>1
<1>3. trail[visited + 1] \in Words
  BY <1>1, <1>2
<1>4. WordLimit \in Nat
  BY TrailGeometry
<1>5. QED
  BY <1>1, <1>3, <1>4 DEF Words

\* Sectors added to those delivered.
LEMMA PieceAppended ==
  ASSUME NEW a \in Seq(Int), NEW b \in Seq(Int)
  PROVE  /\ a \o b \in Seq(Int) /\ Len(a \o b) = Len(a) + Len(b)
         /\ \A s \in 1..Len(a) : (a \o b)[s] = a[s]
         /\ \A s \in Len(a) + 1 .. Len(a) + Len(b) : (a \o b)[s] = b[s - Len(a)]
<1>1. /\ a \o b \in Seq(Int) /\ Len(a \o b) = Len(a) + Len(b)
      /\ \A s \in 1 .. Len(a) + Len(b) :
           (a \o b)[s] = IF s <= Len(a) THEN a[s] ELSE b[s - Len(a)]
  BY ConcatProperties
<1>2. Len(a) \in Nat /\ Len(b) \in Nat
  OBVIOUS
<1>3. ASSUME NEW s \in 1..Len(a)
      PROVE  (a \o b)[s] = a[s]
  BY <1>1, <1>2
<1>4. ASSUME NEW s \in Len(a) + 1 .. Len(a) + Len(b)
      PROVE  (a \o b)[s] = b[s - Len(a)]
  <2>1. s \in 1 .. Len(a) + Len(b) /\ ~(s <= Len(a))
    BY <1>2
  <2>2. QED
    BY <1>1, <2>1
<1>5. QED
  BY <1>1, <1>3, <1>4

\* One cluster's worth of sectors.
LEMMA PieceRead ==
  ASSUME TrailInv, ReadCluster
  PROVE  \E take \in Nat :
           /\ out' \in Seq(Int) /\ Len(out') = Len(out) + take /\ Len(out') <= length
           /\ Len(out') < length => Len(out') = PerCluster * (visited + 1) - offset
           /\ \A s \in 1..Len(out') : /\ (offset + s - 1) \div PerCluster \in 0..visited
                                      /\ out'[s] = SectorAt(s)
<1> DEFINE first == FirstSector
           left == length - Len(out)
           room == PerCluster - first
           take == IF left < room THEN left ELSE room
           base == ClusterLba(volume, cluster) + first
           piece == [s \in 1..take |-> base + s - 1]
           n == Len(out)
           at == PerCluster * visited
<1>1. /\ walk = "read" /\ status = "ok" /\ TrailTypeOK /\ n < length /\ visited >= Skipped
      /\ n = (IF visited = Skipped THEN 0 ELSE at - offset)
      /\ out \in Seq(Int) /\ length \in Nat /\ offset \in Nat /\ visited \in Nat
      /\ cluster = trail[visited + 1] /\ Len(trail) = visited + 1 /\ trail \in Seq(Words)
      /\ \A s \in 1..n : /\ (offset + s - 1) \div PerCluster \in 0..visited
                         /\ out[s] = SectorAt(s)
  BY DEF ReadCluster, TrailInv, TrailTypeOK, SectorsSoFar
<1>2. PerCluster \in Nat \ {0} /\ volume.data_lba \in Nat /\ n \in Nat /\ at \in Nat
  BY <1>1, TrailGeometry
<1>3. first \in 0 .. PerCluster - 1 /\ offset + n = at + first
  <2>1. /\ Skipped \in Nat /\ offset % PerCluster \in 0 .. PerCluster - 1
        /\ offset = PerCluster * Skipped + (offset % PerCluster)
    BY <1>1, SkippedIs
  <2>2. CASE visited = Skipped
    BY <1>1, <1>2, <2>1, <2>2 DEF FirstSector
  <2>3. CASE visited # Skipped
    BY <1>1, <1>2, <2>3 DEF FirstSector
  <2>4. QED
    BY <2>2, <2>3
<1>4. out' = out \o piece
  BY DEF ReadCluster
<1>5. base \in Int
  <2>1. cluster \in Int
    BY <1>1, ClusterIsWord
  <2>2. ClusterLba(volume, cluster) \in Int
    BY <1>2, <2>1 DEF ClusterLba, PerCluster
  <2>3. QED
    BY <1>2, <1>3, <2>2
<1> HIDE DEF first, base, n, at
<1>6. /\ take \in Nat /\ take <= room /\ n + take <= length /\ room = PerCluster - first
      /\ n + take < length => take = room
  BY <1>1, <1>2, <1>3 DEF n
<1> HIDE DEF take, room
<1>7. piece \in Seq(Int) /\ Len(piece) = take /\ \A s \in 1..take : piece[s] = base + s - 1
  BY <1>5, <1>6
<1> HIDE DEF piece
<1>8. /\ out' \in Seq(Int) /\ Len(out') = n + take
      /\ \A s \in 1..n : out'[s] = out[s]
      /\ \A s \in n + 1 .. n + take : out'[s] = piece[s - n]
  BY <1>1, <1>4, <1>7, PieceAppended DEF n
<1>9. Len(out') < length => Len(out') = PerCluster * (visited + 1) - offset
  <2>1. PerCluster * (visited + 1) = at + PerCluster
    BY <1>1, <1>2 DEF at
  <2>2. QED
    BY <1>1, <1>2, <1>3, <1>6, <1>8, <2>1
<1>10. ASSUME NEW s \in n + 1 .. n + take
       PROVE  (offset + s - 1) \div PerCluster \in 0..visited /\ out'[s] = SectorAt(s)
  <2> DEFINE i == s - n
             r == first + i - 1
  <2>1. s \in Nat /\ i \in 1..take
    BY <1>2, <1>6
  <2>2. r \in 0 .. PerCluster - 1 /\ offset + s - 1 = at + r /\ offset + s - 1 \in Int
    BY <1>1, <1>2, <1>3, <1>6, <2>1
  <2> HIDE DEF r
  <2>3. (offset + s - 1) \div PerCluster = visited /\ (offset + s - 1) % PerCluster = r
    <3>1. offset + s - 1 = PerCluster * visited + r /\ visited \in Int
      BY <1>1, <2>2 DEF at
    <3>2. QED
      BY <1>2, <2>2, <3>1, DivModUnique
  <2>4. SectorAt(s) = ClusterLba(volume, cluster) + r
    BY <1>1, <2>3 DEF SectorAt
  <2>5. out'[s] = base + i - 1
    BY <1>7, <1>8, <1>10, <2>1
  <2>6. ClusterLba(volume, cluster) \in Int /\ first \in Int
    <3>1. cluster \in Int
      BY <1>1, ClusterIsWord
    <3>2. QED
      BY <1>2, <1>3, <3>1 DEF ClusterLba, PerCluster
  <2>7. base + i - 1 = ClusterLba(volume, cluster) + r
    BY <2>1, <2>6 DEF base, r
  <2>8. QED
    BY <1>1, <2>3, <2>4, <2>5, <2>7
<1>11. ASSUME NEW s \in 1..Len(out')
       PROVE  (offset + s - 1) \div PerCluster \in 0..visited /\ out'[s] = SectorAt(s)
  <2>1. s \in 1..n \/ s \in n + 1 .. n + take
    BY <1>2, <1>6, <1>8
  <2>2. QED
    BY <1>1, <1>8, <1>10, <2>1
<1>12. QED
  BY <1>6, <1>8, <1>9, <1>11 DEF n

LEMMA ReadClusterTrail ==
  ASSUME TrailInv, ReadCluster
  PROVE  TrailInv'
<1>1. /\ walk = "read" /\ status = "ok" /\ TrailTypeOK /\ Chained /\ trail[1] = file.first
      /\ visited >= Skipped
      /\ UNCHANGED <<bpb, volume, status, fat, depth, cluster, visited, file, offset, length, trail,
                     faulted>>
      /\ IF Len(out') = length THEN walk' = "done" /\ outcome' = "ok" ELSE walk' = "read_next"
  BY DEF ReadCluster, Ends, volumeVars, TrailInv, TrailTypeOK, SectorsSoFar, ReadsExactly
<1>2. /\ out' \in Seq(Int) /\ Len(out') <= length
      /\ Len(out') < length => Len(out') = PerCluster * (visited + 1) - offset
      /\ \A s \in 1..Len(out') : /\ (offset + s - 1) \div PerCluster \in 0..visited
                                 /\ out'[s] = SectorAt(s)
  BY PieceRead
<1>3. TrailTypeOK' /\ Chained' /\ length \in Nat
  BY <1>1, <1>2 DEF TrailTypeOK, Chained
<1>4. PerCluster' = PerCluster /\ Skipped' = Skipped /\ \A s : SectorAt(s)' = SectorAt(s)
  BY <1>1 DEF PerCluster, Skipped, SectorAt
<1>5. CASE Len(out') = length
  <2>1. out' = Requested'
    <3>1. Requested' = [s \in 1..length |-> SectorAt(s)]
      BY <1>1 DEF Requested, SectorAt, PerCluster
    <3>2. out' = [s \in 1..Len(out') |-> out'[s]]
      BY <1>2
    <3>3. QED
      BY <1>2, <1>5, <3>1, <3>2
  <2>2. ReadsExactly'
    BY <1>1, <1>3, <1>5, <2>1 DEF ReadsExactly, ReadsFollowChain, CorruptIsReal
  <2>3. SectorsSoFar'
    BY <1>1, <1>5 DEF SectorsSoFar
  <2>4. QED
    BY <1>3, <2>2, <2>3 DEF TrailInv
<1>6. CASE Len(out') # length
  <2>1. walk' = "read_next" /\ Len(out') < length
    BY <1>1, <1>2, <1>3, <1>6
  <2>2. SectorsSoFar'
    BY <1>1, <1>2, <1>4, <2>1 DEF SectorsSoFar
  <2>3. QED
    BY <1>3, <2>1, <2>2, StillWalking DEF TrailInv
<1>7. QED
  BY <1>5, <1>6

LEMMA TrailUnchanged ==
  ASSUME TrailInv, UNCHANGED <<volumeVars, walkVars>>,
         \/ walk = "directory" /\ walk' = "directory_next"
         \/ UNCHANGED <<walk, faulted, outcome>>
  PROVE  TrailInv'
<1>1. UNCHANGED <<bpb, volume, status, fat, depth, cluster, visited, file, offset, length, trail,
                  out>>
  BY DEF volumeVars, walkVars
<1>2. TrailTypeOK' /\ Chained'
  BY <1>1 DEF TrailInv, TrailTypeOK, ReadsExactly, Chained
<1>3. PerCluster' = PerCluster /\ Skipped' = Skipped /\ \A s : SectorAt(s)' = SectorAt(s)
  BY <1>1 DEF PerCluster, Skipped, SectorAt
<1>4. SectorsSoFar'
  BY <1>1, <1>3 DEF TrailInv, SectorsSoFar
<1>5. ReadsExactly'
  <2>1. CASE walk = "directory" /\ walk' = "directory_next"
    BY <1>2, <2>1, StillWalking
  <2>2. CASE UNCHANGED <<walk, faulted, outcome>>
    <3>1. Requested' = Requested /\ ChainIsBad' = ChainIsBad /\ EntryIsBad' = EntryIsBad
      BY <1>1, <1>3 DEF Requested, ChainIsBad, EntryIsBad
    <3>2. QED
      BY <1>1, <1>2, <2>2, <3>1 DEF TrailInv, ReadsExactly, ReadsFollowChain, CorruptIsReal
  <2>3. QED
    BY <2>1, <2>2
<1>6. QED
  BY <1>2, <1>4, <1>5 DEF TrailInv

LEMMA TrailNextInv ==
  ASSUME TrailInv, [WalkNext]_fatVars
  PROVE  TrailInv'
<1>1. CASE ReadFault \/ SkipFault
  <2>1. /\ walk \notin {"mount", "done"} /\ walk' = "done" /\ outcome' # "ok" /\ faulted'
        /\ UNCHANGED <<volumeVars, walkVars>>
    BY <1>1 DEF ReadFault, SkipFault, Ends
  <2>2. QED
    BY <2>1, TrailStops
<1>2. CASE BadSegment \/ DirectoryLeavesVolume \/ EndOfDirectory \/ BeyondFat
  <2>1. /\ walk \notin {"mount", "done"} /\ walk' = "done" /\ outcome' # "ok"
        /\ UNCHANGED <<volumeVars, walkVars>>
        /\ outcome' = "corrupt" => ~ClusterReadable(volume, cluster) \/ ~InFat(volume, cluster)
    BY <1>2 DEF BadSegment, DirectoryLeavesVolume, EndOfDirectory, BeyondFat, Fails, Ends
  <2>2. QED
    BY <2>1, TrailStops
<1>3. CASE ReadTooLong
  <2>1. /\ walk = "read" /\ walk' = "done" /\ outcome' # "ok"
        /\ UNCHANGED <<volumeVars, walkVars>>
        /\ TooLong \/ ~ClusterReadable(volume, cluster)
    BY <1>3 DEF ReadTooLong, Fails, Ends
  <2>2. volume.cluster_count \in Nat /\ visited \in Nat
    BY <2>1, TrailGeometry DEF TrailInv, TrailTypeOK
  <2>3. TooLong => visited >= volume.cluster_count
    BY <2>2 DEF TooLong
  <2>4. QED
    BY <2>1, <2>3, TrailStops
<1>4. CASE NoMatch \/ UNCHANGED fatVars
  BY <1>4, TrailUnchanged DEF NoMatch, fatVars
<1>5. QED
  BY <1>1, <1>2, <1>3, <1>4, DoMountTrail, MatchTrail, DirectoryNextTrail, ReadFileTrail,
     SkipClusterTrail, ReadNextTrail, ReadClusterTrail DEF WalkNext, Lookups, Reads

\* josh_fat32_open_path and josh_fat32_read_file on every volume that mounts and
\* every FAT: a read that succeeds has delivered the requested sectors of the
\* file's chain in order, and corruption is reported only where there is some.
THEOREM ReadsAreExact ==
  WalkSpec => []ReadsExactly
<1>1. WalkSpec => []TrailInv
  BY TrailInitInv, TrailNextInv, PTL DEF WalkSpec
<1>2. TrailInv => ReadsExactly
  BY DEF TrailInv
<1>3. QED
  BY <1>1, <1>2, PTL

-----------------------------------------------------------------------------
(* The block-device thunk. *)

\* Between bios_block_common and INT 13h the packet says what the arguments do.
PacketFilled ==
  io \in {"pm16", "real", "int13"} =>
    /\ ArgumentsValid
    /\ dap = [lba |-> lba, count |-> count, segment |-> buffer \div 16, offset |-> buffer % 16]

\* Where the thunk is in real mode, and where in it interrupts are on.
ModeInStep ==
  /\ io \in {"real", "int13", "cli", "resume"} => mode = "real"
  /\ interrupts => io \in {"int13", "cli"}

IoTypeOK ==
  /\ io \in {"idle", "loop", "arguments", "pm16", "real", "int13", "cli", "resume", "returned"}
  /\ call \in [lba : Nat, sector_count : Nat]
  /\ lba \in Nat /\ remaining \in Nat
  /\ count \in Nat /\ buffer \in Nat

ThunkInv == IoTypeOK /\ PacketFilled /\ ModeInStep

LEMMA ThunkInitInv ==
  IoInit => ThunkInv
BY DEF IoInit, ThunkInv, IoTypeOK, PacketFilled, ModeInStep, NoCall

LEMMA ChunkBounds ==
  ASSUME remaining \in Nat
  PROVE  Chunk \in Nat /\ Chunk <= remaining
BY BlockIOAssumption DEF Chunk

LEMMA ThunkNextInv ==
  ASSUME ThunkInv, [IoNext]_ioVars
  PROVE  ThunkInv'
<1> USE DEF ThunkInv, IoTypeOK, PacketFilled, ModeInStep, readVars, thunkVars
<1>1. ASSUME NEW first \in Lbas, NEW n \in ReadCounts, ReadBounced(first, n)
      PROVE  ThunkInv'
  <2>1. first \in Nat /\ n \in Nat /\ call' \in [lba : Nat, sector_count : Nat]
    BY <1>1, BlockIOAssumption DEF ReadBounced
  <2>2. io = "idle" /\ io' \in {"idle", "loop"}
    BY <1>1 DEF ReadBounced
  <2>3. IoTypeOK'
    BY <1>1, <2>1, <2>2 DEF ReadBounced
  <2>4. PacketFilled' /\ ModeInStep'
    BY <1>1, <2>2 DEF ReadBounced
  <2>5. QED
    BY <2>3, <2>4
<1>2. CASE ReadChunk
  BY <1>2, ChunkBounds, BlockIOAssumption DEF ReadChunk
<1>3. CASE CopyChunk
  BY <1>3, ChunkBounds DEF CopyChunk, NextLba
<1>4. CASE ReadFails
  BY <1>4 DEF ReadFails, Returns
<1>5. CASE ReadDone
  BY <1>5 DEF ReadDone, Returns
<1>6. ASSUME NEW op \in {"read", "write"}, NEW n \in Counts, NEW b \in Buffers, Direct(op, n, b)
      PROVE  ThunkInv'
  BY <1>6, BlockIOAssumption DEF Direct, NoCall
<1>7. CASE DirectDone
  BY <1>7 DEF DirectDone, Returns
<1>8. CASE ArgumentError
  BY <1>8 DEF ArgumentError, Returns
<1>9. CASE FillPacket
  BY <1>9 DEF FillPacket, ArgumentsValid
<1>10. CASE LeaveProtectedMode
  BY <1>10 DEF LeaveProtectedMode, ArgumentsValid
<1>11. CASE EnableInterrupts
  BY <1>11 DEF EnableInterrupts, ArgumentsValid
<1>12. CASE Int13
  BY <1>12 DEF Int13
<1>13. CASE Int13Fails
  BY <1>13 DEF Int13Fails
<1>14. CASE DisableInterrupts
  BY <1>14 DEF DisableInterrupts
<1>15. CASE EnterProtectedMode
  BY <1>15 DEF EnterProtectedMode
<1>16. CASE UNCHANGED ioVars
  BY <1>16 DEF ioVars, ArgumentsValid
<1>17. QED
  BY <1>1, <1>2, <1>3, <1>4, <1>5, <1>6, <1>7, <1>8, <1>9, <1>10, <1>11, <1>12, <1>13, <1>14,
     <1>15, <1>16 DEF IoNext

\* A paragraph address and its remainder.
LEMMA SegmentOffset ==
  ASSUME NEW a \in Nat
  PROVE  /\ a \div 16 \in Nat /\ a % 16 \in 0..15
         /\ (a \div 16) * 16 + (a % 16) = a
<1>1. a \div 16 \in Int /\ a % 16 \in 0..15
  OBVIOUS
<1>2. a = 16 * (a \div 16) + (a % 16)
  BY SMT
<1>3. a \div 16 >= 0
  BY <1>1, <1>2
<1>4. (a \div 16) * 16 = 16 * (a \div 16)
  BY <1>1
<1>5. QED
  BY <1>1, <1>2, <1>3, <1>4

\* Whatever bios_block_read or bios_block_write is asked, by the bounced read or
\* directly: INT 13h sees a packet inside one segment and below 1 MiB that names
\* the caller's buffer, and interrupts are on only in real mode.
THEOREM ThunkIsSound ==
  IoSpec => []ThunkSound
<1>1. ASSUME ThunkInv
      PROVE  ThunkSound
  <2>1. ASSUME io = "int13"
        PROVE  /\ dap.segment * 16 + dap.offset = buffer
               /\ dap.segment < 65536
               /\ dap.offset + dap.count * SectorSize <= SegmentBytes
               /\ buffer + dap.count * SectorSize <= LowMemory
    <3>1. ArgumentsValid /\ buffer \in Nat /\ dap.count = count
          /\ dap.segment = buffer \div 16 /\ dap.offset = buffer % 16
      BY <1>1, <2>1 DEF ThunkInv, PacketFilled, IoTypeOK
    <3>2. count * SectorSize \in Nat /\ count * SectorSize <= 127 * SectorSize
      BY <3>1, BlockIOAssumption DEF ArgumentsValid
    <3>3. QED
      BY <3>1, <3>2, SegmentOffset, BlockIOAssumption DEF ArgumentsValid
  <2>2. InterruptsOnlyReal
    BY <1>1 DEF ThunkInv, ModeInStep, InterruptsOnlyReal
  <2>3. QED
    BY <2>1, <2>2 DEF ThunkSound, PacketInSegment
<1>2. QED
  BY <1>1, ThunkInitInv, ThunkNextInv, PTL DEF IoSpec

\* The bounced read under way has delivered the sectors before lba, and asks the
\* thunk for the next piece.
DeliveredSoFar ==
  (io # "idle" /\ call # NoCall) =>
    /\ remaining <= call.sector_count
    /\ lba = call.lba + (call.sector_count - remaining)
    /\ destination = SectorRun(call.lba, call.sector_count - remaining)

AsksForPiece ==
  (io \notin {"idle", "loop"} /\ call # NoCall) =>
    operation = "read" /\ count = Chunk /\ buffer = BounceAddr

\* When INT 13h has succeeded the bounce buffer holds that piece.
PieceInBounce ==
  (io \in {"cli", "resume", "returned"} /\ call # NoCall /\ bios_status = 0) =>
    bounce = SectorRun(lba, Chunk)

ReadInv ==
  /\ ThunkInv
  /\ io # "idle" => io_result = "none"
  /\ DeliveredSoFar
  /\ AsksForPiece
  /\ PieceInBounce
  /\ ReadDelivers

\* Two runs of sectors that meet make one.
LEMMA RunsJoin ==
  ASSUME NEW a \in Nat, NEW d \in Nat, NEW n \in Nat
  PROVE  SectorRun(a, d) \o SubSeq(SectorRun(a + d, n), 1, n) = SectorRun(a, d + n)
<1> DEFINE s == SectorRun(a, d)
           t == SectorRun(a + d, n)
<1>1. s \in Seq(Int) /\ Len(s) = d /\ \A k \in 1..d : s[k] = a + k - 1
  BY DEF SectorRun
<1>2. t \in Seq(Int) /\ Len(t) = n /\ \A k \in 1..n : t[k] = a + d + k - 1
  BY DEF SectorRun
<1> HIDE DEF s, t
<1>3. /\ SubSeq(t, 1, n) \in Seq(Int) /\ Len(SubSeq(t, 1, n)) = n
      /\ \A k \in 1..n : SubSeq(t, 1, n)[k] = a + d + k - 1
  BY <1>2
<1> DEFINE u == SubSeq(t, 1, n)
           r == SectorRun(a, d + n)
<1> HIDE DEF u
<1>4. /\ s \o u \in Seq(Int) /\ Len(s \o u) = d + n
      /\ \A k \in 1 .. d + n : (s \o u)[k] = IF k <= d THEN s[k] ELSE u[k - d]
  <2>1. u \in Seq(Int) /\ Len(u) = n
    BY <1>3 DEF u
  <2>2. QED
    BY <1>1, <2>1, ConcatProperties
<1>5. r \in Seq(Int) /\ Len(r) = d + n /\ \A k \in 1 .. d + n : r[k] = a + k - 1
  BY DEF SectorRun
<1>6. ASSUME NEW k \in 1 .. d + n
      PROVE  (s \o u)[k] = r[k]
  <2>1. CASE k <= d
    BY <1>1, <1>4, <1>5, <2>1
  <2>2. CASE ~(k <= d)
    <3>1. k - d \in 1..n
      BY <2>2
    <3>2. u[k - d] = a + d + (k - d) - 1
      BY <1>3, <3>1 DEF u
    <3>3. (s \o u)[k] = u[k - d]
      BY <1>4, <2>2
    <3>4. r[k] = a + k - 1
      BY <1>5
    <3>5. a + d + (k - d) - 1 = a + k - 1
      OBVIOUS
    <3>6. QED
      BY <3>2, <3>3, <3>4, <3>5
  <2>3. QED
    BY <2>1, <2>2
<1> HIDE DEF r
<1>7. s \o u = r
  BY <1>4, <1>5, <1>6, SeqEqual
<1>8. QED
  BY <1>7 DEF s, t, u, r

LEMMA ReadInitInv ==
  IoInit => ReadInv
BY ThunkInitInv DEF IoInit, ReadInv, DeliveredSoFar, AsksForPiece, PieceInBounce, ReadDelivers

LEMMA ReadBouncedInv ==
  ASSUME ReadInv, NEW first \in Lbas, NEW n \in ReadCounts, ReadBounced(first, n), ThunkInv'
  PROVE  ReadInv'
<1>1. first \in Nat /\ n \in Nat
  BY BlockIOAssumption
<1>2. SectorRun(first, 0) = <<>>
  BY <1>1 DEF SectorRun
<1>3. QED
  BY <1>1, <1>2 DEF ReadBounced, ReadInv, DeliveredSoFar, AsksForPiece, PieceInBounce,
     ReadDelivers

LEMMA CopyChunkInv ==
  ASSUME ReadInv, CopyChunk, ThunkInv'
  PROVE  ReadInv'
<1> DEFINE delivered == call.sector_count - remaining
<1>1. /\ remaining \in Nat /\ call.lba \in Nat /\ call.sector_count \in Nat
      /\ Chunk \in Nat /\ Chunk <= remaining
  BY ChunkBounds DEF ReadInv, ThunkInv, IoTypeOK
<1>2. /\ delivered \in Nat /\ lba = call.lba + delivered
      /\ destination = SectorRun(call.lba, delivered)
      /\ bounce = SectorRun(lba, Chunk)
  BY <1>1 DEF CopyChunk, ReadInv, DeliveredSoFar, PieceInBounce
<1>3. destination' = SectorRun(call.lba, delivered + Chunk)
  BY <1>1, <1>2, RunsJoin DEF CopyChunk
<1>4. /\ remaining' <= call.sector_count
      /\ lba' = call.lba + (call.sector_count - remaining')
      /\ call.sector_count - remaining' = delivered + Chunk
  <2>1. lba' = lba + Chunk /\ remaining' = remaining - Chunk
    BY DEF CopyChunk, NextLba
  <2>2. QED
    BY <1>1, <1>2, <2>1
<1>5. DeliveredSoFar'
  BY <1>3, <1>4 DEF CopyChunk, DeliveredSoFar, SectorRun
<1>6. QED
  BY <1>5 DEF CopyChunk, ReadInv, AsksForPiece, PieceInBounce, ReadDelivers

LEMMA ReadDoneInv ==
  ASSUME ReadInv, ReadDone, ThunkInv'
  PROVE  ReadInv'
<1>1. call.sector_count - remaining = call.sector_count
  BY DEF ReadDone, ReadInv, ThunkInv, IoTypeOK
<1>2. ReadDelivers'
  BY <1>1 DEF ReadDone, Returns, readVars, ReadInv, DeliveredSoFar, ReadDelivers, SectorRun
<1>3. QED
  BY <1>2 DEF ReadDone, Returns, ReadInv, DeliveredSoFar, AsksForPiece, PieceInBounce

LEMMA Int13Inv ==
  ASSUME ReadInv, Int13, ThunkInv'
  PROVE  ReadInv'
<1>1. dap.lba = lba /\ dap.count = count
  BY DEF Int13, ReadInv, ThunkInv, PacketFilled
<1>2. PieceInBounce'
  BY <1>1 DEF Int13, ReadInv, AsksForPiece, PieceInBounce, readVars, Chunk, SectorRun
<1>3. QED
  BY <1>2 DEF Int13, ReadInv, DeliveredSoFar, AsksForPiece, ReadDelivers, readVars, thunkVars,
     Chunk, SectorRun

LEMMA ReadNextInv ==
  ASSUME ReadInv, [IoNext]_ioVars
  PROVE  ReadInv'
<1> USE DEF ReadInv, DeliveredSoFar, AsksForPiece, PieceInBounce, ReadDelivers,
            readVars, thunkVars, Chunk, SectorRun
<1>0. ThunkInv'
  BY ThunkNextInv
<1>1. ASSUME NEW first \in Lbas, NEW n \in ReadCounts, ReadBounced(first, n)
      PROVE  ReadInv'
  BY <1>0, <1>1, ReadBouncedInv
<1>2. CASE ReadChunk
  BY <1>0, <1>2 DEF ReadChunk
<1>3. CASE CopyChunk
  BY <1>0, <1>3, CopyChunkInv
<1>4. CASE ReadFails
  BY <1>0, <1>4 DEF ReadFails, Returns
<1>5. CASE ReadDone
  BY <1>0, <1>5, ReadDoneInv
<1>6. ASSUME NEW op \in {"read", "write"}, NEW n \in Counts, NEW b \in Buffers, Direct(op, n, b)
      PROVE  ReadInv'
  BY <1>0, <1>6 DEF Direct
<1>7. CASE DirectDone
  BY <1>0, <1>7 DEF DirectDone, Returns
<1>8. CASE ArgumentError
  BY <1>0, <1>8 DEF ArgumentError, Returns
<1>9. CASE FillPacket
  BY <1>0, <1>9 DEF FillPacket
<1>10. CASE LeaveProtectedMode
  BY <1>0, <1>10 DEF LeaveProtectedMode
<1>11. CASE EnableInterrupts
  BY <1>0, <1>11 DEF EnableInterrupts
<1>12. CASE Int13
  BY <1>0, <1>12, Int13Inv
<1>13. CASE Int13Fails
  BY <1>0, <1>13 DEF Int13Fails
<1>14. CASE DisableInterrupts
  BY <1>0, <1>14 DEF DisableInterrupts
<1>15. CASE EnterProtectedMode
  BY <1>0, <1>15 DEF EnterProtectedMode
<1>16. CASE UNCHANGED ioVars
  BY <1>0, <1>16 DEF ioVars
<1>17. QED
  BY <1>1, <1>2, <1>3, <1>4, <1>5, <1>6, <1>7, <1>8, <1>9, <1>10, <1>11, <1>12, <1>13, <1>14,
     <1>15, <1>16 DEF IoNext

\* A bounced read of any length that reports success has delivered exactly the
\* sectors asked for, in order, whatever pieces of the bounce buffer it took
\* and whatever calls, failed or direct, came before.
THEOREM ReadsDeliver ==
  IoSpec => []ReadDelivers
<1>1. ReadInv => ReadDelivers
  BY DEF ReadInv
<1>2. QED
  BY <1>1, ReadInitInv, ReadNextInv, PTL DEF IoSpec

-----------------------------------------------------------------------------
(* The configuration parser. *)

\* What the loader keeps of a value.
Stored(f, v) == IF f = "flags" THEN Range(v) ELSE v

\* The lines for the fields in S have been taken, each as it is written, and
\* there were no others.
LinesTaken(S) ==
  \A f \in Fields :
    IF f \in S
    THEN \E v : Given(f) = {v} /\ Acceptable(f, v) /\ config[f] = Stored(f, v)
    ELSE Given(f) = {} /\ config[f] = Absent

\* The value being read is what its digits or tokens say so far.
ValueSoFar ==
  /\ key \in Numbers => number = spelled
  /\ key = "flags" => /\ flags = Range(text) /\ IsInjective(text)
                      /\ flags \subseteq {"recovery", "development"}

ParseTypeOK ==
  /\ parse \in {"start", "line", "value", "done"}
  /\ seen \subseteq Fields
  /\ config \in [Fields -> {config[f] : f \in Fields}]
  /\ key \in Fields \cup {"none"}
  /\ text \in Seq(Digits \cup Tokens)
  /\ number \in 0..UMax
  /\ spelled \in Nat
  /\ \A g \in given : g[1] \in Fields

ParseInv ==
  /\ ParseTypeOK
  /\ parse # "done" => verdict = "none"
  /\ parse = "start" => seen = {}
  /\ parse \in {"start", "line"} =>
       /\ key = "none" /\ text = <<>> /\ number = 0 /\ spelled = 0 /\ flags = {}
       /\ LinesTaken(seen)
  /\ parse = "value" => key \in seen /\ ValueSoFar /\ LinesTaken(seen \ {key})
  /\ verdict = "ok" =>
       LinesTaken(seen) /\ Required \subseteq seen /\ config["default"] = config["entry"]
  /\ (key = "none" /\ verdict \in {"missing_required", "invalid_value"}) =>
       /\ LinesTaken(seen)
       /\ ~(Required \subseteq seen) \/ config["default"] # config["entry"]
  /\ RefusesOnlyUnsound

LEMMA FieldNames ==
  /\ Required \subseteq Fields /\ "none" \notin Fields
  /\ Numbers = {"version", "timeout"} /\ Numbers \subseteq Fields /\ "flags" \in Fields
BY DEF Required, Fields, Paths, Names, Numbers

\* The test before the multiplication: what passes it does not wrap, what does
\* not is too large.
LEMMA FitsExact ==
  ASSUME NEW n \in 0..UMax, NEW d \in 0..9
  PROVE  /\ ~(n <= (UMax - d) \div 10) => ~(n * 10 + d <= UMax)
         /\ n <= (UMax - d) \div 10 => (n * 10 + d) % (UMax + 1) = n * 10 + d
         /\ (n * 10 + d) % (UMax + 1) \in 0..UMax
<1>1. UMax \in Nat
  BY BootConfigAssumption
<1>2. n <= (UMax - d) \div 10 => n * 10 + d <= UMax
  BY <1>1
<1>3. ~(n <= (UMax - d) \div 10) => ~(n * 10 + d <= UMax)
  BY <1>1
<1>4. QED
  BY <1>1, <1>2, <1>3

LEMMA AppendToken ==
  ASSUME NEW s \in Seq(Digits \cup Tokens), NEW t \in Tokens
  PROVE  /\ Append(s, t) \in Seq(Digits \cup Tokens)
         /\ Range(Append(s, t)) = Range(s) \cup {t}
         /\ IsInjective(s) /\ t \notin Range(s) => IsInjective(Append(s, t))
         /\ t \in Range(s) => ~IsInjective(Append(s, t))
<1> DEFINE u == Append(s, t)
<1>1. /\ u \in Seq(Digits \cup Tokens) /\ DOMAIN u = 1..Len(s) + 1 /\ DOMAIN s = 1..Len(s)
      /\ u[Len(s) + 1] = t /\ \A i \in 1..Len(s) : u[i] = s[i]
      /\ Len(s) \in Nat
  OBVIOUS
<1> HIDE DEF u
<1>2. Range(u) = Range(s) \cup {t}
  <2>1. Range(u) \subseteq Range(s) \cup {t}
    BY <1>1 DEF Range
  <2>2. Range(s) \subseteq Range(u) /\ t \in Range(u)
    BY <1>1 DEF Range
  <2>3. QED
    BY <2>1, <2>2
<1>3. ASSUME IsInjective(s), t \notin Range(s)
      PROVE  IsInjective(u)
  <2>1. SUFFICES ASSUME NEW a \in DOMAIN u, NEW b \in DOMAIN u, u[a] = u[b]
                 PROVE  a = b
    BY DEF IsInjective
  <2>2. \A i \in 1..Len(s) : s[i] # t
    BY <1>1, <1>3 DEF Range
  <2>3. CASE a \in 1..Len(s) /\ b \in 1..Len(s)
    BY <1>1, <1>3, <2>1, <2>3 DEF IsInjective
  <2>4. CASE ~(a \in 1..Len(s) /\ b \in 1..Len(s))
    BY <1>1, <2>1, <2>2, <2>4
  <2>5. QED
    BY <2>3, <2>4
<1>4. ASSUME t \in Range(s)
      PROVE  ~IsInjective(u)
  <2>1. PICK i \in 1..Len(s) : s[i] = t
    BY <1>1, <1>4 DEF Range
  <2>2. i \in DOMAIN u /\ Len(s) + 1 \in DOMAIN u /\ i # Len(s) + 1 /\ u[i] = u[Len(s) + 1]
    BY <1>1, <2>1
  <2>3. QED
    BY <2>2 DEF IsInjective
<1>5. QED
  BY <1>1, <1>2, <1>3, <1>4 DEF u

LEMMA ParseInitInv ==
  ParseInit => ParseInv
<1>1. SUFFICES ASSUME ParseInit PROVE ParseInv
  OBVIOUS
<1>2. LinesTaken(seen)
  BY <1>1 DEF ParseInit, LinesTaken, Given
<1>3. ParseTypeOK
  <2>1. UMax \in Nat
    BY BootConfigAssumption
  <2>2. <<>> \in Seq(Digits \cup Tokens)
    OBVIOUS
  <2>3. config \in [Fields -> {config[f] : f \in Fields}]
    BY <1>1 DEF ParseInit
  <2>4. QED
    BY <1>1, <2>1, <2>2, <2>3 DEF ParseInit, ParseTypeOK
<1>4. QED
  BY <1>1, <1>2, <1>3 DEF ParseInit, ParseInv, RefusesOnlyUnsound

\* A file that is turned down, but not at its end.
LEMMA RefusedInv ==
  ASSUME ParseInv, parse' = "done", ParseTypeOK',
         verdict' \notin {"ok"},
         key' # "none" \/ verdict' \notin {"missing_required", "invalid_value"},
         RefusesOnlyUnsound'
  PROVE  ParseInv'
BY DEF ParseInv

\* Between two lines.
LEMMA StopInv ==
  ASSUME ParseInv, NEW s, Stop(s), s # "ok", parse \in {"start", "line"},
         s \notin {"missing_required", "invalid_value"}
  PROVE  ParseInv'
<1>1. ParseTypeOK'
  BY DEF Stop, Judge, ParseInv, ParseTypeOK
<1>2. RefusesOnlyUnsound'
  BY DEF Stop, ParseInv, RefusesOnlyUnsound
<1>3. QED
  BY <1>1, <1>2, RefusedInv DEF Stop, Judge

\* For a value that may not stand in any file.
LEMMA UnsoundInv ==
  ASSUME ParseInv, parse = "value", NEW v, ~Acceptable(key, v), Says(v), UNCHANGED key,
         parse' = "done", verdict' \notin {"ok", "duplicate_key"}, ParseTypeOK'
  PROVE  ParseInv'
<1>1. key \in Fields /\ key' = key
  BY DEF ParseInv, ParseTypeOK
<1>2. <<key, v>> \in given' /\ <<key, v>>[1] = key /\ <<key, v>>[2] = v
  BY DEF Says
<1>3. v \in Given(key)'
  BY <1>1, <1>2 DEF Given
<1>4. ~Acceptable(key, v)'
  BY <1>1 DEF Acceptable
<1>5. RefusesOnlyUnsound'
  BY <1>3, <1>4 DEF RefusesOnlyUnsound
<1>6. QED
  BY <1>1, <1>5, RefusedInv, FieldNames

\* A value that is acceptable by itself is taken.
LEMMA TakeInv ==
  ASSUME ParseInv, parse = "value", NEW v, NEW w, Take(w), w = Stored(key, v), Acceptable(key, v),
         Says(v), UNCHANGED seen
  PROVE  ParseInv'
<1>0. given' = given \cup {<<key, v>>}
  BY DEF Says
<1>1. /\ config' = [config EXCEPT ![key] = w] /\ parse' = "line" /\ key' = "none"
      /\ text' = <<>> /\ number' = 0 /\ flags' = {} /\ spelled' = 0 /\ verdict' = verdict
  BY DEF Take, Destination
<1>2. key \in seen /\ key \in Fields /\ LinesTaken(seen \ {key}) /\ DOMAIN config = Fields
      /\ verdict = "none" /\ seen \subseteq Fields
  BY DEF ParseInv, ParseTypeOK
<1>3. ASSUME NEW f \in Fields, f # key
      PROVE  Given(f)' = Given(f) /\ config'[f] = config[f]
  BY <1>0, <1>1, <1>2, <1>3 DEF Given
<1>4. Given(key) = {}
  BY <1>2 DEF LinesTaken
<1>5. {g[2] : g \in {h \in given' : h[1] = key}} = {v} /\ config'[key] = w
  <2>1. \A h \in given : h[1] # key
    BY <1>4 DEF Given
  <2>2. {h \in given' : h[1] = key} = {<<key, v>>}
    BY <1>0, <2>1
  <2>3. <<key, v>>[2] = v
    OBVIOUS
  <2>4. {g[2] : g \in {<<key, v>>}} = {v}
    BY <2>3
  <2>5. config'[key] = w
    BY <1>1, <1>2
  <2>6. QED
    BY <2>2, <2>4, <2>5
<1>6. LinesTaken(seen)'
  <2>1. SUFFICES ASSUME NEW f \in Fields
                 PROVE  IF f \in seen
                        THEN \E x : Given(f)' = {x} /\ Acceptable(f, x) /\ config'[f] = Stored(f, x)
                        ELSE Given(f)' = {} /\ config'[f] = Absent
    BY DEF LinesTaken, Acceptable, Stored
  <2>2. CASE f = key
    BY <1>2, <1>5, <2>2 DEF Given
  <2>3. CASE f # key
    BY <1>2, <1>3, <2>3 DEF LinesTaken
  <2>4. QED
    BY <2>2, <2>3
<1>7. ParseTypeOK'
  <2>1. config' \in [Fields -> {config'[f] : f \in Fields}]
    BY <1>1, <1>2 DEF ParseInv, ParseTypeOK
  <2>2. 0 \in 0..UMax /\ 0 \in Nat /\ <<>> \in Seq(Digits \cup Tokens)
    BY BootConfigAssumption
  <2>3. \A g \in given' : g[1] \in Fields
    BY <1>0, <1>2 DEF ParseInv, ParseTypeOK
  <2>4. QED
    BY <1>1, <1>2, <2>1, <2>2, <2>3 DEF ParseTypeOK
<1>8. QED
  BY <1>1, <1>2, <1>6, <1>7 DEF ParseInv, RefusesOnlyUnsound

LEMMA RefuseInv ==
  ASSUME ParseInv, parse = "value", NEW v, NEW s, Refuse(s), s \notin {"ok", "duplicate_key"},
         ~Acceptable(key, v), Says(v), UNCHANGED seen
  PROVE  ParseInv'
<1>1. key \in Fields
  BY DEF ParseInv, ParseTypeOK
<1>2. ParseTypeOK'
  BY <1>1 DEF Refuse, Judge, Says, ParseInv, ParseTypeOK
<1>3. QED
  BY <1>2, UnsoundInv DEF Refuse, Judge

LEMMA KeyLineInv ==
  ASSUME ParseInv, NEW f \in Fields, KeyLine(f)
  PROVE  ParseInv'
<1>1. ParseTypeOK'
  BY DEF KeyLine, Judge, ParseInv, ParseTypeOK
<1>2. CASE f \in seen
  <2>1. /\ parse = "line" /\ parse' = "done" /\ key' = f /\ verdict' = "duplicate_key"
        /\ UNCHANGED given
    BY <1>2 DEF KeyLine, Judge
  <2>2. Given(f) # {}
    BY <1>2, <2>1 DEF ParseInv, LinesTaken
  <2>3. Given(key)' # {}
    BY <2>1, <2>2 DEF Given
  <2>4. RefusesOnlyUnsound'
    BY <2>1, <2>3 DEF RefusesOnlyUnsound
  <2>5. QED
    BY <1>1, <2>1, <2>4, RefusedInv
<1>3. CASE f \notin seen
  <2>1. /\ parse = "line" /\ parse' = "value" /\ key' = f /\ seen' = seen \cup {f}
        /\ UNCHANGED <<config, text, number, flags, spelled, given, verdict>>
    BY <1>3 DEF KeyLine
  <2>2. LinesTaken(seen) /\ text = <<>> /\ number = 0 /\ spelled = 0 /\ flags = {}
        /\ verdict = "none"
    BY <2>1 DEF ParseInv
  <2>3. LinesTaken(seen \ {key})'
    <3>1. seen' \ {key'} = seen
      BY <1>3, <2>1
    <3>2. \A x : Given(x)' = Given(x)
      BY <2>1 DEF Given
    <3>3. QED
      BY <2>1, <2>2, <3>1, <3>2 DEF LinesTaken, Acceptable, Stored
  <2>4. ValueSoFar'
    BY <2>1, <2>2 DEF ValueSoFar, Range, IsInjective
  <2>5. QED
    BY <1>1, <2>1, <2>2, <2>3, <2>4 DEF ParseInv, RefusesOnlyUnsound
<1>4. QED
  BY <1>2, <1>3

LEMMA DigitInv ==
  ASSUME ParseInv, NEW d \in Digits, Digit(d)
  PROVE  ParseInv'
<1>1. /\ parse = "value" /\ key \in Numbers /\ key \in Fields /\ key \in seen
      /\ number \in 0..UMax /\ number = spelled /\ LinesTaken(seen \ {key})
      /\ text \in Seq(Digits \cup Tokens) /\ verdict = "none"
  BY FieldNames DEF Digit, ParseInv, ParseTypeOK, ValueSoFar
<1>2. /\ text' = Append(text, d) /\ number' = (number * 10 + d) % (UMax + 1)
      /\ spelled' = spelled * 10 + d /\ UNCHANGED <<seen, config, key, flags>>
      /\ IF Fits(d) THEN UNCHANGED given ELSE Says(spelled')
  BY DEF Digit
<1>3. d \in 0..9
  BY BootConfigAssumption
<1>4. number' \in 0..UMax /\ spelled' \in Nat /\ (Fits(d) => number' = spelled')
  <2>1. number' \in 0..UMax
    BY <1>1, <1>2, <1>3, FitsExact
  <2>2. number \in Nat /\ d \in Nat
    BY <1>1, <1>3, BootConfigAssumption
  <2>3. spelled' = number * 10 + d /\ spelled' \in Nat
    BY <1>1, <1>2, <2>2
  <2>4. Fits(d) => number' = number * 10 + d
    BY <1>1, <1>2, <1>3, FitsExact DEF Fits
  <2>5. QED
    BY <2>1, <2>3, <2>4
<1>g. \A g \in given' : g[1] \in Fields
  BY <1>1, <1>2 DEF Says, ParseInv, ParseTypeOK
<1>5. parse' \in {"value", "done"} /\ (parse' = "done" <=> ~Fits(d))
      /\ verdict' = IF Fits(d) THEN "none" ELSE "invalid_value"
  BY <1>1 DEF Digit, Judge
<1>6. ParseTypeOK'
  BY <1>1, <1>2, <1>4, <1>5, <1>g DEF ParseInv, ParseTypeOK
<1>7. CASE ~Fits(d)
  <2>1. ~(spelled' <= UMax)
    BY <1>1, <1>2, <1>3, <1>7, FitsExact DEF Fits
  <2>2. spelled' # 1
    BY <1>4, <2>1, BootConfigAssumption
  <2>3. ~Acceptable(key, spelled')
    BY <1>1, <2>1, <2>2, FieldNames DEF Acceptable
  <2>4. QED
    BY <1>1, <1>2, <1>5, <1>6, <1>7, <2>3, UnsoundInv
<1>8. CASE Fits(d)
  <2>1. LinesTaken(seen \ {key})'
    BY <1>1, <1>2, <1>8 DEF LinesTaken, Given, Acceptable, Stored
  <2>2. ValueSoFar'
    BY <1>1, <1>2, <1>4, <1>8, FieldNames DEF ValueSoFar
  <2>3. QED
    BY <1>1, <1>2, <1>5, <1>6, <1>8, <2>1, <2>2 DEF ParseInv, RefusesOnlyUnsound
<1>9. QED
  BY <1>7, <1>8

LEMMA TokenInv ==
  ASSUME ParseInv, NEW t \in Tokens, Token(t)
  PROVE  ParseInv'
<1>1. /\ parse = "value" /\ key = "flags" /\ key \in seen
      /\ flags = Range(text) /\ IsInjective(text) /\ flags \subseteq {"recovery", "development"}
      /\ LinesTaken(seen \ {key}) /\ text \in Seq(Digits \cup Tokens) /\ verdict = "none"
  BY DEF Token, ParseInv, ParseTypeOK, ValueSoFar
<1>2. /\ text' = Append(text, t) /\ flags' = flags \cup {t}
      /\ UNCHANGED <<seen, config, key, number, spelled>>
      /\ IF TokenRefused(t) THEN parse' = "done" /\ verdict' = "invalid_value" /\ Says(text')
         ELSE UNCHANGED <<parse, verdict, given>>
  BY DEF Token, Judge
<1>3. /\ text' \in Seq(Digits \cup Tokens) /\ Range(text') = flags'
      /\ t \notin flags => IsInjective(text')
      /\ t \in flags => ~IsInjective(text')
  BY <1>1, <1>2, AppendToken
<1>g. key \in Fields /\ \A g \in given' : g[1] \in Fields
  BY <1>1, <1>2, FieldNames DEF Says, ParseInv, ParseTypeOK
<1>4. ParseTypeOK'
  BY <1>1, <1>2, <1>3, <1>g DEF ParseInv, ParseTypeOK
<1>5. CASE TokenRefused(t)
  <2>1. ~IsInjective(text') \/ ~(Range(text') \subseteq {"recovery", "development"})
    BY <1>2, <1>3, <1>5 DEF TokenRefused
  <2>2. ~Acceptable(key, text')
    BY <1>1, <2>1 DEF Acceptable
  <2>3. QED
    BY <1>1, <1>2, <1>4, <1>5, <2>2, UnsoundInv
<1>6. CASE ~TokenRefused(t)
  <2>1. LinesTaken(seen \ {key})'
    BY <1>1, <1>2, <1>6 DEF LinesTaken, Given, Acceptable, Stored
  <2>2. t \in {"recovery", "development"} /\ t \notin flags
    BY <1>6 DEF TokenRefused, Tokens
  <2>3. ValueSoFar'
    BY <1>1, <1>2, <1>3, <2>2 DEF ValueSoFar, Numbers
  <2>4. QED
    BY <1>1, <1>2, <1>4, <1>6, <2>1, <2>3 DEF ParseInv, RefusesOnlyUnsound
<1>7. QED
  BY <1>5, <1>6

LEMMA EndOfFileInv ==
  ASSUME ParseInv, EndOfFile
  PROVE  ParseInv'
<1>1. parse = "line" /\ LinesTaken(seen) /\ key = "none"
  BY DEF EndOfFile, ParseInv
<1>2. /\ UNCHANGED <<seen, config, key, text, number, flags, spelled, given>>
      /\ parse' = "done"
      /\ verdict' = IF ~(Required \subseteq seen) THEN "missing_required"
                    ELSE IF config["default"] # config["entry"] THEN "invalid_value" ELSE "ok"
  BY DEF EndOfFile, Stop, Judge
<1>3. LinesTaken(seen)'
  BY <1>1, <1>2 DEF LinesTaken, Given, Acceptable, Stored
<1>4. ParseTypeOK'
  BY <1>2 DEF ParseInv, ParseTypeOK
<1>5. QED
  BY <1>1, <1>2, <1>3, <1>4 DEF ParseInv, RefusesOnlyUnsound

LEMMA ParseNextInv ==
  ASSUME ParseInv, [ParseNext]_parseVars
  PROVE  ParseInv'
<1>1. CASE WrongSize
  BY <1>1, StopInv DEF WrongSize
<1>2. CASE Begin
  <2>1. parse = "start" /\ parse' = "line"
        /\ UNCHANGED <<seen, config, key, text, number, flags, verdict, spelled, given>>
    BY <1>2 DEF Begin
  <2>2. LinesTaken(seen)'
    BY <2>1 DEF ParseInv, LinesTaken, Given, Acceptable, Stored
  <2>3. ParseTypeOK'
    BY <2>1 DEF ParseInv, ParseTypeOK
  <2>4. QED
    BY <2>1, <2>2, <2>3 DEF ParseInv, RefusesOnlyUnsound
<1>3. CASE ForeignLine
  <2>1. parse = "line" /\ \E s \in {"syntax", "unknown_key", "unsupported_feature"} : Stop(s)
    BY <1>3 DEF ForeignLine
  <2>2. QED
    BY <2>1, StopInv
<1>4. ASSUME NEW f \in Fields, KeyLine(f)
      PROVE  ParseInv'
  BY <1>4, KeyLineInv
<1>5. ASSUME NEW v \in Texts(key), TextValue(v)
      PROVE  ParseInv'
  <2>1. parse = "value" /\ key \notin Numbers \cup {"flags"} /\ Says(v) /\ UNCHANGED seen
    BY <1>5 DEF TextValue
  <2>2. CASE v = "bad"
    <3>1. Refuse("invalid_value") /\ ~Acceptable(key, v)
      BY <1>5, <2>1, <2>2 DEF TextValue, Acceptable, Numbers
    <3>2. QED
      BY <2>1, <3>1, RefuseInv
  <2>3. CASE v # "bad"
    <3>1. Take(v)
      BY <1>5, <2>3 DEF TextValue
    <3>2. Acceptable(key, v) /\ v = Stored(key, v)
      BY <2>1, <2>3 DEF Acceptable, Stored, Numbers
    <3>3. QED
      BY <2>1, <3>1, <3>2, TakeInv
  <2>4. QED
    BY <2>2, <2>3
<1>6. ASSUME NEW d \in Digits, Digit(d)
      PROVE  ParseInv'
  BY <1>6, DigitInv
<1>7. CASE NotANumber
  <2>1. parse = "value" /\ key \in {"version", "timeout"} /\ Says(NoNumber)
        /\ Refuse("invalid_value") /\ UNCHANGED seen
    BY <1>7 DEF NotANumber, Numbers
  <2>2. ~Acceptable(key, NoNumber)
    BY <2>1, BootConfigAssumption DEF Acceptable, NoNumber
  <2>3. QED
    BY <2>1, <2>2, RefuseInv
<1>8. CASE NumberEnds
  <2>1. parse = "value" /\ key \in {"version", "timeout"} /\ Says(spelled)
        /\ UNCHANGED seen /\ number = spelled /\ number \in 0..UMax
    BY <1>8 DEF NumberEnds, ParseInv, ParseTypeOK, ValueSoFar, Numbers
  <2>2. /\ number > MaxTimeout <=> ~(number \in 0..MaxTimeout)
        /\ number <= UMax
    BY <2>1, BootConfigAssumption
  <2>3. CASE (key = "version" /\ number # 1) \/ (key = "timeout" /\ number > MaxTimeout)
    <3>1. \E s \in {"unsupported_version", "invalid_value"} : Refuse(s)
      BY <1>8, <2>3 DEF NumberEnds
    <3>2. ~Acceptable(key, spelled)
      BY <2>1, <2>2, <2>3 DEF Acceptable
    <3>3. QED
      BY <2>1, <3>1, <3>2, RefuseInv
  <2>4. CASE ~((key = "version" /\ number # 1) \/ (key = "timeout" /\ number > MaxTimeout))
    <3>1. Take(number)
      BY <1>8, <2>4 DEF NumberEnds
    <3>2. Acceptable(key, spelled) /\ number = Stored(key, spelled)
      BY <2>1, <2>2, <2>4 DEF Acceptable, Stored
    <3>3. parse = "value" /\ Says(spelled) /\ UNCHANGED seen
      BY <2>1
    <3>4. QED
      BY <3>1, <3>2, <3>3, TakeInv
  <2>5. QED
    BY <2>3, <2>4
<1>9. ASSUME NEW t \in Tokens, Token(t)
      PROVE  ParseInv'
  BY <1>9, TokenInv
<1>10. CASE FlagsEnd
  <2>1. parse = "value" /\ key = "flags" /\ Says(text) /\ Take(flags) /\ UNCHANGED seen
    BY <1>10 DEF FlagsEnd
  <2>2. Acceptable(key, text) /\ flags = Stored(key, text)
    BY <2>1 DEF ParseInv, ValueSoFar, Acceptable, Stored
  <2>3. QED
    BY <2>1, <2>2, TakeInv
<1>11. CASE EndOfFile
  BY <1>11, EndOfFileInv
<1>12. CASE UNCHANGED parseVars
  <2>1. UNCHANGED <<parse, seen, config, key, text, number, flags, verdict, spelled, given>>
    BY <1>12 DEF parseVars
  <2>2. \A S : LinesTaken(S)' = LinesTaken(S)
    BY <2>1 DEF LinesTaken, Given, Acceptable, Stored
  <2>3. ParseTypeOK' /\ ValueSoFar' = ValueSoFar
    BY <2>1 DEF ParseInv, ParseTypeOK, ValueSoFar
  <2>4. QED
    BY <2>1, <2>2, <2>3 DEF ParseInv, RefusesOnlyUnsound, Given, Acceptable
<1>13. CASE StrayComma
  <2> DEFINE u == Append(text, "empty")
  <2>1. parse = "value" /\ key = "flags" /\ Says(u) /\ Refuse("invalid_value") /\ UNCHANGED seen
    BY <1>13 DEF StrayComma
  <2>2. text \in Seq(Digits \cup Tokens)
    BY DEF ParseInv, ParseTypeOK
  <2>3. Len(text) + 1 \in DOMAIN u /\ u[Len(text) + 1] = "empty"
    BY <2>2
  <2> HIDE DEF u
  <2>4. ~Acceptable(key, u)
    BY <2>1, <2>3 DEF Acceptable, Range
  <2>5. QED
    BY <2>1, <2>4, RefuseInv
<1>14. QED
  BY <1>1, <1>2, <1>3, <1>4, <1>5, <1>6, <1>7, <1>8, <1>9, <1>10, <1>11, <1>12, <1>13 DEF ParseNext

LEMMA ParsedExactly ==
  ASSUME ParseInv
  PROVE  ParsesExactly
<1>1. Required = {"version", "default", "timeout", "entry", "name", "kernel"}
      /\ Required \subseteq Fields
  BY FieldNames DEF Required
<1>2. ASSUME LinesTaken(seen), NEW f \in Fields
      PROVE  /\ f \in seen <=> Given(f) # {}
             /\ \A v \in Given(f) : Acceptable(f, v) /\ config[f] = Stored(f, v)
             /\ Cardinality(Given(f)) <= 1
             /\ Given(f) = {} => config[f] = Absent
  <2>1. CASE f \in seen
    <3>1. PICK v : Given(f) = {v} /\ Acceptable(f, v) /\ config[f] = Stored(f, v)
      BY <1>2, <2>1 DEF LinesTaken
    <3>2. QED
      BY <2>1, <3>1, FS_Singleton
  <2>2. CASE f \notin seen
    BY <1>2, <2>2, FS_EmptySet DEF LinesTaken
  <2>3. QED
    BY <2>1, <2>2
<1>3. ASSUME LinesTaken(seen), Required \subseteq seen
      PROVE  Given("default") = Given("entry") <=> config["default"] = config["entry"]
  <2>1. "default" \in Fields /\ "entry" \in Fields /\ "default" \in seen /\ "entry" \in seen
    BY <1>1, <1>3
  <2>2. PICK v : Given("default") = {v} /\ config["default"] = v
    BY <1>3, <2>1 DEF LinesTaken, Stored
  <2>3. PICK w : Given("entry") = {w} /\ config["entry"] = w
    BY <1>3, <2>1 DEF LinesTaken, Stored
  <2>4. QED
    BY <2>2, <2>3
<1>4. FailsClosed
  <2>1. SUFFICES ASSUME verdict = "ok"
                 PROVE  /\ \A g \in given : Acceptable(g[1], g[2])
                        /\ \A f \in Fields : Cardinality(Given(f)) <= 1
                        /\ \A f \in Required : Given(f) # {}
                        /\ Given("default") = Given("entry")
    BY <1>1 DEF FailsClosed
  <2>2. LinesTaken(seen) /\ Required \subseteq seen /\ config["default"] = config["entry"]
    BY <2>1 DEF ParseInv
  <2>3. ASSUME NEW g \in given
        PROVE  Acceptable(g[1], g[2])
    <3>1. g[1] \in Fields /\ g[2] \in Given(g[1])
      BY DEF ParseInv, ParseTypeOK, Given
    <3>2. QED
      BY <1>2, <2>2, <3>1
  <2>4. QED
    BY <1>1, <1>2, <1>3, <2>2, <2>3
<1>5. HandedOn
  <2>1. SUFFICES ASSUME verdict = "ok", NEW f \in Fields
                 PROVE  IF Given(f) = {} THEN config[f] = Absent
                        ELSE \E v \in Given(f) : config[f] = Stored(f, v)
    BY DEF HandedOn, Stored
  <2>2. LinesTaken(seen)
    BY <2>1 DEF ParseInv
  <2>3. QED
    BY <1>2, <2>2
<1>6. AcceptsComplete
  <2>1. SUFFICES ASSUME key = "none", verdict \in {"missing_required", "invalid_value"}
                 PROVE  (\E f \in Required : Given(f) = {}) \/ Given("default") # Given("entry")
    BY <1>1 DEF AcceptsComplete
  <2>2. LinesTaken(seen) /\ (~(Required \subseteq seen) \/ config["default"] # config["entry"])
    BY <2>1 DEF ParseInv
  <2>3. QED
    BY <1>1, <1>2, <1>3, <2>2
<1>7. RefusesOnlyUnsound
  BY DEF ParseInv
<1>8. QED
  BY <1>4, <1>5, <1>6, <1>7 DEF ParsesExactly

\* josh_boot_config_parse, for every word size: of the files of known assignments
\* it accepts exactly the well-formed ones and hands on what they say, and no
\* line is turned down that might stand where it does.
THEOREM ParserIsExact ==
  ParseSpec => []ParsesExactly
<1>1. ParseSpec => []ParseInv
  BY ParseInitInv, ParseNextInv, PTL DEF ParseSpec
<1>2. ParseInv => ParsesExactly
  BY ParsedExactly
<1>3. QED
  BY <1>1, <1>2, PTL

-----------------------------------------------------------------------------
(* 64-bit division. *)

\* A quotient by w is twice the quotient by 2w and one bit more.
LEMMA HalfDiv ==
  ASSUME NEW a \in Nat, NEW w \in Nat \ {0}
  PROVE  /\ a \div w = 2 * (a \div (2 * w)) + ((a \div w) % 2)
         /\ (a \div w) % 2 \in {0, 1} /\ a \div (2 * w) \in Int
<1> DEFINE n == a \div w
           r == a % w
           h == n \div 2
           b == n % 2
<1>1. n \in Int /\ r \in 0 .. w - 1 /\ w * n \in Int /\ a = w * n + r
  BY DivMod
<1> HIDE DEF n, r
<1>2. h \in Int /\ b \in {0, 1} /\ n = 2 * h + b
  BY <1>1
<1> HIDE DEF h, b
<1>3. w * n = (2 * w) * h + w * b /\ (2 * w) * h \in Int /\ w * b \in Int
  <2>1. w * (2 * h + b) = w * (2 * h) + w * b /\ w * (2 * h) = (2 * w) * h
    BY <1>2, SMT
  <2>2. QED
    BY <1>2, <2>1
<1>4. w * b + r \in 0 .. 2 * w - 1
  <2>1. CASE b = 0
    BY <1>1, <2>1
  <2>2. CASE b = 1
    BY <1>1, <2>2
  <2>3. QED
    BY <1>2, <2>1, <2>2
<1>5. a = (2 * w) * h + (w * b + r)
  BY <1>1, <1>3
<1>6. a \div (2 * w) = h
  <2>1. 2 * w \in Nat \ {0}
    OBVIOUS
  <2>2. QED
    BY <1>2, <1>4, <1>5, <2>1, DivModUnique
<1>7. QED
  BY <1>2, <1>6 DEF n, h, b

\* Quotients keep the order of their numerators.
LEMMA DivBelow ==
  ASSUME NEW a \in Nat, NEW w \in Nat \ {0}, NEW k \in Nat, a < k * w
  PROVE  a \div w < k
<1> DEFINE q == a \div w
<1>1. q \in Int /\ w * q \in Int /\ w * q <= a /\ k * w \in Int
  BY DivMod
<1> HIDE DEF q
<1>2. q >= k => w * q >= k * w
  BY <1>1, SMT
<1>3. QED
  BY <1>1, <1>2 DEF q

DivideTypeOK ==
  /\ numerator \in Operands /\ denominator \in Operands
  /\ quotient \in Nat /\ rem \in Nat
  /\ turn \in 0..Width
  /\ done \in BOOLEAN

\* The loop's invariant: the numerator's leading bits are divided, the weights of
\* the bits read and of those left make up the word, and nothing is returned
\* before the last turn.
DivideInv ==
  /\ DivideTypeOK
  /\ Weight[turn] * Weight[Width - turn] = Modulus
  /\ PrefixDivided
  /\ denominator = 0 => quotient = 0 /\ rem = 0
  /\ done /\ denominator # 0 => turn = Width

LEMMA WeightType ==
  ASSUME NEW i \in 0..Width
  PROVE  Weight[i] \in Nat \ {0}
BY WidthAssumption

LEMMA DivideTypes ==
  ASSUME DivideInv
  PROVE  /\ numerator \in Nat /\ denominator \in Nat /\ numerator < Modulus
         /\ denominator < Modulus /\ Modulus \in Nat \ {0} /\ Width \in Nat
         /\ quotient \in Nat /\ rem \in Nat /\ turn \in 0..Width
<1>1. Width \in Nat /\ Modulus \in Nat \ {0}
  BY WidthAssumption DEF Modulus
<1>2. QED
  BY <1>1 DEF DivideInv, DivideTypeOK, Operands

LEMMA DivideInitInv ==
  DivideInit => DivideInv
<1>1. SUFFICES ASSUME DivideInit PROVE DivideInv
  OBVIOUS
<1>2. Width \in Nat /\ Modulus \in Nat \ {0} /\ Weight[0] = 1 /\ Weight[Width] = Modulus
  BY WidthAssumption DEF Modulus
<1>3. turn = 0 /\ quotient = 0 /\ rem = 0 /\ done = FALSE
  BY <1>1 DEF DivideInit, DivideStart
<1>4. DivideTypeOK
  <2>1. 0 \in Nat /\ 0 \in 0..Width
    BY <1>2
  <2>2. QED
    BY <1>1, <1>3, <2>1, Zenon DEF DivideInit, DivideTypeOK
<1>5. Width - turn = Width
  BY <1>2, <1>3
<1>6. PrefixDivided
  <2>1. numerator \in 0 .. Modulus - 1 /\ denominator \in Nat
    BY <1>1, <1>2 DEF DivideInit, Operands
  <2>2. numerator \div Modulus = 0
    BY <1>2, <2>1
  <2>3. 0 \div Modulus = 0 /\ 0 % Modulus = 0
    <3>1. 0 = Modulus * 0 + 0
      BY <1>2
    <3>2. QED
      BY <1>2, <3>1, DivModUnique
  <2>4. QED
    BY <1>2, <1>3, <1>5, <2>1, <2>2, <2>3 DEF PrefixDivided
<1>7. QED
  BY <1>2, <1>3, <1>4, <1>5, <1>6 DEF DivideInv

\* What the next turn looks at.
LEMMA NextBitIs ==
  ASSUME DivideInv, turn < Width
  PROVE  /\ Bit \in Nat \ {0} /\ Weight[Width - turn] = 2 * Bit
         /\ Weight[Width - (turn + 1)] = Bit
         /\ Weight[turn] \in Nat \ {0} /\ Weight[turn + 1] = 2 * Weight[turn]
         /\ Weight[turn + 1] * Bit = Modulus
         /\ NextBit \in {0, 1}
         /\ numerator \div Bit = 2 * (numerator \div (2 * Bit)) + NextBit
         /\ numerator \div (2 * Bit) < Weight[turn]
         /\ numerator \div (2 * Bit) \in Int
<1>1. turn \in Nat /\ Width \in Nat /\ numerator \in Nat /\ numerator < Modulus
  BY DivideTypes
<1> DEFINE i == Width - turn
           w == Weight[i - 1]
           v == Weight[turn]
<1>2. i \in 1..Width /\ i - 1 \in 0..Width /\ turn \in 0..Width /\ turn + 1 \in 1..Width
  BY <1>1
<1>3. Bit = w /\ Weight[Width - (turn + 1)] = w
  <2>1. Width - 1 - turn = i - 1 /\ Width - (turn + 1) = i - 1
    BY <1>1
  <2>2. QED
    BY <2>1 DEF Bit
<1>4. w \in Nat \ {0} /\ v \in Nat \ {0} /\ Weight[i] = 2 * w
  BY <1>2, WeightType, WidthAssumption
<1>5. Weight[turn + 1] = 2 * v
  <2>1. (turn + 1) - 1 = turn
    BY <1>1
  <2>2. QED
    BY <1>2, <2>1, WidthAssumption
<1>6. v * (2 * w) = Modulus
  BY <1>4 DEF DivideInv
<1> HIDE DEF i, w, v
<1>7. (2 * v) * w = Modulus
  BY <1>4, <1>6
<1>8. /\ numerator \div w = 2 * (numerator \div (2 * w)) + ((numerator \div w) % 2)
      /\ (numerator \div w) % 2 \in {0, 1} /\ numerator \div (2 * w) \in Int
  BY <1>1, <1>4, HalfDiv
<1>9. numerator \div (2 * w) < v
  <2>1. 2 * w \in Nat \ {0} /\ v \in Nat
    BY <1>4
  <2>2. QED
    BY <1>1, <1>6, <2>1, DivBelow
<1>10. QED
  BY <1>3, <1>4, <1>5, <1>7, <1>8, <1>9 DEF NextBit, i, v

\* The bit that a shift drops is 0.
LEMMA ShiftFits ==
  ASSUME DivideInv, turn < Width
  PROVE  /\ 2 * rem + NextBit < Modulus /\ 2 * rem + NextBit \in Nat
         /\ Shifted = 2 * rem + NextBit /\ ~Carry
<1>1. /\ Bit \in Nat \ {0} /\ Weight[Width - turn] = 2 * Bit
      /\ Weight[turn] \in Nat \ {0} /\ Weight[turn + 1] = 2 * Weight[turn]
      /\ Weight[turn + 1] * Bit = Modulus /\ NextBit \in {0, 1}
      /\ numerator \div (2 * Bit) < Weight[turn] /\ numerator \div (2 * Bit) \in Int
  BY NextBitIs
<1>2. rem \in Nat /\ denominator \in Nat /\ quotient \in Nat /\ Modulus \in Nat \ {0}
  BY DivideTypes
<1> DEFINE v == Weight[turn]
           w == Bit
           b == NextBit
<1> HIDE DEF v, w, b
<1>3. rem < v
  <2>1. CASE denominator = 0
    BY <1>1, <2>1 DEF DivideInv, v
  <2>2. CASE denominator # 0
    <3> DEFINE k == quotient \div (2 * w)
    <3>1. numerator \div (2 * w) = k * denominator + rem
      BY <1>1, <2>2 DEF DivideInv, PrefixDivided, w
    <3>2. k \in Nat
      BY <1>1, <1>2 DEF w
    <3> HIDE DEF k
    <3>3. k * denominator \in Nat
      BY <1>2, <3>2
    <3>4. QED
      BY <1>1, <1>2, <3>1, <3>3 DEF w, v
  <2>3. QED
    BY <2>1, <2>2
<1>4. (2 * v) * w >= 2 * v /\ (2 * v) * w = Modulus
  <2>1. v \in Nat /\ w \in Nat \ {0}
    BY <1>1 DEF v, w
  <2>2. (2 * v) * w >= 2 * v
    BY <2>1, SMT
  <2>3. QED
    BY <1>1, <2>2 DEF v, w
<1>5. v \in Nat /\ b \in {0, 1}
  BY <1>1 DEF v, b
<1>6. 2 * rem + b < Modulus /\ 2 * rem + b \in Nat /\ 2 * rem < Modulus
  BY <1>2, <1>3, <1>4, <1>5
<1>7. (2 * rem + b) % Modulus = 2 * rem + b
  BY <1>2, <1>6
<1>8. QED
  BY <1>2, <1>6, <1>7 DEF Shifted, Carry, b

LEMMA StepInv ==
  ASSUME DivideInv, Step
  PROVE  DivideInv'
<1> DEFINE w == Bit
           b == NextBit
           s == 2 * rem + b
           k == quotient \div (2 * w)
           d == denominator
           n == numerator \div (2 * w)
<1>1. /\ turn < Width /\ d # 0 /\ ~done /\ turn' = turn + 1
      /\ rem' = IF Takes THEN Reduced ELSE Shifted
      /\ quotient' = IF Takes THEN quotient + w ELSE quotient
      /\ UNCHANGED <<numerator, denominator, done>>
  BY DEF Step
<1>2. /\ w \in Nat \ {0} /\ Weight[Width - turn] = 2 * w
      /\ Weight[Width - (turn + 1)] = w
      /\ Weight[turn + 1] * w = Modulus /\ b \in {0, 1}
      /\ numerator \div w = 2 * n + b
  BY <1>1, NextBitIs
<1>3. /\ s < Modulus /\ s \in Nat /\ Shifted = s /\ ~Carry
  BY <1>1, ShiftFits
<1>4. /\ rem \in Nat /\ d \in Nat \ {0} /\ quotient \in Nat /\ turn \in 0..Width /\ Width \in Nat
      /\ Modulus \in Nat \ {0}
  BY <1>1, DivideTypes
<1>5. rem < d /\ quotient % (2 * w) = 0 /\ n = k * d + rem
  BY <1>1, <1>2 DEF DivideInv, PrefixDivided
<1>6. k \in Nat /\ quotient = (2 * w) * k /\ n \in Int
  <2>1. 2 * w \in Nat \ {0}
    BY <1>2
  <2>2. k \in Int /\ quotient = (2 * w) * k
    <3> DEFINE l == 2 * w
    <3>1. l \in Nat \ {0} /\ quotient \in Int /\ quotient % l = 0
      BY <1>4, <1>5, <2>1
    <3> HIDE DEF l
    <3>2. quotient \div l \in Int /\ quotient = l * (quotient \div l)
      BY <3>1, DivMod
    <3>3. QED
      BY <3>2 DEF l
  <2>3. k \in Nat
    BY <1>4, <2>1
  <2>4. k * d \in Int
    BY <1>4, <2>3
  <2>5. QED
    BY <1>4, <1>5, <2>2, <2>3, <2>4
<1> HIDE DEF w, b, k, d, n
<1>7. s < 2 * d
  BY <1>2, <1>4, <1>5
<1>8. k * d \in Int /\ n = k * d + rem /\ (2 * w) * k \in Int
  BY <1>2, <1>4, <1>5, <1>6
<1>9. 2 * n + b = 2 * (k * d) + s
  BY <1>2, <1>4, <1>8
<1> HIDE DEF s
<1>10. Takes <=> s >= d
  BY <1>3 DEF Takes, d
<1> DEFINE k1 == IF Takes THEN 2 * k + 1 ELSE 2 * k
<1>11. /\ rem' \in Nat /\ rem' < d /\ quotient' \in Nat /\ k1 \in Int
       /\ quotient' = w * k1 + 0
       /\ 2 * n + b = k1 * d + rem'
  <2>1. CASE Takes
    <3>1. Reduced = s - d
      <4>1. s - d \in Nat /\ s - d < Modulus
        BY <1>3, <1>4, <1>10, <2>1
      <4>2. (s - d) % Modulus = s - d
        BY <1>4, <4>1
      <4>3. QED
        BY <1>3, <4>2 DEF Reduced, d
    <3>2. rem' = s - d /\ quotient' = quotient + w
      BY <1>1, <2>1, <3>1
    <3>3. (2 * k + 1) * d = 2 * (k * d) + d
      BY <1>4, <1>6, SMT
    <3>4. w * (2 * k + 1) = (2 * w) * k + w
      BY <1>2, <1>6, SMT
    <3>5. rem' \in Nat /\ rem' < d /\ quotient' \in Nat
      BY <1>2, <1>3, <1>4, <1>7, <1>10, <2>1, <3>2
    <3>6. 2 * n + b = (2 * k + 1) * d + rem'
      BY <1>3, <1>4, <1>8, <1>9, <3>2, <3>3
    <3>7. quotient' = w * (2 * k + 1) + 0
      BY <1>2, <1>4, <1>6, <1>8, <3>2, <3>4
    <3>8. QED
      BY <1>6, <2>1, <3>5, <3>6, <3>7
  <2>2. CASE ~Takes
    <3>1. rem' = s /\ quotient' = quotient
      BY <1>1, <1>3, <2>2
    <3>2. (2 * k) * d = 2 * (k * d) /\ w * (2 * k) = (2 * w) * k
      BY <1>2, <1>4, <1>6, SMT
    <3>3. s < d
      BY <1>3, <1>4, <1>10, <2>2
    <3>4. 2 * n + b = (2 * k) * d + rem'
      BY <1>9, <3>1, <3>2
    <3>5. quotient' = w * (2 * k) + 0
      BY <1>6, <1>8, <3>1, <3>2
    <3>6. QED
      BY <1>3, <1>4, <1>6, <2>2, <3>1, <3>3, <3>4, <3>5
  <2>3. QED
    BY <2>1, <2>2
<1> HIDE DEF k1
<1>12. quotient' \div w = k1 /\ quotient' % w = 0
  <2>1. 0 \in 0 .. w - 1 /\ quotient' \in Int
    BY <1>2, <1>11
  <2>2. QED
    BY <1>2, <1>11, <2>1, DivModUnique
<1>13. Weight[Width - turn'] = w /\ turn' \in 0..Width
  BY <1>1, <1>2, <1>4
<1>14. PrefixDivided'
  <2>1. /\ rem' < denominator' /\ quotient' % Weight[Width - turn'] = 0
        /\ numerator' \div Weight[Width - turn']
             = (quotient' \div Weight[Width - turn']) * denominator' + rem'
    BY <1>1, <1>2, <1>11, <1>12, <1>13 DEF d
  <2>2. QED
    BY <2>1 DEF PrefixDivided
<1>15. Weight[turn'] * Weight[Width - turn'] = Modulus
  BY <1>1, <1>2, <1>13
<1>16. DivideTypeOK'
  BY <1>1, <1>11, <1>13 DEF DivideInv, DivideTypeOK, Operands, Modulus
<1>17. QED
  BY <1>1, <1>14, <1>15, <1>16 DEF DivideInv, Modulus, d

LEMMA DivideNextInv ==
  ASSUME DivideInv, [DivideNext]_divideVars
  PROVE  DivideInv'
<1>1. CASE DivideByZero
  BY <1>1 DEF DivideByZero, DivideInv, DivideTypeOK, PrefixDivided, Operands, Modulus
<1>2. CASE Step
  BY <1>2, StepInv
<1>3. CASE Return
  BY <1>3 DEF Return, DivideInv, DivideTypeOK, PrefixDivided, Operands, Modulus
<1>4. CASE UNCHANGED divideVars
  BY <1>4 DEF divideVars, DivideInv, DivideTypeOK, PrefixDivided, Operands, Modulus
<1>5. QED
  BY <1>1, <1>2, <1>3, <1>4 DEF DivideNext

LEMMA DivideExactly ==
  ASSUME DivideInv
  PROVE  DivisionExact
<1>1. NoCarry
  BY ShiftFits DEF NoCarry
<1>2. Returned
  <2>1. SUFFICES ASSUME done, denominator # 0
                 PROVE  quotient = numerator \div denominator /\ rem = numerator % denominator
    BY DEF Returned, DivideInv
  <2>2. turn = Width /\ Width - turn = 0
    BY <2>1, DivideTypes DEF DivideInv
  <2>3. /\ rem < denominator /\ numerator \div 1 = (quotient \div 1) * denominator + rem
    BY <2>1, <2>2, WidthAssumption DEF DivideInv, PrefixDivided
  <2>4. numerator \in Nat /\ denominator \in Nat \ {0} /\ quotient \in Nat /\ rem \in Nat
    BY <2>1, DivideTypes
  <2>5. numerator \div 1 = numerator /\ quotient \div 1 = quotient
    BY <2>4
  <2>6. quotient * denominator = denominator * quotient
    BY <2>4
  <2>7. numerator = denominator * quotient + rem /\ rem \in 0 .. denominator - 1
    BY <2>3, <2>4, <2>5, <2>6
  <2>8. QED
    BY <2>4, <2>7, DivModUnique
<1>3. QED
  BY <1>1, <1>2 DEF DivisionExact, DivideInv

\* udivmod64 for every width and every pair of words: after each turn it has
\* divided the bits read so far, no digit hangs on the bit the shift drops, and
\* it returns quotient and remainder, or 0 for a zero denominator.
THEOREM DivisionIsExact ==
  DivideSpec => []DivisionExact
<1>1. DivideSpec => []DivideInv
  BY DivideInitInv, DivideNextInv, PTL DEF DivideSpec
<1>2. DivideInv => DivisionExact
  BY DivideExactly
<1>3. QED
  BY <1>1, <1>2, PTL
=============================================================================
