----------------------------- MODULE Fat32Volume -----------------------------
(***************************************************************************)
(* The geometry of a FAT32 volume: josh_fat32_mount and the address        *)
(* computations of cluster_valid, cluster_lba and next_cluster in          *)
(* boot/core/fat32.c.  32-bit words are numbers below WordLimit and wrap;  *)
(* the products and sums the code widens to 64 bits do not.                *)
(***************************************************************************)
EXTENDS Integers

CONSTANTS
  WordLimit,         \* 2^32 in the code
  ByteLimit,         \* 2^8
  MinClusters,       \* FAT32_MIN_CLUSTERS, 65525 in the code
  EntriesPerSector,  \* FAT entries in a sector, 128 in the code
  MaxReserved,       \* reserved sectors, 2^16 - 1 in the code
  PartitionSectors   \* sector_count of the partition being mounted

ASSUME Fat32VolumeAssumption ==
  /\ WordLimit \in Nat \ {0}
  /\ ByteLimit \in Nat \ {0}
  /\ MinClusters \in Nat \ {0}
  /\ EntriesPerSector \in Nat \ {0}
  /\ MaxReserved \in 0 .. WordLimit - 1
  /\ PartitionSectors \in Nat \ {0}

Words == 0 .. WordLimit - 1
Bytes == 0 .. ByteLimit - 1

\* The powers of two in a byte.
ClusterSizes == {n \in Bytes \ {0} : \E k \in 0..n : 2 ^ k = n}

\* A boot sector; `kind' stands for its signature, its sector size and the
\* fields that must be zero on FAT32.
Bpbs == [kind : {"fat32", "no_signature", "sector_size", "fat16"},
         sectors_per_cluster : Bytes,
         reserved : 0..MaxReserved,
         fat_count : Bytes,
         total : Words,
         fat32 : Words,
         root_cluster : Words]

NoVolume == [total |-> 0, fat_lba |-> 0, data_lba |-> 0, sectors_per_fat |-> 0,
             cluster_count |-> 0, root_cluster |-> 0, sectors_per_cluster |-> 1]

\* Mutant: the second FAT is forgotten.
FatAreaOneCopy(b) == b.fat32

FatArea(b)  == b.fat_count * b.fat32
Clusters(b) == (b.total - b.reserved - FatArea(b)) \div b.sectors_per_cluster

NotFat32(b) ==
  \/ b.reserved = 0
  \/ b.fat_count \notin {1, 2}
  \/ b.kind = "fat16"
  \/ b.fat32 = 0

TotalCorrupt(b) == b.total = 0 \/ b.total > PartitionSectors

\* josh_fat32_mount's checks, in their order; the boot sector was readable.
MountStatus(b) ==
  IF b.kind = "no_signature" THEN "not_fat32"
  ELSE IF b.kind = "sector_size" THEN "unsupported"
  ELSE IF b.sectors_per_cluster \notin ClusterSizes THEN "corrupt"
  ELSE IF NotFat32(b) THEN "not_fat32"
  ELSE IF TotalCorrupt(b) THEN "corrupt"
  ELSE IF b.reserved + FatArea(b) >= b.total THEN "corrupt"
  ELSE IF Clusters(b) < MinClusters THEN "not_fat32"
  ELSE IF b.root_cluster < 2 \/ b.root_cluster >= (Clusters(b) + 2) % WordLimit
       THEN "corrupt"
  ELSE "ok"

Volume(b) ==
  [total               |-> b.total,
   fat_lba             |-> b.reserved,
   data_lba            |-> (b.reserved + FatArea(b)) % WordLimit,
   sectors_per_fat     |-> b.fat32,
   cluster_count       |-> Clusters(b) % WordLimit,
   root_cluster        |-> b.root_cluster,
   sectors_per_cluster |-> b.sectors_per_cluster]

ClusterValid(v, c) == c >= 2 /\ c < (v.cluster_count + 2) % WordLimit

\* First sector of a cluster, relative to the partition, and cluster_lba's
\* own test of it.
ClusterLba(v, c) == v.data_lba + (c - 2) * v.sectors_per_cluster

ClusterReadable(v, c) ==
  /\ ClusterValid(v, c)
  /\ ClusterLba(v, c) < v.total
  /\ v.sectors_per_cluster <= v.total - ClusterLba(v, c)

\* The FAT sector that holds a cluster's entry, if the FAT has it.
FatLba(v, c) == v.fat_lba + c \div EntriesPerSector

InFat(v, c) == ClusterValid(v, c) /\ c \div EntriesPerSector < v.sectors_per_fat

ClusterSectors(v, c) ==
  ClusterLba(v, c) .. ClusterLba(v, c) + v.sectors_per_cluster - 1

-----------------------------------------------------------------------------
VARIABLES bpb, volume, status

volumeVars == <<bpb, volume, status>>

VolumeStart == volume = NoVolume /\ status = "none"

VolumeInit == bpb \in Bpbs /\ VolumeStart

Mount ==
  /\ status = "none"
  /\ status' = MountStatus(bpb)
  /\ volume' = IF status' = "ok" THEN Volume(bpb) ELSE NoVolume
  /\ UNCHANGED bpb

MountUnreadable ==
  /\ status = "none"
  /\ status' = "io_error"
  /\ UNCHANGED <<bpb, volume>>

VolumeNext == Mount \/ MountUnreadable

VolumeSpec == VolumeInit /\ [][VolumeNext]_volumeVars
-----------------------------------------------------------------------------
\* First data sector and number of clusters, from the boot sector alone.
DataStart(b) == b.reserved + b.fat_count * b.fat32
Capacity(b)  == (b.total - DataStart(b)) \div b.sectors_per_cluster

\* A mounted volume's numbers survive their 32-bit fields: the cluster numbers
\* that cluster_valid admits are exactly the clusters the data area has room
\* for (clusters + 2 never wraps), and the root is one of them.
ClusterNumbersExact ==
  status = "ok" =>
    /\ {c \in Words : ClusterValid(volume, c)} = 2 .. Capacity(bpb) + 1
    /\ ClusterValid(volume, volume.root_cluster)

\* Every sector a chain walk can compute lies inside the partition: data
\* sectors behind the FATs and before the end, FAT sectors in the first FAT.
\* cluster_lba's own range test never has to refuse a valid cluster.
SectorsInVolume ==
  status = "ok" =>
    \A c \in Words : ClusterValid(volume, c) =>
      /\ ClusterReadable(volume, c)
      /\ ClusterSectors(volume, c)
           \subseteq DataStart(bpb) .. PartitionSectors - 1
      /\ InFat(volume, c) =>
           FatLba(volume, c) \in bpb.reserved .. bpb.reserved + bpb.fat32 - 1

\* Whatever boot sector josh_fat32_mount accepts, cluster numbers and sector
\* addresses mean what they mean without the limits of a word.
AddressesExact == ClusterNumbersExact /\ SectorsInVolume
=============================================================================
