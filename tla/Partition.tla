------------------------------ MODULE Partition ------------------------------
(***************************************************************************)
(* boot/core/partition.c on one disk: which partition the loader boots     *)
(* from (josh_partition_find_boot, parse_gpt), whether the health sectors  *)
(* are free (josh_partition_range_is_unallocated), and the earlier glance  *)
(* stage 2 takes at the same table (has_boot_partition in boot/stage2.S).  *)
(* Any read may fail.  Sector numbers in an MBR entry are words smaller    *)
(* than LbaLimit (2^32); a GPT is abstracted to its entry array and the   *)
(* verdicts on its header.                                                 *)
(***************************************************************************)
EXTENDS Integers, Sequences

CONSTANTS
  Entries,        \* MBR_PARTITION_COUNT, 4 in the code
  LbaLimit,      \* 2^32 in the code
  DeviceSectors,  \* sector_count of the device: 2^32 on the BIOS path
  HealthFirst,    \* JOSH_BOOT_HEALTH_LBA_A
  HealthCount     \* 2 in the code

ASSUME PartitionAssumption ==
  /\ Entries \in Nat \ {0}
  /\ LbaLimit \in Nat \ {0}
  /\ DeviceSectors \in Nat \ {0, 1}
  /\ HealthFirst \in Nat
  /\ HealthCount \in Nat \ {0}

Status == {"inactive", "active", "bad"}
Types  == {"empty", "fat32", "other", "gpt"}    \* 0x00, 0x0b/0x0c, ..., 0xEE
Word   == 0 .. LbaLimit - 1

GptWord == 0 .. LbaLimit    \* 64-bit fields reach beyond any device

\* Entries the scanner can tell apart: position and size of one that is
\* skipped or ends the scan are irrelevant.
MbrEntries ==
  [status : {"inactive", "active"}, type : {"fat32", "other"},
   first : Word, count : Word]
  \cup [status : {"bad"}, type : {"fat32"}, first : {1}, count : {1}]
  \cup [status : {"inactive"}, type : {"empty", "gpt"}, first : {1}, count : {0, 1}]

NoPartition == [first |-> 0, count |-> 0, gpt |-> FALSE, type |-> "empty"]

VARIABLES
  mbr,        \* sector 0: the entries, and whether it ends in 0x55AA
  signature,
  scan,
  entry,      \* entry the scan is at
  fallback,   \* index of the entry remembered so far, 0 for none
  usable,     \* first_usable and last_usable of the GPT header
  find_status, \* status returned by find_boot
  partition,  \* partition returned by find_boot
  free        \* what range_is_unallocated returned

scanVars == <<mbr, signature, scan, entry, fallback, usable, find_status, partition, free>>

ScanStart ==
  /\ scan = "open"
  /\ entry = 1
  /\ fallback = 0
  /\ usable = <<0, 0>>
  /\ find_status = "none"
  /\ partition = NoPartition
  /\ free = FALSE

ScanInit ==
  /\ mbr \in [1..Entries -> MbrEntries]
  /\ signature \in BOOLEAN
  /\ ScanStart

RangeValid(first, count) ==
  /\ count # 0
  /\ first < DeviceSectors
  /\ count <= DeviceSectors - first

\* ranges_overlap.  Its wrap test cannot fire: the operands are 64 bits wide
\* and sector numbers have 32.
Overlap(a, m, b, n) ==
  m # 0 /\ n # 0 /\ ~(a + m - 1 < b \/ b + n - 1 < a)

Unused(e) == e.type = "empty" \/ e.count = 0

Found(status, p) ==
  /\ find_status' = status
  /\ partition' = p
  /\ scan' = "found"

-----------------------------------------------------------------------------
(* josh_partition_find_boot. *)

FindBootFails ==
  /\ scan = "open"
  /\ \/ Found("io_error", NoPartition)
     \/ ~signature /\ Found("no_table", NoPartition)
  /\ UNCHANGED <<mbr, signature, entry, fallback, usable, free>>

ReadMbr ==
  /\ scan = "open"
  /\ signature
  /\ scan' = "scan"
  /\ UNCHANGED <<mbr, signature, entry, fallback, usable, find_status, partition, free>>

EntryCorrupt(e) ==
  \/ e.status = "bad"
  \/ ~Unused(e) /\ e.type # "gpt" /\ ~RangeValid(e.first, e.count)

ScanCorrupt ==
  /\ scan = "scan"
  /\ entry <= Entries
  /\ EntryCorrupt(mbr[entry])
  /\ Found("corrupt", NoPartition)
  /\ UNCHANGED <<mbr, signature, entry, fallback, usable, free>>

ScanSkips ==
  /\ scan = "scan"
  /\ entry <= Entries
  /\ ~EntryCorrupt(mbr[entry])
  /\ Unused(mbr[entry])
  /\ entry' = entry + 1
  /\ UNCHANGED <<mbr, signature, scan, fallback, usable, find_status, partition, free>>

Preferred(j) == fallback = 0 \/ mbr[j].status = "active"

\* An entry that can be booted: the first one, or the first active one, which
\* ends the loop.
ScanTakes ==
  /\ scan = "scan"
  /\ entry <= Entries
  /\ ~EntryCorrupt(mbr[entry])
  /\ ~Unused(mbr[entry])
  /\ mbr[entry].type # "gpt"
  /\ fallback' = IF Preferred(entry) THEN entry ELSE fallback
  /\ entry' = IF mbr[entry].status = "active" THEN Entries + 1 ELSE entry + 1
  /\ UNCHANGED <<mbr, signature, scan, usable, find_status, partition, free>>

ScanEnds ==
  /\ scan = "scan"
  /\ entry > Entries
  /\ IF fallback = 0 THEN Found("no_usable_partition", NoPartition)
     ELSE Found("ok", [first |-> mbr[fallback].first, count |-> mbr[fallback].count,
                        gpt |-> FALSE, type |-> mbr[fallback].type])
  /\ UNCHANGED <<mbr, signature, entry, fallback, usable, free>>

\* An 0xEE entry hands over to parse_gpt, whatever the other entries say.
ScanGpt ==
  /\ scan = "scan"
  /\ entry <= Entries
  /\ ~EntryCorrupt(mbr[entry])
  /\ ~Unused(mbr[entry])
  /\ mbr[entry].type = "gpt"
  /\ scan' = "gpt"
  /\ UNCHANGED <<mbr, signature, entry, fallback, usable, find_status, partition, free>>

\* Header read, signature, sizes, CRC, table range and table CRC: each has its
\* error.
GptFails ==
  /\ scan = "gpt"
  /\ \E s \in {"io_error", "corrupt", "unsupported"} : Found(s, NoPartition)
  /\ UNCHANGED <<mbr, signature, entry, fallback, usable, free>>

\* Mutant: one past the end.
HeaderRangeLoose(f, l) == f <= l /\ l <= DeviceSectors

HeaderRange(f, l) == f <= l /\ l < DeviceSectors

GptHeader ==
  /\ scan = "gpt"
  /\ \E f, l \in GptWord : HeaderRange(f, l) /\ usable' = <<f, l>>
  /\ scan' = "gpt_entries"
  /\ UNCHANGED <<mbr, signature, entry, fallback, find_status, partition, free>>

\* The first entry in use, if there is one, decides; its sector may be
\* unreadable the second time.
GptEntry ==
  /\ scan = "gpt_entries"
  /\ \/ Found("io_error", NoPartition)
     \/ Found("no_usable_partition", NoPartition)
     \/ \E f, l \in GptWord :
          IF f > l \/ f < usable[1] \/ l > usable[2] THEN Found("corrupt", NoPartition)
          ELSE Found("ok", [first |-> f, count |-> l - f + 1, gpt |-> TRUE,
                             type |-> "gpt"])
  /\ UNCHANGED <<mbr, signature, entry, fallback, usable, free>>

-----------------------------------------------------------------------------
(* josh_partition_range_is_unallocated, on the health sectors. *)

\* Mutant: entries after the active one are not looked at, as in find_boot.
RangeUnallocatedBoot ==
  /\ RangeValid(HealthFirst, HealthCount)
  /\ ~Overlap(HealthFirst, HealthCount, 0, 1)
  /\ \A j \in 1..Entries :
       mbr[j].status # "bad" /\ (Unused(mbr[j]) \/ j # fallback \/
         ~Overlap(HealthFirst, HealthCount, mbr[j].first, mbr[j].count))

RangeUnallocated ==
  /\ RangeValid(HealthFirst, HealthCount)
  /\ ~Overlap(HealthFirst, HealthCount, 0, 1)
  /\ signature
  /\ \A j \in 1..Entries :
       /\ mbr[j].status # "bad"
       /\ \/ Unused(mbr[j])
          \/ /\ mbr[j].type # "gpt"
             /\ RangeValid(mbr[j].first, mbr[j].count)
             /\ ~Overlap(HealthFirst, HealthCount, mbr[j].first, mbr[j].count)

\* load_kernel_file asks once it has found the boot partition; the read of
\* sector 0 may fail this time.
CheckLayout ==
  /\ scan = "found"
  /\ find_status = "ok"
  /\ free' \in {RangeUnallocated, FALSE}
  /\ scan' = "checked"
  /\ UNCHANGED <<mbr, signature, entry, fallback, usable, find_status, partition>>

ScanNext ==
  \/ FindBootFails
  \/ ReadMbr
  \/ ScanCorrupt
  \/ ScanSkips
  \/ ScanTakes
  \/ ScanEnds
  \/ ScanGpt
  \/ GptFails
  \/ GptHeader
  \/ GptEntry
  \/ CheckLayout

ScanSpec == ScanInit /\ [][ScanNext]_scanVars

\* has_boot_partition: stage 2 looks at the type byte of the first entry only.
HasBootPartition == mbr[1].type \in {"fat32", "gpt"}
-----------------------------------------------------------------------------
SectorSet(first, count) == {s \in first .. first + count - 1 : count > 0}

\* Every entry the table declares, whatever find_boot made of it.
Allocated == UNION {SectorSet(mbr[j].first, mbr[j].count) :
                      j \in {k \in 1..Entries : ~Unused(mbr[k])}}

\* If the layout check lets the loader write the health sectors, they exist,
\* are not the MBR, and no partition of the disk owns one of them: neither the
\* booted one nor one the boot scan never reached because it stopped earlier.
HealthSectorsFree ==
  free =>
    /\ SectorSet(HealthFirst, HealthCount) \subseteq 1 .. DeviceSectors - 1
    /\ SectorSet(HealthFirst, HealthCount) \cap Allocated = {}
    /\ \A j \in 1..Entries : mbr[j].type = "gpt" => mbr[j].count = 0

\* The layout check is not over-cautious on a well-formed MBR disk: it refuses
\* only if a sector is owned, an entry is malformed or the disk is GPT.  The
\* disk make produces (first partition right behind the two sectors) passes.
LayoutAccepted ==
  /\ signature
  /\ SectorSet(HealthFirst, HealthCount) \subseteq 1 .. DeviceSectors - 1
  /\ \A j \in 1..Entries :
       /\ mbr[j].status # "bad"
       /\ Unused(mbr[j]) \/ (/\ mbr[j].type # "gpt"
                              /\ SectorSet(mbr[j].first, mbr[j].count)
                                   \subseteq 0 .. DeviceSectors - 1)
  /\ SectorSet(HealthFirst, HealthCount) \cap Allocated = {}

FreeIsUsable == scan = "checked" /\ LayoutAccepted => RangeUnallocated

\* The layout check of josh_partition_range_is_unallocated is exact: it lets the
\* loader write the health sectors on every disk where nobody owns them, and on
\* no other.
LayoutCheckExact == HealthSectorsFree /\ FreeIsUsable

\* What find_boot returns lies on the device to its last sector, through the
\* MBR's 32-bit and the GPT's 64-bit route alike.
PartitionOnDevice ==
  find_status = "ok" => /\ partition.count > 0
                   /\ SectorSet(partition.first, partition.count)
                        \subseteq 0 .. DeviceSectors - 1

\* On an MBR disk the booted partition is the first active one that is not
\* empty, or the first that is not empty when none is active; an earlier
\* inactive entry never wins, whatever order the table lists them in.
BootsActive ==
  (find_status = "ok" /\ ~partition.gpt) =>
    LET candidates == {j \in 1..Entries : ~Unused(mbr[j])}
        active == {j \in candidates : mbr[j].status = "active"}
        pool == IF active = {} THEN candidates ELSE active
    IN  \E j \in pool : /\ \A k \in pool : j <= k
                        /\ partition.first = mbr[j].first
                        /\ partition.count = mbr[j].count
                        /\ partition.type = mbr[j].type

\* josh_partition_find_boot finds the partition the table marks for booting,
\* and it lies on the device.
FindsBootPartition == PartitionOnDevice /\ BootsActive

\* "A partitioned disk uses the filesystem-backed protected-mode loader":
\* whenever the scanner would find a FAT32 or GPT partition to boot from,
\* stage 2 sets filesystem_boot.
PartitionedUsesFilesystem ==
  (find_status = "ok" /\ partition.type \in {"fat32", "gpt"}) => HasBootPartition
=============================================================================
