# TLA+ models of JoshBIOS

JoshBIOS is a small boot stack: a legacy-BIOS loader (stage 1, stage 2, a
protected-mode C loader), a UEFI loader, a boot-health record that limits how
often a new kernel is tried, a host tool for that record, and an A/B firmware
updater. This directory models the parts that keep state across steps, failures
and reboots and the algorithms that judge what comes from disk and firmware,
checks them with TLC on small instances and proves every safety property that
is checked, and the refinement, with TLAPS for every value of the parameters.
All paths below are relative to the repository root.

## Inventory

| Part | State | Operations | What is hard |
|---|---|---|---|
| Boot-health record, `boot/core/health.c` | one record: generation, selected and last good slot, trial flag, attempt count, last failure | default, choose, begin_update, prepare_attempt, mark_good, select_fallback | what a record means depends on many earlier boots |
| Health persistence, `boot/stage2_pm.c` 282-530 | two sectors (LBA 1984, 1985), `health_persistent_enabled`, the record in RAM, the slot being tried | health_load, health_persist (write, read back), the candidate loop of load_kernel_file | torn, refused and lost writes, unreadable copies, power loss at any point |
| josh-healthctl, `tools/josh-healthctl.c` | the same two sectors, on the image of a machine that is off | init, good, pending, attempt, show | dies half way; alternates with boots |
| Stage 1 and 2, `boot/stage1.S`, `boot/stage2.S` | tick count, `filesystem_boot`, E820 and VBE data, memory at 0x10000 | menu, diagnostics, partition test, extent, platform set-up, mode switch | 16-bit tick arithmetic, services that fail one by one |
| stage2_pm_main, `boot/stage2_pm.c` 532-749 | memory at 0x01000000, `active_config` | image test, filesystem load, load_elf, hand-off | reads memory this boot has not written |
| 32-bit kernel, `kernel/` | none | kmain checks its boot information | entry convention |
| UEFI loader, `boot/uefi/main.c` | the `JoshBootHealth` variable, memory map and its key | health load/store, candidate loop, capture_map, ExitBootServices with three tries | the map changes behind the loader's back; variable services fail |
| Firmware updater, `firmware/update.c` | update state, flash slots | stage (erase, write, verify, commit), select_boot_slot, mark_boot_good | power loss inside staging, bad writes, calls in any order |
| Platform description, `boot/stage2.S` 117-216, `boot/stage2_pm.c` | E820 buffer and count, mode block, mode number | collect_e820, try_vbe_mode, setup_vbe, staging_range_is_usable, fill_boot_info | more entries than fit, calls that fail after others succeeded, sums that wrap |
| Disk access, `boot/bios_block.S`, bios_block_read_bounced | disk address packet, bounce buffer, CPU mode, interrupt flag | argument checks, switch to real mode, INT 13h, switch back, splitting of reads | failures between pieces, segment limits, interrupts in the wrong mode |
| Partition scanner, `boot/core/partition.c` | none across calls | find_boot, parse_gpt, range_is_unallocated | tables that overlap, touch or lie past the end; two readers of one table |
| FAT32 reader, `boot/core/fat32.c` | mounted geometry, position in a chain | mount, open_path, read_file | cyclic, short and broken chains; 32-bit geometry |
| Configuration parser, `boot/core/config.c` | keys seen, fields read so far | one line at a time, then the final check | order, duplicates, numbers that wrap |
| ELF64 and placement, `boot/elf64.c`, load_elf of both loaders, `build_tables` | physical memory, page tables, table pool | validate, load segment by segment, map | a copy that overwrites its own source, alignment, the pool's end |
| 64-bit division, `boot/runtime32.c` | quotient, remainder | udivmod64 | the bit a shift drops |
| Compaq 610 scripts, coreboot build | files | evidence capture, preflight, flash gate | order of manual steps |

How they interact: stage 1 loads stage 2, which calls `stage2_pm_main`, which
calls `load_kernel_file`; that function and the UEFI loader's `load_files` call
the functions of `health.c` and store the result themselves. josh-healthctl
calls the same functions on the same sectors from the host. Before that,
`load_kernel_file` finds the partition, mounts it, parses BOOT.CFG and asks
whether the health sectors are free; every sector comes through the BIOS thunk.
What it reads is validated, placed and mapped by `load_elf`. The firmware
updater stands alone: its flash backend and its caller are not in the
repository. Nothing runs in parallel on the machine; the hard behaviours are
failures, resets, and the order of calls across boots. `PROJECT.json` lists
them as hazards, each at its line.

What makes each part correct: the two health copies never both lose the record
a boot was based on; a candidate is started a bounded number of times and its
trial ends; the loader never confirms a trial itself nor writes to a disk that
was not provisioned; what is started was loaded in this boot on a platform
described in this boot; the kernel gets the final memory map; the active
firmware slot is never touched, and only what was verified and booted becomes
active; what the disk readers accept is sound and what they refuse is not, on
every disk; and the kernel in memory is the kernel in the file.

## Modules

- `HealthRecord`: the functions of `health.c` as operators on records. The
  validity checks (magic, version, size, ranges, CRC-32) are one bit, `sealed`;
  a blank, torn or unreadable sector is a record without it.
  `josh_boot_health_note_failure` has no caller outside its unit test.
- `BiosHealth` (extends `HealthRecord`): the two sectors, the loader and
  josh-healthctl. One action per step between which power may go: reading the
  configuration, `HealthLoad` / `HealthVolatile`, `Prepare`, the write of a
  sector and its read-back, one turn of the candidate loop, hand-off. A disk
  write is `Write`, `WriteRefused` (error; sector untouched or torn) or
  `WriteLost` (success reported; sector untouched or torn). Commands of the
  tool run while the machine is off; `init` is two actions because it writes
  two sectors. The history variable `launched` counts the starts on trial since
  the last command that begins or ends a trial and ran to its end; one that was
  torn does not reset it.
- `FirmwareUpdate`: `josh_fw_stage_update` as `StageBegin`, `Erase`, `Write`,
  `VerifyChunk`, `Commit` and their failures; `Boot` is a boot through
  `josh_fw_select_boot_slot`; `MarkBootGood` is `josh_fw_mark_boot_good` called
  by the running firmware for its own slot. A slot's contents are the name of
  the image and the set of chunks that differ from it. `DefersStaging` says
  whether the caller waits for a pending update to be settled.
- `Platform`: the E820 and VBE loops, one firmware call per step, and their
  readers.
- `BootChain` (extends `Platform`): from reset through the menu and the platform
  set-up to a kernel. `load_kernel_file` is one step here; `BiosHealth` is its
  inside. `RamRetained` says whether a reset keeps memory above 1 MiB; the E820
  buffer and the mode block in low memory may survive any reset.
- `UefiBoot` (extends `HealthRecord`): `efi_main`. SetVariable takes effect or
  fails and changes nothing; the firmware may change the map before boot
  services end; the operating system may mark its slot good or begin an update.
  `capture_map` obtains a key and captures the map only if the firmware's
  descriptors are large enough; it reports success otherwise, too, and it is the
  earlier check in `efi_main` (`Place`) that keeps the loader from going on
  without a map. The size is a property of the firmware (`descriptors_fit`).
- `HealthStore` is the abstract specification of the two sectors: one current
  record and a spare, with atomic steps `Commit`, `Redo`, `Tear` and
  `StartOver`. `BiosHealthStore` maps the copy that
  `josh_boot_health_choose` picks to the current record and the other to the
  spare; `ActsAsStore` is the refinement.
- `Partition`: `josh_partition_find_boot` entry by entry, `parse_gpt`, the
  layout check that `BiosHealth` takes as `LayoutSafe`, and stage 2's own test
  of the table. A GPT is the verdict on its header and the first entry in use.
- `Fat32Volume`: mount checks and address arithmetic, with 32-bit words that
  wrap. A cluster has any power of two of sectors that a byte can hold. `Fat32`
  (extends it): path lookup and file read as loops over a FAT whose entries are
  chosen when first read. The bad and end marks have 28 bits, so that the
  clusters of a very large volume can be numbered like them. Sizes are in
  sectors. The history variable `trail` keeps the clusters of the chain being
  walked.
- `BootConfig`: `josh_boot_config_parse`, a line at a time; numbers digit by
  digit, flags token by token. The history variable `spelled` is the number the
  digits spell, where `number` is the word it is read into; `given` is what the
  lines say, the refused one included.
- `Elf64`: `josh_elf64_validate`, one program header per step.
  `KernelLoad` (extends it): both `load_elf` loops over a row of memory cells,
  the BIOS one with the image staged in the same memory, and both maps.
- `UefiPaging`: the page-table pool of `build_tables`, one `map4k` per step, in
  the code's sizes.
- `BlockIO`: `bios_block_read_bounced` and the thunk: argument checks, packet,
  mode switches, interrupt flag. A sector's content is its number.
- `Runtime32`: `udivmod64`, one turn of the loop per step, for any word width.
  `Weight[i]` is `1 << i`, given as a table.
- `MC*`: model-checking instances; the values are in the `.cfg` files.
  `MCBootVolume` and `MCKernelLoad` put functions side by side that keep no
  state between calls: the variable `called` names the one that a behaviour
  calls, on any input, and the others stay as they are before a call.
- `HealthRecordProofs`, `BiosHealthProofs`, `BiosHealthStoreProofs`,
  `FirmwareUpdateProofs`, `UefiBootProofs`, `BootChainProofs`,
  `BootVolumeProofs`, `KernelLoadProofs`: theorems. `BootVolumeProofs` is about
  the components that `MCBootVolume` puts side by side, `KernelLoadProofs`
  about `Elf64`, `KernelLoad` and `UefiPaging`.

Definitions introduced as `Mutant:` are plausible bugs, used to confirm that
each property can fail; no specification uses them.

## Runs

| Run | Configuration | Checks | Result |
|---|---|---|---|
| bios_health | 3 tool commands, 2 faults, limit 2 | TypeOK, CopyParity, BaseCopySurvives, LaunchAccounted, TrialsBounded, WritesOnlyProvisioned, TrialNeverSelfConfirms, TrialResolved, ActsAsStore | holds, 0.8 million states |
| firmware_update | 3 slots, 2 chunks, 2 generations, caller defers | TypeOK, ActiveBootable, PendingVerified, ActiveSlotUntouched, NoSilentDowngrade, ConfirmedWasBooted, PendingResolved | holds |
| firmware_brick | 2 slots, caller stages at any time | CannotBrick | violated: see Findings |
| boot_chain | reset clears RAM above 1 MiB; 2 entries kept, 3 reported, 3 modes | TypeOK, FilesystemBootLoadsFile, BootInfoOfThisBoot, StagedInMemory, FlatEntryLoaded, MenuEnds | holds, 0.8 million states |
| boot_chain_stale | reset keeps RAM | FilesystemBootLoadsFile | violated: see Findings |
| boot_chain_bootinfo | reset clears RAM | PayloadGetsBootInfo | violated: see Findings |
| uefi_boot | 2 faults, 2 OS updates, 4 map changes in a boot | TypeOK, TrialsBounded, FinalMapHandedOver, TrialResolved, GivesUpAfterThreeChanges | holds, 0.8 million states |
| boot_volume | one call of any reader of the boot volume, on any small disk | LayoutCheckExact, FindsBootPartition, AddressesExact, ReadsExactly, WalkEnds, ParsesExactly, ReadDelivers, ThunkSound, DivisionExact | holds, 3.4 million states |
| partition_stage2 | 2 entries, 8 sectors, any table | PartitionedUsesFilesystem | violated: see Findings |
| kernel_load | 2 program headers, both loaders; page tables in the code's sizes | ValidatesExactly, LoadedAsFiled, WritesConfined, PoolSuffices | holds, 0.4 million states |
| kernel_load_staged | BIOS loader | NoCriticalOverlap | violated: see Findings |
| kernel_load_unaligned | UEFI loader | PageTablesValid | violated: see Findings |

Several of these are conjunctions of named parts, stated one by one in the
module: `LayoutCheckExact` of `HealthSectorsFree` and `FreeIsUsable`,
`FindsBootPartition` of `PartitionOnDevice` and `BootsActive`, `AddressesExact`
of `ClusterNumbersExact` and `SectorsInVolume`, `ReadsExactly` of `Chained`,
`ReadsFollowChain` and `CorruptIsReal`, `ParsesExactly` of `FailsClosed`,
`HandedOn`, `AcceptsComplete` and `RefusesOnlyUnsound`, `ThunkSound` of
`PacketInSegment` and `InterruptsOnlyReal`, `DivisionExact` of `PrefixDivided`,
`NoCarry` and `Returned`, `ValidatesExactly` of `AcceptsOnlySound` and
`RejectsOnlyUnsound`, `BootInfoOfThisBoot` of `MapAsReported` and
`FramebufferOfScreen`. `ParsesExactly` is exact for files of known assignments;
lines that are none, and unknown keys, are always refused by the model.

Bounds. Three commands are enough to provision a disk and start a trial, or to
start one on a blank disk and disturb it; two faults are enough to damage both
copies, or to make a copy unreadable and then lose a write. With the attempt
limit at 2, the code's 3 less one, a trial takes several boots and rollback
still fits. `TrialsBounded` charges one uncounted start to every fault, so a run
with two faults exercises its slack twice. Disks whose health sectors belong to
a partition (`LayoutSafe` false) and callers that stage at any time
(`DefersStaging` false) have no passing run: `OnlyProvisionedWritten`,
`ActiveSlotSafe` and `DowngradeIsForced` are proved for them too. The updater
has three slots, to separate "next slot" from "other slot"; two chunks separate
a partial from a complete comparison. The tick counter has 8 values, so that
wrap and midnight both fall inside a wait. Three map changes defeat the three
tries; the fourth falls anywhere else. 64-bit generations are natural numbers:
2^64 increments are out of reach.

The algorithms are checked over all inputs of a small word size, where wrap,
limits and coincidences all occur: two MBR entries suffice because the scanner
only distinguishes the entry that ends its loop from those before and behind
it; two program headers because overlap is a relation of two; every boot sector
with bytes up to 4, three sizes of cluster and two of no use among them; chains
of three clusters with files longer than the volume, so that a cycle meets the
visited bound, and of six whose last two have the numbers of the bad and end
marks; two-digit numbers in a 4-bit word with the digits that reach 15,
16 and 17. `UefiPaging` and `BlockIO` run with the code's own constants, on
arguments at both sides of each limit; the worst kernel takes 42 of the 48 pool
pages. `CHECK_DEADLOCK FALSE` stands in the runs of algorithms that end.

Fairness. Only one program runs on the machine, so a started loader runs on
(weak fairness of its steps). The operator keeps switching the machine on and
resetting it when the kernel crashed or the loader halted; without restarts no
trial can make progress. A boot volume that is read again and again is readable
at last (strong fairness of `LoadConfig`): the code cannot leave a trial if it
never gets as far as the health record. Nobody has to press a key, stage an
update, confirm a boot or run a command. In the menu, the clock is polled many
times per tick, so that a timeout that keeps being expired is noticed (strong
fairness of `MenuTimeout`).

## Findings

1. `firmware/update.c:102`. `josh_fw_stage_update` erases the next slot without
   looking at `pending_slot`. If the machine runs from its pending slot and
   stages once more, it erases the slot it runs from; when that staging then
   fails, the slot is still pending, and confirming the boot makes the erased
   slot active. The plan says an interrupted or bad update "cannot brick the
   VM/target" (`docs/FULL_STACK_PROGRAMMING_PLAN.md:60`). A caller that defers
   staging is safe: `AlwaysBootable` proves it.
2. `boot/stage2_pm.c:712`. Memory at 0x01000000 is taken for the kernel if it
   starts with the ELF magic, before anything was loaded. After a reset that
   keeps RAM the old image is started again, without configuration, health
   record or attempt count. With cleared RAM the comment at `boot/stage2.S:41`
   holds: `PartitionBootsFromFile` proves it.
3. `boot/stage2_pm.c:715`. The flat 32-bit payload is entered with EAX = 0,
   against `kernel/entry.S:9` and `docs/BOOT_ABI.md:7`.
4. `boot/stage2.S:82`. Stage 2 looks at the first MBR entry's type only, the
   scanner at the active one of four. A disk whose FAT32 partition is not listed
   first is not booted through the filesystem, against the comment at
   `boot/stage2.S:41`.
5. `boot/stage2_pm.c:612`. The window for segments, 2 to 128 MiB, includes the
   staged image at 16 MiB. A kernel that reaches it overwrites the bytes, or
   the headers, that later segments come from, and is entered all the same;
   `docs/JOSH_BOOT_PROTOCOL.md:77` and `:78` rule that out. Kernels that end
   below the staged image are loaded as filed, and no image makes the loop write
   outside its window (`LoadedAsFiled`, `WritesConfined`, both proved).
6. `boot/uefi/main.c:235`. Segments are placed relative to `virtual_min`, the
   page tables relative to its page. If it is not page aligned, the kernel reads
   shifted bytes; `docs/JOSH_BOOT_PROTOCOL.md:80` asks for valid page tables. The
   BIOS loader maps the same image correctly. Page alignment is all that is
   missing: with it, `KernelLoadedAsFiled` covers the UEFI loader too.

Met while modelling, without a text that says otherwise:

- a file on a cyclic chain whose size needs at most one cluster more than the
  volume has is read with repeated clusters and reported as ok; only a longer
  one is reported as corrupt. `ReadsFollowChain` holds because the chain itself
  repeats;
- an E820 call that fails after some entries ends the map as if it were
  complete (`E820Carry`);
- `staging_range_is_usable` is content with one usable entry over the range and
  does not look for a reserved one that overlaps it; `StagedInMemory` says no
  more;
- the carry test in `udivmod64` and the wrap test in `ranges_overlap` never
  decide anything: the remainder after i turns is below 2^i (`NoCarry`), and
  sector numbers have 32 bits.

## Proofs

Every invariant and action property that a passing run checks, and the
refinement, is also a theorem: TLC shows it for the instance in the `.cfg`,
TLAPS for all values of the constants that satisfy the assumptions below. Each
proof follows the same path: an inductive invariant, one lemma or step per
action, then temporal logic. What is said here is what the invariant adds to
the property, which is what has to be true for the code to work.

`BiosHealthProofs`. `SafeInv` conjoins the checked invariants with what makes
them inductive: between writes the record in RAM is on the disk if persistence
is enabled (`OnDisk`), so that its successor goes to the other sector
(`SuccessorHasBase`, by parity); persistence implies a safe layout and is
enabled during a write (`PersistentSafe`); the loader has no record before
health_load and a valid one after (`HealthInRam`); from prepare_attempt on the
slot tried is the slot selected (`SlotSelected`); a record on trial never
selects the recovery slot (`TrialsSane`), without which the rollback rule could
select the candidate again. From it follow `CopiesKeepParity`,
`TornWriteCostsOne`, `LaunchIsAccounted`, `OnlyProvisionedWritten` and
`LoaderNeverConfirms`. `BaseCopySurvives` has one exception, which the proof
needs as well: a freshly initialised disk whose copy A is lost has generation 0
in sector B alone, and generation 1 is written over it.

`TrialStartsBounded` is an accounting argument. `StartsCounted` says that the
starts so far are covered by the attempt count of each copy that a boot could
still choose, plus the faults, plus one if the copy is not the newest (`Slack`):
falling back to the older copy forgets one start, and takes a fault. From
prepare_attempt on the coming start is covered as well. Between its two writes
`init` may leave an older copy as the newest: it then completes, which ends the
trial, or its failure pays for the start that is forgotten.

`BiosHealthStoreProofs`. `SectorsActAsStore` proves the refinement: initial
states map to initial states and each action to a step of `HealthStore` or to a
stutter. `CurrentIsChosen` shows that the mapping picks the copy that
`josh_boot_health_choose` would; `StoreInv` adds to `SafeInv` that the record
being written is one generation on from a copy on the disk, so that the write is
a `Commit` and nothing else.

`FirmwareUpdateProofs`. `ActiveSlotSafe` needs only type correctness and
`TargetIsOther`: the next slot modulo the count is not the active one.
`DowngradeIsForced` rests on `UnforcedIsNewer`. `AlwaysBootable`,
`TriesWhatWasVerified` and `ConfirmsWhatBooted` assume `DefersStaging`, without
which the first is false (finding 1), and rest on `SafeInv`: staging starts with
nothing pending (`StagingAlone`), the chunks below the offset have been compared
(`Compared`), and the machine runs from the active or the pending slot, the
latter unchanged since it was booted (`RunsKnownSlot`).

`UefiBootProofs`. `KernelGetsFinalMap` and `GivesUpJustly` rest on `TriesPaid`:
each try after the first was paid for by a change of the map, the key in hand is
never newer than the map, and a loader that has come so far runs on firmware
whose descriptors fit, so that what it captured goes with its key.
`TrialStartsBounded` is the argument above with one copy instead of two.

`BootChainProofs`. `ChainInv`: the E820 buffer holds what has been reported, up
to its limit, whatever it held before (`MapCollected`); the mode block describes
the mode being set and then the one set (`ModeDescribed`); the platform set-up
is finished when protected mode is entered (`SetupInStep`); the flags say what
the disk holds (`FlagsOfDisk`). `FlatEntryIsLoaded` and `StagingIsMemory` follow.
`PartitionBootsFromFile` and `BootInfoIsCurrent` assume that a reset does not
keep RAM, without which they are false (finding 2), and need
`ImageOfThisBoot`: an ELF magic in memory was put there in this boot.

`BootVolumeProofs`.
- Partition: the loop has met no active entry and remembers the first in use, or
  has left at the first active one (`NoneActive`, `ActiveTaken`), and what it
  remembers lies on the device (`FallbackUsable`). `LayoutCheckIsExact` is about
  sets of sectors: the arithmetic of `ranges_overlap` decides whether they meet.
- `MountedAddressesExact` derives from the checks of `josh_fat32_mount` that no
  word operation on an accepted volume wraps (`MountAccepts`, `DataArea`). Of the
  cluster size it needs only that it is positive.
- `WalksEnd`: `CountsBounded` bounds the visited counter in each loop, so that
  `StepsLeft` falls with each step and stays above zero.
- `ReadsAreExact`: `SectorsSoFar` says that the sectors delivered are the
  request's first ones and end with the last cluster read; skipping stops at the
  cluster the request begins in. Where the walk gives up because it has visited
  too many clusters, two of them are the same by the pigeonhole principle
  (`LongTrailRepeats`).
- `ThunkIsSound` and `ReadsDeliver`: the packet says what the arguments do
  (`PacketFilled`), interrupts are on only around INT 13h (`ModeInStep`), the
  sectors before `lba` have been delivered (`DeliveredSoFar`), and the bounce
  buffer holds the piece asked for if INT 13h succeeded (`PieceInBounce`).
- `ParserIsExact`: the lines for the keys seen have been taken as they are
  written and there were no others (`LinesTaken`); the number read so far is the
  number spelled so far, without a wrap (`ValueSoFar`); the line at which the
  parse stopped says something unacceptable or comes twice.
- `DivisionIsExact`: the loop invariant is `PrefixDivided` itself, with the fact
  that the weights of the bits read and of those left make up the word.

`KernelLoadProofs`.
- `PoolAlwaysSuffices`: `TablesPaid` gives the pages handed out after i calls of
  map4k as a function of the first and the last page mapped.
- `ValidatorIsExact`: `HeadersChecked` is what the loop has established of the
  headers it has passed; the wrap tests turn comparisons of words into
  comparisons of numbers.
- `LoaderWritesConfined` needs nothing of the file: `NextSegmentSound` covers
  headers that the copying has overwritten, too.
- `KernelLoadedAsFiled`: `SegmentsInPlace` says that segments whose turn has come
  are in place and, for UEFI, that the others are still zero; that later copies
  leave them alone is where disjointness from the validator comes in. For BIOS
  the staged image is still whole (`Staged`).

Assumptions on constants, each evaluated by TLC in the runs. Bounds are natural
numbers, counts positive. Beyond that: at least two firmware slots
(`state_valid` demands it) and two sectors on a device
(`josh_partition_find_boot` refuses a smaller one); the bad and end marks of the
FAT fit a word; the staging range fits below the address limit; the menu's
timeout and midnight leave room in the tick counter; real-mode segments have 16
bits and 127 sectors behind an offset of 15 fit a segment, as in the code
(65,039 of 65,536 bytes); the UEFI allocator returns pages with memory behind
them; an image is not empty; the pool has the 42 pages that the theorem shows to
be enough, of the code's 48; `Weight` doubles from 1.

Only model-checked: the liveness properties (`TrialResolved` on both paths,
`PendingResolved`, `MenuEnds`). They need fairness and ENABLED, which are out of
the prover's reach. `WalkEnds` is the exception among the termination
properties, because it is stated as a step property of a count.

## Plan

1. Done: the health record and the loaders around it, the updater, the boot
   chain (this is where a wrong step costs a machine).
2. Done: the abstract health store and its refinement; ELF64 validation with
   placement and page tables; partition scanning; FAT32, configuration,
   division; platform description; the BIOS disk thunk.
3. Done: theorems for all checked safety properties and the refinement.
4. Next: the rank arguments behind the liveness properties as step properties,
   in the manner of `WalkEnds` (a trial's remaining starts, the menu's remaining
   ticks); a sharper form of `CorruptIsReal` for the reads that go once round a
   cycle; the theorems of `BootChain` restated for machines that keep RAM, for
   the boots in which no ELF magic survives.

## Not modelled

- Serial and VGA output, status strings, the Makefile, CI and the coreboot build
  script, and structure layouts have no state worth a model.
- `find_rsdp` and `find_smbios` scan firmware memory for a signature and a
  checksum; the GOP pixel masks and the UEFI configuration-table lookup
  translate firmware data. Each is a loop over bytes the environment supplies;
  where a model needs one, it is a step that succeeds or fails.
- `memcpy`, `memset` and `memcmp` of `boot/runtime32.c`, whose contract is the C
  library's.
- The Compaq 610 scripts are single sequential checks over files on a
  workstation: no state survives a script and none runs beside another.
- CRC-32, character classes, 8.3 name matching and the magic numbers of ELF, GPT
  and FAT: verdicts, since no property depends on the bytes behind them.
