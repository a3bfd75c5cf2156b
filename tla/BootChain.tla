----------------------------- MODULE BootChain -----------------------------
(***************************************************************************)
(* The legacy-BIOS chain from reset to a kernel: boot/stage1.S, the boot   *)
(* menu and platform set-up of boot/stage2.S, stage2_pm_main of            *)
(* boot/stage2_pm.c and the 32-bit payload of kernel/.  BIOS services, the *)
(* CPU and the operator are the environment: each service call may fail,   *)
(* any key may be pressed, the machine may be reset, and it may come up    *)
(* from another disk.                                                      *)
(*                                                                         *)
(* Platform is the inside of prepare_native_platform.  load_kernel_file is *)
(* one step here; BiosHealth is its inside.                                *)
(***************************************************************************)
EXTENDS Platform

CONSTANTS
  TimeoutTicks,   \* BOOT_TIMEOUT_TICKS, 55 in the code
  TickModulus,    \* the menu compares 16-bit tick counts: 65536 in the code
  MidnightTick,   \* low word of the last tick of a day: 0xaf on a PC
  RamRetained     \* a reset leaves RAM above 1 MiB as it was; below it may

ASSUME BootChainAssumption ==
  /\ TimeoutTicks \in Nat \ {0}
  /\ MidnightTick \in Nat /\ MidnightTick >= TimeoutTicks
  /\ TickModulus \in Nat /\ TickModulus > MidnightTick + TimeoutTicks
  /\ RamRetained \in BOOLEAN

\* What the boot disk holds: an MBR entry of type 0x0b/0x0c or 0xee, or no
\* partition and, at LBA 65, a flat 32-bit payload or an ELF image.
Media == {"partitioned", "flat", "flat_elf"}

VARIABLES
  media,            \* the disk the machine boots from
  pc,               \* where the CPU is
  ticks,            \* low 16 bits of the BIOS tick count
  start_ticks,      \* as read when the menu was drawn
  filesystem_boot,  \* the flag stage 2 leaves for stage2_pm_main
  extent,           \* what load_kernel_extent put at 0x10000 in this boot
  image,            \* 0x01000000 begins with the ELF magic
  configured,       \* active_config is set: load_kernel_file ran and succeeded
  eax               \* what protected_mode leaves in EAX for the payload

vars == <<media, pc, ticks, start_ticks, filesystem_boot, extent, platformVars,
          image, configured, eax>>
stage2_data == <<filesystem_boot, extent, platformVars, configured, eax>>

\* Tick counts stay 16 bits wide, and the CPU is at one of the chain's steps.
TypeOK ==
  /\ media \in Media
  /\ pc \in {"reset", "menu", "wait", "diagnostics", "boot", "platform",
             "protected", "pm_main", "fs_load", "load_elf",
             "flat_entry", "kernel64", "kernel32", "bad_bootinfo",
             "halted", "int19"}
  /\ ticks \in 0 .. TickModulus - 1
  /\ start_ticks \in 0 .. TickModulus - 1
  /\ filesystem_boot \in BOOLEAN
  /\ extent \in {"none", "flat", "elf"}
  /\ setup \in {"idle", "e820", "vbe", "set_mode", "ready", "failed"}
  /\ e820_count \in 0 .. Len(buffer) /\ tries \in 0 .. Len(Modes)
  /\ image \in BOOLEAN
  /\ configured \in BOOLEAN
  /\ eax \in {"undefined", "zero"}

Init ==
  /\ media \in Media
  /\ pc = "reset"
  /\ ticks = 0
  /\ start_ticks = 0
  /\ filesystem_boot = FALSE
  /\ extent = "none"
  /\ PlatformInit
  /\ image = FALSE
  /\ configured = FALSE
  /\ eax = "undefined"

\* What stage 2 finds in its own data once stage 1 has read it from disk.
FreshStage2 ==
  /\ filesystem_boot' = FALSE
  /\ extent' = "none"
  /\ e820_count' = 0
  /\ vbe_selected_mode' = Nothing
  /\ UNCHANGED <<setup, reported, buffer, di, tries, vbe_info, screen>>
  /\ configured' = FALSE
  /\ eax' = "undefined"

-----------------------------------------------------------------------------
(* Stage 1 and the boot menu. *)

\* EDD present and the 64 sectors of stage 2 read.
Stage1 ==
  /\ pc = "reset"
  /\ FreshStage2
  /\ pc' = "menu"
  /\ UNCHANGED <<media, ticks, start_ticks, image>>

Stage1Fails ==
  /\ pc = "reset"
  /\ pc' = "halted"
  /\ UNCHANGED <<media, ticks, start_ticks, image, stage2_data>>

\* Mutant: keeps the deadline instead of the start, without the 16-bit wrap.
ShowBootMenuDeadline ==
  /\ pc = "menu"
  /\ start_ticks' = ticks + TimeoutTicks
  /\ pc' = "wait"
  /\ UNCHANGED <<media, ticks, image, stage2_data>>

ShowBootMenu ==
  /\ pc = "menu"
  /\ start_ticks' = ticks
  /\ pc' = "wait"
  /\ UNCHANGED <<media, ticks, image, stage2_data>>

\* The timer advances; at midnight the BIOS count starts again from zero.
Tick ==
  /\ pc = "wait"
  /\ ticks' \in {(ticks + 1) % TickModulus}
                \cup (IF ticks = MidnightTick THEN {0} ELSE {})
  /\ UNCHANGED <<media, pc, start_ticks, image, stage2_data>>

\* Mutant: a signed difference.
ElapsedSigned == IF ticks >= start_ticks THEN ticks - start_ticks ELSE 0

\* subw start_ticks, %ax; cmpw $BOOT_TIMEOUT_TICKS, %ax; jb: an unsigned
\* comparison of a difference that wraps.
Elapsed == (ticks + TickModulus - start_ticks) % TickModulus

MenuTimeout ==
  /\ pc = "wait"
  /\ Elapsed >= TimeoutTicks
  /\ pc' = "boot"
  /\ UNCHANGED <<media, ticks, start_ticks, image, stage2_data>>

\* Enter or B boots, D shows the diagnostics, R calls int 19h; any other key
\* leaves the loop where it is.
MenuKey ==
  /\ pc = "wait"
  /\ pc' \in {"boot", "diagnostics", "int19"}
  /\ UNCHANGED <<media, ticks, start_ticks, image, stage2_data>>

\* Any key leaves the diagnostics screen; the menu starts over.
DiagnosticsKey ==
  /\ pc = "diagnostics"
  /\ pc' = "menu"
  /\ UNCHANGED <<media, ticks, start_ticks, image, stage2_data>>

\* int 19h reads the boot sector again without clearing memory.
Int19 ==
  /\ pc = "int19"
  /\ pc' = "reset"
  /\ UNCHANGED <<media, ticks, start_ticks, image, stage2_data>>

-----------------------------------------------------------------------------
(* boot_kernel and the switch to protected mode. *)

HasBootPartition == media = "partitioned"

\* check_edd succeeds; a partitioned disk skips the fixed extent.
BootKernel ==
  /\ pc = "boot"
  /\ filesystem_boot' = (filesystem_boot \/ HasBootPartition)
  /\ extent' = CASE media = "flat" -> "flat" [] media = "flat_elf" -> "elf" [] OTHER -> extent
  /\ IF extent' = "flat" THEN pc' = "protected" /\ UNCHANGED platformVars
     ELSE pc' = "platform" /\ BeginPlatform
  /\ UNCHANGED <<media, ticks, start_ticks, image, configured, eax>>

\* No EDD, or a read of the extent failed.
BootKernelFails ==
  /\ pc = "boot"
  /\ pc' = "halted"
  /\ UNCHANGED <<media, ticks, start_ticks, image, stage2_data>>

AfterSetup(s) ==
  CASE s = "ready" -> "protected" [] s = "failed" -> "halted" [] OTHER -> "platform"

PreparePlatform ==
  /\ pc = "platform"
  /\ PlatformNext
  /\ pc' = AfterSetup(setup')
  /\ UNCHANGED <<media, ticks, start_ticks, image, filesystem_boot, extent,
                 configured, eax>>

\* A20, GDT, CR0.PE; the CPU has long mode and, for a filesystem boot, the
\* staging range is usable RAM.
EnterProtectedMode ==
  /\ pc = "protected"
  /\ filesystem_boot => StagingRangeIsUsable
  /\ pc' = "pm_main"
  /\ UNCHANGED <<media, ticks, start_ticks, image, stage2_data>>

\* No long mode, or the staging range is not usable.
EnterProtectedModeFails ==
  /\ pc = "protected"
  /\ pc' = "halted"
  /\ UNCHANGED <<media, ticks, start_ticks, image, stage2_data>>

-----------------------------------------------------------------------------
(* stage2_pm_main *)

\* Mutant: filesystem_boot is not looked at.
AfterImageTestFlat == IF image THEN "load_elf" ELSE "flat_entry"

\* Whatever already looks like an ELF image at 0x01000000 is taken for the
\* kernel.  Without one, a flat boot returns 0 to stage 2, which jumps to
\* 0x10000, and a filesystem boot loads the kernel file.
AfterImageTest ==
  IF image THEN "load_elf"
  ELSE IF filesystem_boot THEN "fs_load" ELSE "flat_entry"

PmMain ==
  /\ pc = "pm_main"
  /\ pc' = AfterImageTest
  /\ eax' = IF pc' = "flat_entry" THEN "zero" ELSE eax
  /\ UNCHANGED <<media, ticks, start_ticks, image, filesystem_boot, extent,
                 platformVars, configured>>

\* load_kernel_file found a candidate and left its image in place.
LoadKernelFile ==
  /\ pc = "fs_load"
  /\ image' = TRUE
  /\ configured' = TRUE
  /\ pc' = "load_elf"
  /\ UNCHANGED <<media, ticks, start_ticks, filesystem_boot, extent,
                 platformVars, eax>>

\* Mutant: the result of load_kernel_file is ignored.
LoadKernelFileFailsOn ==
  /\ pc = "fs_load"
  /\ image' \in BOOLEAN
  /\ pc' = "load_elf"
  /\ UNCHANGED <<media, ticks, start_ticks, stage2_data>>

\* It failed; a rejected candidate may have left its bytes behind.
LoadKernelFileFails ==
  /\ pc = "fs_load"
  /\ image' \in BOOLEAN
  /\ pc' = "halted"
  /\ UNCHANGED <<media, ticks, start_ticks, stage2_data>>

\* load_elf, fill_boot_info, page tables, long mode.
Handoff ==
  /\ pc = "load_elf"
  /\ pc' = "kernel64"
  /\ UNCHANGED <<media, ticks, start_ticks, image, stage2_data>>

LoadElfFails ==
  /\ pc = "load_elf"
  /\ pc' = "halted"
  /\ UNCHANGED <<media, ticks, start_ticks, image, stage2_data>>

\* kernel/entry.S pushes EAX as kmain's argument; valid_boot_info rejects a
\* null pointer.  Only the flat payload is that kernel: bytes of an ELF header
\* do whatever they do.
FlatEntry ==
  /\ pc = "flat_entry"
  /\ extent = "flat"
  /\ pc' = IF eax = "zero" THEN "bad_bootinfo" ELSE "kernel32"
  /\ UNCHANGED <<media, ticks, start_ticks, image, stage2_data>>

ElfHeaderExecuted ==
  /\ pc = "flat_entry"
  /\ extent = "elf"
  /\ pc' = "halted"
  /\ UNCHANGED <<media, ticks, start_ticks, image, stage2_data>>

-----------------------------------------------------------------------------
\* The machine is reset and may come up from another disk, with what low memory
\* held or without; a 64-bit kernel may have reused the staging range.
Reset ==
  /\ pc \in {"halted", "kernel64", "kernel32", "bad_bootinfo"}
  /\ pc' = "reset"
  /\ media' \in Media
  /\ image' \in (IF RamRetained THEN {image, FALSE} ELSE {FALSE})
  /\ \/ UNCHANGED <<buffer, e820_count, vbe_info>>
     \/ buffer' = <<>> /\ e820_count' = 0 /\ vbe_info' = Nothing
  /\ setup' = "idle" /\ reported' = <<>> /\ di' = 1 /\ tries' = 0 /\ screen' = "text"
  /\ UNCHANGED <<ticks, start_ticks, filesystem_boot, extent, vbe_selected_mode,
                 configured, eax>>

Boots ==
  \/ Stage1
  \/ Stage1Fails
  \/ ShowBootMenu
  \/ MenuTimeout
  \/ Int19
  \/ BootKernel
  \/ BootKernelFails
  \/ PreparePlatform
  \/ EnterProtectedMode
  \/ EnterProtectedModeFails
  \/ PmMain
  \/ LoadKernelFile
  \/ LoadKernelFileFails
  \/ Handoff
  \/ LoadElfFails
  \/ FlatEntry
  \/ ElfHeaderExecuted

Next ==
  \/ Boots
  \/ Tick
  \/ MenuKey
  \/ DiagnosticsKey
  \/ Reset

Spec == Init /\ [][Next]_vars

(***************************************************************************)
(* Fairness: the CPU executes, time passes, and the menu polls the clock   *)
(* many times per tick, so a timeout that keeps being expired is noticed   *)
(* even though the 16-bit difference wraps.  Nobody has to press a key.    *)
(***************************************************************************)
FairSpec ==
  /\ Spec
  /\ WF_vars(Boots)
  /\ WF_vars(Tick)
  /\ SF_vars(MenuTimeout)

-----------------------------------------------------------------------------
(* Properties. *)

\* A disk with a boot partition is booted through the filesystem loader: the
\* kernel that is started was read from the volume in this boot, under its
\* BOOT.CFG and its health record (comment at boot/stage2.S:41).
FilesystemBootLoadsFile ==
  pc \in {"load_elf", "kernel64"} /\ HasBootPartition => configured

\* The map is cut off at its limit, never written beyond it, and a 64-bit
\* kernel gets exactly what the firmware said in this boot, in its order: no
\* entry skipped, repeated, left over from a failed call or from a boot before,
\* and no kernel is started without a map.
MapAsReported ==
  /\ Len(buffer) <= MaxEntries
  /\ pc = "kernel64" => BootInfo.memory_map = reported /\ reported # <<>>

\* The kernel's framebuffer description is of the mode the screen is in, after
\* any number of modes that were described and found unsuitable.
FramebufferOfScreen == pc = "kernel64" => BootInfo.framebuffer = screen

\* The boot information a 64-bit kernel gets describes the machine as it is in
\* this boot.
BootInfoOfThisBoot == MapAsReported /\ FramebufferOfScreen

\* The kernel file is read into the staging range only where usable entries of
\* the firmware's map of this boot reach over all of it, with sums of base and
\* length that do not wrap.
StagedInMemory ==
  pc = "fs_load" =>
    \A a \in StageStart .. StageEnd - 1 :
      \E i \in 1..Len(reported) :
        reported[i].usable /\ a \in reported[i].base .. reported[i].base + reported[i].length - 1

\* Stage 2 jumps to 0x10000 only when it loaded the fixed extent there in this
\* boot, and never in a filesystem boot.
FlatEntryLoaded ==
  pc = "flat_entry" => extent # "none" /\ ~filesystem_boot

\* The 32-bit kernel receives its JoshBootInfo pointer in EAX
\* (kernel/entry.S:9, docs/BOOT_ABI.md:7), so that kmain accepts it.
PayloadGetsBootInfo == pc # "bad_bootinfo"

\* An unattended menu boots: the timeout expires wherever in the 16-bit tick
\* range, or before midnight, the menu was drawn.
MenuEnds == pc = "wait" ~> pc # "wait"
=============================================================================
