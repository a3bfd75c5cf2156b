--------------------------- MODULE BootChainProofs ---------------------------
(***************************************************************************)
(* Proofs about BootChain for every map the firmware may report, every     *)
(* list of VBE modes, every tick modulus and every address space.          *)
(***************************************************************************)
EXTENDS BootChain, SequenceTheorems, TLAPS

-----------------------------------------------------------------------------
(* The inductive invariant. *)

\* The firmware's map, as far as it has been collected, is in the buffer, and
\* the buffer is never used beyond its limit.
MapCollected ==
  /\ reported \in Seq(Entries) /\ buffer \in Seq(Entries)
  /\ e820_count \in 0 .. Len(buffer) /\ Len(buffer) <= MaxEntries
  /\ setup \in {"e820", "vbe", "set_mode", "ready"} =>
       e820_count = Len(reported) /\ \A i \in 1 .. e820_count : buffer[i] = reported[i]
  /\ setup = "e820" => di = e820_count + 1 /\ e820_count < MaxEntries
  /\ setup \in {"vbe", "set_mode", "ready"} => e820_count > 0

\* The block at 0x5a000 describes the mode being set, and then the one set.
ModeDescribed ==
  /\ setup = "set_mode" => vbe_info = vbe_selected_mode
  /\ setup = "ready" => vbe_info = screen

\* Where the platform set-up is when the CPU is at a step of the chain.
SetupInStep ==
  /\ pc \in {"reset", "menu", "wait", "diagnostics", "int19", "boot"} => setup = "idle"
  /\ pc = "platform" => setup \in {"e820", "vbe", "set_mode"}
  /\ pc \in {"protected", "pm_main", "fs_load"} => setup = "ready" \/ extent = "flat"

\* Stage 2 comes fresh from the disk; from boot_kernel on its flags say what
\* the disk holds.
FlagsOfDisk ==
  /\ pc \in {"menu", "wait", "diagnostics", "boot"} =>
       ~filesystem_boot /\ extent = "none" /\ ~configured
  /\ pc \in {"platform", "protected", "pm_main", "fs_load", "flat_entry"} =>
       /\ filesystem_boot <=> HasBootPartition
       /\ extent = "none" <=> HasBootPartition
  /\ pc = "fs_load" => filesystem_boot
  /\ pc = "flat_entry" => ~filesystem_boot
  /\ pc \in {"pm_main", "fs_load"} /\ filesystem_boot => StagingRangeIsUsable

ChainInv == TypeOK /\ MapCollected /\ ModeDescribed /\ SetupInStep /\ FlagsOfDisk

\* On a machine that clears its memory, what begins with the ELF magic was read
\* by load_kernel_file in this boot.
ImageOfThisBoot ==
  /\ image => pc \in {"load_elf", "kernel64", "halted"}
  /\ pc \in {"load_elf", "kernel64"} => configured /\ setup = "ready"

-----------------------------------------------------------------------------
(* The platform set-up. *)

\* One entry written at its place in the buffer or right behind its end.
LEMMA PutEntry ==
  ASSUME NEW s \in Seq(Entries), NEW i \in 1 .. Len(s) + 1, NEW e \in Entries
  PROVE  /\ Put(s, i, e) \in Seq(Entries)
         /\ Len(Put(s, i, e)) = IF i > Len(s) THEN i ELSE Len(s)
         /\ Put(s, i, e)[i] = e
         /\ \A k \in 1 .. Len(s) : k # i => Put(s, i, e)[k] = s[k]
<1> DEFINE n == IF i > Len(s) THEN i ELSE Len(s)
           p == [k \in 1 .. n |-> IF k = i THEN e ELSE s[k]]
<1>1. Len(s) \in Nat /\ n \in Nat /\ i \in 1 .. n
  BY LenProperties
<1>2. \A k \in 1 .. n : k # i => k \in 1 .. Len(s)
  BY <1>1
<1>3. \A k \in 1 .. Len(s) : s[k] \in Entries
  BY ElementOfSeq
<1>4. \A k \in 1 .. n : (IF k = i THEN e ELSE s[k]) \in Entries
  BY <1>2, <1>3
<1>5. p \in Seq(Entries) /\ Len(p) = n
  <2> HIDE DEF n
  <2> QED BY <1>1, <1>4, IsASeq, LenProperties
<1>6. Put(s, i, e) = p
  BY DEF Put
<1>7. \A k \in 1 .. Len(s) : k \in 1 .. n
  BY <1>1
<1> QED BY <1>1, <1>5, <1>6, <1>7

\* What is left of the platform set-up's state in TypeOK.
SetupTyped ==
  /\ setup \in {"idle", "e820", "vbe", "set_mode", "ready", "failed"}
  /\ tries \in 0 .. Len(Modes)

\* Every call of the set-up keeps the map and the mode description in step with
\* what the firmware said.
LEMMA PlatformStep ==
  ASSUME MapCollected, ModeDescribed, SetupTyped, PlatformNext
  PROVE  /\ MapCollected' /\ ModeDescribed' /\ SetupTyped'
         /\ setup' \in {"e820", "vbe", "set_mode", "ready", "failed"}
<1>0. /\ Len(buffer) \in Nat /\ Len(reported) \in Nat /\ MaxEntries \in Nat \ {0}
      /\ Len(Modes) \in Nat
  BY PlatformAssumption, LenProperties DEF MapCollected
<1>1. ASSUME NEW e \in Entries, NEW ebx \in BOOLEAN, E820Entry(e, ebx)
      PROVE  /\ MapCollected' /\ ModeDescribed' /\ SetupTyped'
             /\ setup' \in {"e820", "vbe", "set_mode", "ready", "failed"}
  <2>1. /\ setup = "e820" /\ di = e820_count + 1 /\ e820_count = Len(reported)
        /\ e820_count < MaxEntries /\ e820_count \in 0 .. Len(buffer)
        /\ \A i \in 1 .. e820_count : buffer[i] = reported[i]
        /\ reported \in Seq(Entries) /\ buffer \in Seq(Entries)
        /\ Len(buffer) <= MaxEntries
    BY <1>1 DEF E820Entry, MapCollected
  <2>2. /\ reported' = Append(reported, e) /\ buffer' = Put(buffer, di, e)
        /\ e820_count' = e820_count + 1 /\ setup' \in {"vbe", "e820"}
        /\ setup' = "e820" => di' = di + 1 /\ ~(e820_count + 1 >= MaxEntries)
        /\ UNCHANGED vbe
    BY <1>1 DEF E820Entry, Full
  <2>3. di \in 1 .. Len(buffer) + 1
    BY <1>0, <2>1
  <2>4. /\ buffer' \in Seq(Entries) /\ buffer'[di] = e
        /\ Len(buffer') = IF di > Len(buffer) THEN di ELSE Len(buffer)
        /\ \A k \in 1 .. Len(buffer) : k # di => buffer'[k] = buffer[k]
    <3>1. buffer \in Seq(Entries) /\ buffer' = Put(buffer, di, e)
      BY <2>1, <2>2
    <3>2. /\ Put(buffer, di, e) \in Seq(Entries) /\ Put(buffer, di, e)[di] = e
          /\ Len(Put(buffer, di, e)) = IF di > Len(buffer) THEN di ELSE Len(buffer)
          /\ \A k \in 1 .. Len(buffer) : k # di => Put(buffer, di, e)[k] = buffer[k]
      BY <2>3, <3>1, PutEntry
    <3>3. QED
      BY <3>1, <3>2, Zenon
  <2>5. /\ reported' \in Seq(Entries) /\ Len(reported') = Len(reported) + 1
        /\ reported'[Len(reported) + 1] = e
        /\ \A k \in 1 .. Len(reported) : reported'[k] = reported[k]
    BY <2>1, <2>2, AppendProperties
  <2>6. e820_count' \in 0 .. Len(buffer') /\ Len(buffer') <= MaxEntries /\ e820_count' > 0
    BY <1>0, <2>1, <2>2, <2>4
  <2>7. \A i \in 1 .. e820_count' : buffer'[i] = reported'[i]
    <3> SUFFICES ASSUME NEW i \in 1 .. e820_count' PROVE buffer'[i] = reported'[i]
      OBVIOUS
    <3>1. CASE i = di
      BY <2>1, <2>4, <2>5, <3>1
    <3>2. CASE i # di
      <4>1. i \in 1 .. Len(reported) /\ i \in 1 .. Len(buffer) /\ i \in 1 .. e820_count
        BY <1>0, <2>1, <2>2, <3>2
      <4> QED BY <2>1, <2>4, <2>5, <3>2, <4>1
    <3> QED BY <3>1, <3>2
  <2>8. setup' = "e820" => di' = e820_count' + 1 /\ e820_count' < MaxEntries
    BY <1>0, <2>1, <2>2
  <2>9. MapCollected'
    BY <2>1, <2>2, <2>4, <2>5, <2>6, <2>7, <2>8 DEF MapCollected
  <2> QED BY <2>2, <2>9 DEF ModeDescribed, SetupTyped, vbe
<1>2. CASE E820Carry
  <2>1. /\ setup = "e820" /\ UNCHANGED <<reported, buffer, e820_count, di>> /\ UNCHANGED vbe
        /\ setup' \in {"vbe", "failed"}
        /\ setup' = "vbe" => e820_count # 0
    BY <1>2 DEF E820Carry, e820
  <2>2. MapCollected'
    BY <1>0, <2>1 DEF MapCollected
  <2> QED BY <2>1, <2>2 DEF ModeDescribed, SetupTyped, vbe
<1>3. CASE E820Bad
  <2>1. PICK e \in Entries : buffer' = Put(buffer, di, e)
    BY <1>3 DEF E820Bad
  <2>2. /\ setup = "e820" /\ setup' = "failed" /\ UNCHANGED <<reported, e820_count>>
        /\ UNCHANGED vbe
    BY <1>3 DEF E820Bad
  <2>3. di \in 1 .. Len(buffer) + 1 /\ di <= MaxEntries
    BY <1>0, <2>2 DEF MapCollected
  <2>4. /\ buffer' \in Seq(Entries)
        /\ Len(buffer') = IF di > Len(buffer) THEN di ELSE Len(buffer)
    BY <2>1, <2>3, PutEntry DEF MapCollected
  <2>5. e820_count \in 0 .. Len(buffer') /\ Len(buffer') <= MaxEntries
    BY <1>0, <2>3, <2>4 DEF MapCollected
  <2>6. MapCollected'
    BY <2>2, <2>4, <2>5 DEF MapCollected
  <2> QED BY <2>2, <2>6 DEF ModeDescribed, SetupTyped, vbe
<1>4. ASSUME NEW suitable \in BOOLEAN, TryVbeMode(suitable) \/ TryVbeModeFails
      PROVE  /\ MapCollected' /\ ModeDescribed' /\ SetupTyped'
             /\ setup' \in {"e820", "vbe", "set_mode", "ready", "failed"}
  <2>1. /\ setup = "vbe" /\ setup' \in {"vbe", "set_mode", "failed"}
        /\ UNCHANGED <<reported, buffer, e820_count, di>>
        /\ setup' = "set_mode" => vbe_info' = vbe_selected_mode'
    BY <1>4 DEF TryVbeMode, TryVbeModeFails, SelectedMode, e820
  <2>2. tries' \in 0 .. Len(Modes)
    BY <1>0, <1>4 DEF TryVbeMode, TryVbeModeFails, SetupTyped
  <2>3. MapCollected'
    BY <2>1 DEF MapCollected
  <2> QED BY <2>1, <2>2, <2>3 DEF ModeDescribed, SetupTyped
<1>5. CASE SetMode \/ SetModeFails
  <2>1. /\ setup = "set_mode" /\ setup' \in {"ready", "failed"}
        /\ UNCHANGED <<reported, buffer, e820_count, di, tries, vbe_info>>
        /\ setup' = "ready" => screen' = vbe_selected_mode
    BY <1>5 DEF SetMode, SetModeFails, e820, vbe
  <2>2. MapCollected'
    BY <2>1 DEF MapCollected
  <2> QED BY <2>1, <2>2 DEF ModeDescribed, SetupTyped
<1> QED BY <1>1, <1>2, <1>3, <1>4, <1>5 DEF PlatformNext

-----------------------------------------------------------------------------
(* The chain. *)

\* A step that leaves the map alone keeps what is known of it.
LEMMA PlatformKept ==
  ASSUME MapCollected, ModeDescribed, UNCHANGED platformVars
  PROVE  /\ MapCollected' /\ ModeDescribed'
         /\ StagingRangeIsUsable' <=> StagingRangeIsUsable
<1>1. UNCHANGED <<setup, reported, buffer, e820_count, di, vbe_selected_mode, vbe_info, screen>>
  BY DEF platformVars, e820, vbe
<1> QED BY <1>1 DEF MapCollected, ModeDescribed, StagingRangeIsUsable

\* The steps that move the CPU and leave the disk, the flags and the platform
\* data alone.
Moves ==
  \/ pc' \in {"halted", "load_elf", "kernel64", "kernel32", "bad_bootinfo"}
  \/ pc \in {"menu", "wait", "diagnostics"}
       /\ pc' \in {"menu", "wait", "diagnostics", "boot", "int19"}
  \/ pc = "int19" /\ pc' = "reset"
  \/ pc = "protected" /\ pc' = "pm_main" /\ (filesystem_boot => StagingRangeIsUsable)
  \/ pc = "pm_main" /\ pc' = "fs_load" /\ filesystem_boot
  \/ pc = "pm_main" /\ pc' = "flat_entry" /\ ~filesystem_boot

\* Such a step keeps the invariant.
LEMMA MoveKeepsChain ==
  ASSUME ChainInv, TypeOK', Moves,
         UNCHANGED <<media, filesystem_boot, extent, platformVars, configured>>
  PROVE  ChainInv'
<1>1. /\ MapCollected' /\ ModeDescribed'
      /\ StagingRangeIsUsable' <=> StagingRangeIsUsable
  BY PlatformKept DEF ChainInv
<1>2. UNCHANGED <<setup, media, filesystem_boot, extent, configured>>
  BY DEF platformVars
<1>3. SetupInStep'
  BY <1>2 DEF ChainInv, SetupInStep, Moves
<1>4. FlagsOfDisk'
  BY <1>1, <1>2 DEF ChainInv, FlagsOfDisk, Moves, HasBootPartition
<1> QED BY <1>1, <1>3, <1>4 DEF ChainInv

\* Tick counts stay 16 bits wide.
LEMMA TickTyped ==
  ASSUME TypeOK, Tick
  PROVE  ticks' \in 0 .. TickModulus - 1
<1>1. /\ TickModulus \in Nat \ {0} /\ ticks \in Nat
      /\ ticks' = (ticks + 1) % TickModulus \/ ticks' = 0
  BY BootChainAssumption DEF TypeOK, Tick
<1> QED BY <1>1

\* The invariant holds at the first power-on.
LEMMA InitChainInv == Init => ChainInv /\ ImageOfThisBoot
<1> SUFFICES ASSUME Init PROVE ChainInv /\ ImageOfThisBoot
  OBVIOUS
<1>1. Len(<<>>) = 0 /\ <<>> \in Seq(Entries) /\ Len(Modes) \in Nat
  BY PlatformAssumption, EmptySeq, LenProperties
<1>2. TypeOK
  <2>1. filesystem_boot \in BOOLEAN /\ image \in BOOLEAN /\ configured \in BOOLEAN
    BY DEF Init
  <2>2. /\ ticks \in 0 .. TickModulus - 1 /\ start_ticks \in 0 .. TickModulus - 1
        /\ e820_count \in 0 .. Len(buffer) /\ tries \in 0 .. Len(Modes)
    BY <1>1, BootChainAssumption DEF Init, PlatformInit
  <2> QED BY <2>1, <2>2 DEF Init, PlatformInit, TypeOK
<1>3. MapCollected /\ ModeDescribed
  BY <1>1, PlatformAssumption DEF Init, PlatformInit, MapCollected, ModeDescribed
<1>4. SetupInStep /\ FlagsOfDisk /\ ImageOfThisBoot
  BY DEF Init, PlatformInit, SetupInStep, FlagsOfDisk, ImageOfThisBoot
<1> QED BY <1>2, <1>3, <1>4 DEF ChainInv

\* Every step of the chain preserves the invariant.
LEMMA NextChainInv == ChainInv /\ [Next]_vars => ChainInv'
<1> SUFFICES ASSUME ChainInv, [Next]_vars PROVE ChainInv'
  OBVIOUS
<1>0. TypeOK /\ MapCollected /\ ModeDescribed /\ SetupInStep /\ FlagsOfDisk
  BY DEF ChainInv
<1>1. CASE Stage1Fails \/ MenuTimeout \/ MenuKey \/ DiagnosticsKey \/ Int19
           \/ BootKernelFails \/ EnterProtectedMode \/ EnterProtectedModeFails
           \/ Handoff \/ LoadElfFails \/ FlatEntry \/ ElfHeaderExecuted
  <2>1. /\ UNCHANGED <<media, ticks, start_ticks, image>> /\ UNCHANGED stage2_data
    BY <1>1 DEF Stage1Fails, MenuTimeout, MenuKey, DiagnosticsKey, Int19, BootKernelFails,
                EnterProtectedMode, EnterProtectedModeFails, Handoff, LoadElfFails,
                FlatEntry, ElfHeaderExecuted
  <2>2. Moves
    BY <1>1 DEF Stage1Fails, MenuTimeout, MenuKey, DiagnosticsKey, Int19, BootKernelFails,
                EnterProtectedMode, EnterProtectedModeFails, Handoff, LoadElfFails,
                FlatEntry, ElfHeaderExecuted, Moves
  <2>3. pc' \in {"reset", "menu", "boot", "diagnostics", "int19", "pm_main", "kernel64",
                 "kernel32", "bad_bootinfo", "halted"}
    BY <1>1 DEF Stage1Fails, MenuTimeout, MenuKey, DiagnosticsKey, Int19, BootKernelFails,
                EnterProtectedMode, EnterProtectedModeFails, Handoff, LoadElfFails,
                FlatEntry, ElfHeaderExecuted
  <2>4. TypeOK'
    BY <1>0, <2>1, <2>3 DEF TypeOK, stage2_data, platformVars, e820, vbe
  <2> QED BY <2>1, <2>2, <2>4, MoveKeepsChain DEF stage2_data
<1>2. CASE ShowBootMenu \/ Tick
  <2>1. /\ UNCHANGED <<media, image>> /\ UNCHANGED stage2_data
        /\ pc \in {"menu", "wait"} /\ pc' = "wait"
        /\ start_ticks' \in {ticks, start_ticks}
    BY <1>2 DEF ShowBootMenu, Tick
  <2>2. ticks' \in 0 .. TickModulus - 1
    BY <1>0, <1>2, TickTyped DEF ShowBootMenu, TypeOK
  <2>3. TypeOK'
    BY <1>0, <2>1, <2>2 DEF TypeOK, stage2_data, platformVars, e820, vbe
  <2>4. Moves
    BY <2>1 DEF Moves
  <2> QED BY <2>1, <2>3, <2>4, MoveKeepsChain DEF stage2_data
<1>3. CASE PmMain
  <2>1. /\ UNCHANGED <<media, ticks, start_ticks, image, filesystem_boot, extent,
                       platformVars, configured>>
        /\ pc = "pm_main" /\ pc' = AfterImageTest /\ eax' \in {"zero", eax}
    BY <1>3 DEF PmMain
  <2>2. pc' \in {"load_elf", "fs_load", "flat_entry"} /\ Moves
    BY <2>1 DEF AfterImageTest, Moves
  <2>3. TypeOK'
    BY <1>0, <2>1, <2>2 DEF TypeOK, platformVars, e820, vbe
  <2> QED BY <2>1, <2>2, <2>3, MoveKeepsChain
<1>4. CASE LoadKernelFile \/ LoadKernelFileFails
  <2>1. /\ UNCHANGED <<media, ticks, start_ticks, filesystem_boot, extent, platformVars, eax>>
        /\ pc' \in {"load_elf", "halted"} /\ image' \in BOOLEAN /\ configured' \in BOOLEAN
    BY <1>0, <1>4 DEF LoadKernelFile, LoadKernelFileFails, stage2_data, TypeOK
  <2>2. TypeOK'
    BY <1>0, <2>1 DEF TypeOK, platformVars, e820, vbe
  <2>3. MapCollected' /\ ModeDescribed'
    BY <1>0, <2>1, PlatformKept
  <2>4. SetupInStep' /\ FlagsOfDisk'
    BY <2>1 DEF SetupInStep, FlagsOfDisk
  <2> QED BY <2>2, <2>3, <2>4 DEF ChainInv
<1>5. CASE Stage1
  <2>1. /\ pc = "reset" /\ pc' = "menu" /\ UNCHANGED <<media, ticks, start_ticks, image>>
        /\ filesystem_boot' = FALSE /\ extent' = "none" /\ configured' = FALSE
        /\ eax' = "undefined" /\ e820_count' = 0
        /\ UNCHANGED <<setup, reported, buffer, di, tries, vbe_info, screen>>
    BY <1>5 DEF Stage1, FreshStage2
  <2>2. setup = "idle" /\ setup' = "idle"
    BY <1>0, <2>1 DEF SetupInStep
  <2>3. Len(buffer) \in Nat
    BY <1>0, LenProperties DEF MapCollected
  <2>4. MapCollected' /\ ModeDescribed' /\ SetupInStep'
    BY <1>0, <2>1, <2>2, <2>3 DEF MapCollected, ModeDescribed, SetupInStep
  <2>5. ~filesystem_boot' /\ ~configured' /\ filesystem_boot' \in BOOLEAN
        /\ configured' \in BOOLEAN
    BY <2>1
  <2>6. FlagsOfDisk'
    BY <2>1, <2>5 DEF FlagsOfDisk
  <2>7. TypeOK'
    BY <1>0, <2>1, <2>3, <2>5 DEF TypeOK
  <2> QED BY <2>4, <2>6, <2>7 DEF ChainInv
<1>6. CASE BootKernel
  <2>1. /\ pc = "boot" /\ UNCHANGED <<media, ticks, start_ticks, image, configured, eax>>
        /\ extent' = CASE media = "flat" -> "flat" [] media = "flat_elf" -> "elf"
                       [] OTHER -> extent
        /\ \/ extent' = "flat" /\ pc' = "protected" /\ UNCHANGED platformVars
           \/ extent' # "flat" /\ pc' = "platform" /\ BeginPlatform
    BY <1>6 DEF BootKernel
  <2>2. ~filesystem_boot /\ extent = "none" /\ setup = "idle"
    BY <1>0, <2>1 DEF FlagsOfDisk, SetupInStep
  <2>3. (filesystem_boot' <=> HasBootPartition) /\ filesystem_boot' \in BOOLEAN
    BY <1>6, <2>2 DEF BootKernel, HasBootPartition
  <2>4. /\ extent' \in {"none", "flat", "elf"} /\ (extent' = "none" <=> HasBootPartition)
    BY <1>0, <2>1, <2>2 DEF TypeOK, Media, HasBootPartition
  <2>5. FlagsOfDisk'
    BY <2>1, <2>3, <2>4 DEF FlagsOfDisk, HasBootPartition
  <2>6. CASE pc' = "protected" /\ extent' = "flat" /\ UNCHANGED platformVars
    <3>1. MapCollected' /\ ModeDescribed'
      BY <1>0, <2>6, PlatformKept
    <3>2. SetupInStep'
      BY <2>6 DEF SetupInStep
    <3>3. TypeOK'
      BY <1>0, <2>1, <2>3, <2>4, <2>6 DEF TypeOK, platformVars, e820, vbe
    <3> QED BY <2>5, <3>1, <3>2, <3>3 DEF ChainInv
  <2>7. CASE pc' = "platform" /\ BeginPlatform
    <3>1. /\ setup' = "e820" /\ reported' = <<>> /\ e820_count' = 0 /\ di' = 1 /\ tries' = 0
          /\ buffer' = buffer
      BY <2>7 DEF BeginPlatform
    <3>2. /\ Len(buffer) \in Nat /\ Len(Modes) \in Nat /\ Len(<<>>) = 0
          /\ <<>> \in Seq(Entries) /\ MaxEntries \in Nat \ {0}
      BY <1>0, PlatformAssumption, LenProperties, EmptySeq DEF MapCollected
    <3>3. MapCollected'
      BY <1>0, <3>1, <3>2 DEF MapCollected
    <3>4. ModeDescribed' /\ SetupInStep'
      BY <2>7, <3>1 DEF ModeDescribed, SetupInStep
    <3>5. TypeOK'
      BY <1>0, <2>1, <2>3, <2>4, <2>7, <3>1, <3>2 DEF TypeOK
    <3> QED BY <2>5, <3>3, <3>4, <3>5 DEF ChainInv
  <2> QED BY <2>1, <2>6, <2>7
<1>7. CASE PreparePlatform
  <2>1. /\ pc = "platform" /\ PlatformNext /\ pc' = AfterSetup(setup')
        /\ UNCHANGED <<media, ticks, start_ticks, image, filesystem_boot, extent,
                       configured, eax>>
    BY <1>7 DEF PreparePlatform
  <2>2. SetupTyped
    BY <1>0 DEF TypeOK, SetupTyped
  <2>3. /\ MapCollected' /\ ModeDescribed' /\ SetupTyped'
        /\ setup' \in {"e820", "vbe", "set_mode", "ready", "failed"}
    BY <1>0, <2>1, <2>2, PlatformStep
  <2>4. /\ pc' \in {"platform", "protected", "halted"}
        /\ pc' = "platform" => setup' \in {"e820", "vbe", "set_mode"}
        /\ pc' = "protected" => setup' = "ready"
    BY <2>1, <2>3 DEF AfterSetup
  <2>5. SetupInStep'
    BY <2>4 DEF SetupInStep
  <2>6. FlagsOfDisk'
    BY <1>0, <2>1, <2>4 DEF FlagsOfDisk, HasBootPartition
  <2>7. TypeOK'
    BY <1>0, <2>1, <2>3, <2>4 DEF TypeOK, SetupTyped, MapCollected
  <2> QED BY <2>3, <2>5, <2>6, <2>7 DEF ChainInv
<1>8. CASE Reset
  <2>1. /\ pc' = "reset" /\ media' \in Media /\ image' \in {image, FALSE}
        /\ setup' = "idle" /\ reported' = <<>> /\ tries' = 0
        /\ \/ UNCHANGED <<buffer, e820_count>>
           \/ buffer' = <<>> /\ e820_count' = 0
        /\ UNCHANGED <<ticks, start_ticks, filesystem_boot, extent, configured, eax>>
    BY <1>8 DEF Reset
  <2>2. /\ Len(<<>>) = 0 /\ <<>> \in Seq(Entries) /\ Len(Modes) \in Nat
        /\ MaxEntries \in Nat
    BY PlatformAssumption, LenProperties, EmptySeq
  <2>3. MapCollected'
    <3>1. /\ buffer' \in Seq(Entries) /\ e820_count' \in 0 .. Len(buffer')
          /\ Len(buffer') <= MaxEntries
      <4>1. CASE UNCHANGED <<buffer, e820_count>>
        BY <1>0, <4>1 DEF MapCollected
      <4>2. CASE buffer' = <<>> /\ e820_count' = 0
        <5>1. Len(buffer') = 0
          BY <4>2
        <5> QED BY <2>2, <4>2, <5>1
      <4> QED BY <2>1, <4>1, <4>2
    <3> QED BY <2>1, <2>2, <3>1 DEF MapCollected
  <2>4. ModeDescribed' /\ SetupInStep' /\ FlagsOfDisk'
    BY <2>1 DEF ModeDescribed, SetupInStep, FlagsOfDisk
  <2>5. image' \in BOOLEAN
    BY <1>0, <2>1 DEF TypeOK
  <2>6. TypeOK'
    BY <1>0, <2>1, <2>2, <2>5 DEF TypeOK
  <2> QED BY <2>3, <2>4, <2>6 DEF ChainInv
<1>9. CASE UNCHANGED vars
  <2>1. UNCHANGED <<media, pc, ticks, start_ticks, filesystem_boot, extent, platformVars,
                    image, configured, eax>>
    BY <1>9 DEF vars
  <2>2. /\ MapCollected' /\ ModeDescribed'
        /\ StagingRangeIsUsable' <=> StagingRangeIsUsable
    BY <1>0, <2>1, PlatformKept
  <2>3. TypeOK' /\ SetupInStep'
    BY <1>0, <2>1 DEF TypeOK, SetupInStep, platformVars, e820, vbe
  <2>4. FlagsOfDisk'
    BY <1>0, <2>1, <2>2 DEF FlagsOfDisk, HasBootPartition
  <2> QED BY <2>2, <2>3, <2>4 DEF ChainInv
<1> QED BY <1>1, <1>2, <1>3, <1>4, <1>5, <1>6, <1>7, <1>8, <1>9 DEF Next, Boots

-----------------------------------------------------------------------------
(* The theorems. *)

\* The inductive invariant holds in every reachable state.
LEMMA ChainInvariant == Spec => []ChainInv
<1>1. Init => ChainInv
  BY InitChainInv
<1> QED BY <1>1, NextChainInv, PTL DEF Spec

\* Tick counts stay 16 bits wide, the count of map entries within the buffer and
\* the CPU at one of the chain's steps.
THEOREM TypeCorrect == Spec => []TypeOK
<1>1. ChainInv => TypeOK
  BY DEF ChainInv
<1> QED BY <1>1, ChainInvariant, PTL

\* Stage 2 never jumps to 0x10000 without having loaded the fixed extent there,
\* and never in a filesystem boot, whether or not memory survives a reset.
THEOREM FlatEntryIsLoaded == Spec => []FlatEntryLoaded
<1>1. ChainInv => FlatEntryLoaded
  BY DEF ChainInv, FlagsOfDisk, FlatEntryLoaded
<1> QED BY <1>1, ChainInvariant, PTL

\* A sum of two addresses that wraps is no larger than the sum that does not.
LEMMA EndBounded ==
  ASSUME NEW e \in EntryType
  PROVE  EntryEnd(e) \in Nat /\ EntryEnd(e) <= e.base + e.length
<1>1. AddrLimit \in Nat \ {0}
  BY PlatformAssumption
<1>2. e.base \in Nat /\ e.length \in Nat /\ e.base < AddrLimit /\ e.length < AddrLimit
  BY <1>1 DEF EntryType
<1>3. CASE e.base + e.length < AddrLimit
  <2>1. EntryEnd(e) = e.base + e.length
    BY <1>1, <1>2, <1>3 DEF EntryEnd
  <2> QED BY <1>2, <2>1
<1>4. CASE e.base + e.length >= AddrLimit
  <2>1. EntryEnd(e) = e.base + e.length - AddrLimit
    BY <1>1, <1>2, <1>4 DEF EntryEnd
  <2> QED BY <1>1, <1>2, <1>4, <2>1
<1> QED BY <1>1, <1>2, <1>3, <1>4

\* The kernel file is staged only in memory that the firmware's map of this
\* boot calls usable from end to end.
THEOREM StagingIsMemory == Spec => []StagedInMemory
<1>1. ChainInv => StagedInMemory
  <2> SUFFICES ASSUME ChainInv, pc = "fs_load", NEW a \in StageStart .. StageEnd - 1
               PROVE  \E i \in 1 .. Len(reported) :
                        /\ reported[i].usable
                        /\ a \in reported[i].base .. reported[i].base + reported[i].length - 1
    BY DEF StagedInMemory
  <2>1. StagingRangeIsUsable /\ extent = "none"
    BY DEF ChainInv, FlagsOfDisk
  <2>2. setup = "ready"
    BY <2>1 DEF ChainInv, SetupInStep
  <2>3. /\ e820_count = Len(reported) /\ reported \in Seq(Entries)
        /\ \A i \in 1 .. e820_count : buffer[i] = reported[i]
    BY <2>2 DEF ChainInv, MapCollected
  <2>4. PICK i \in 1 .. e820_count : HoldsStage(buffer[i])
    BY <2>1 DEF StagingRangeIsUsable
  <2>5. i \in 1 .. Len(reported) /\ HoldsStage(reported[i]) /\ reported[i] \in EntryType
    BY <2>3, <2>4, ElementOfSeq, PlatformAssumption
  <2>6. /\ reported[i].usable /\ StageStart >= reported[i].base
        /\ StageEnd <= EntryEnd(reported[i])
    BY <2>5 DEF HoldsStage
  <2>7. EntryEnd(reported[i]) \in Nat
        /\ EntryEnd(reported[i]) <= reported[i].base + reported[i].length
    BY <2>5, EndBounded
  <2>8. reported[i].base \in Nat /\ reported[i].length \in Nat
    BY <2>5, PlatformAssumption DEF EntryType
  <2>9. StageStart \in Nat /\ StageEnd \in Nat
    BY PlatformAssumption
  <2>10. a \in reported[i].base .. reported[i].base + reported[i].length - 1
    BY <2>6, <2>7, <2>8, <2>9
  <2> QED BY <2>5, <2>6, <2>10
<1> QED BY <1>1, ChainInvariant, PTL

\* On a machine that clears its memory at reset, an ELF image is in the staging
\* range only once load_kernel_file has read it in this boot.
LEMMA NextImageOfThisBoot ==
  ASSUME ~RamRetained
  PROVE  ChainInv /\ ImageOfThisBoot /\ [Next]_vars => ImageOfThisBoot'
<1> SUFFICES ASSUME ChainInv, ImageOfThisBoot, [Next]_vars PROVE ImageOfThisBoot'
  OBVIOUS
<1>1. CASE LoadKernelFile
  <2>1. /\ pc = "fs_load" /\ configured' = TRUE /\ pc' = "load_elf" /\ setup' = setup
    BY <1>1 DEF LoadKernelFile, platformVars
  <2>2. setup = "ready"
    BY <2>1 DEF ChainInv, SetupInStep, FlagsOfDisk
  <2> QED BY <2>1, <2>2 DEF ImageOfThisBoot
<1>2. CASE Handoff
  <2>1. /\ pc = "load_elf" /\ pc' = "kernel64" /\ configured' = configured /\ setup' = setup
    BY <1>2 DEF Handoff, stage2_data, platformVars
  <2> QED BY <2>1 DEF ImageOfThisBoot
<1>3. CASE PmMain
  <2>1. pc' \notin {"load_elf", "kernel64"} /\ ~image /\ image' = image
    BY <1>3 DEF PmMain, AfterImageTest, ImageOfThisBoot
  <2> QED BY <2>1 DEF ImageOfThisBoot
<1>4. CASE Reset
  <2>1. image' = FALSE /\ pc' = "reset"
    BY <1>4 DEF Reset
  <2>2. ~image'
    BY <2>1
  <2> QED BY <2>1, <2>2 DEF ImageOfThisBoot
<1>5. CASE LoadKernelFileFails \/ LoadElfFails
  BY <1>5 DEF LoadKernelFileFails, LoadElfFails, ImageOfThisBoot
<1>6. CASE Stage1 \/ Stage1Fails \/ ShowBootMenu \/ Tick \/ MenuTimeout \/ MenuKey
           \/ DiagnosticsKey \/ Int19 \/ BootKernel \/ BootKernelFails \/ PreparePlatform
           \/ EnterProtectedMode \/ EnterProtectedModeFails \/ FlatEntry
           \/ ElfHeaderExecuted
  <2>1. /\ image' = image /\ pc \notin {"load_elf", "kernel64", "halted"}
        /\ pc' \notin {"load_elf", "kernel64"}
    BY <1>6 DEF Stage1, Stage1Fails, ShowBootMenu, Tick, MenuTimeout, MenuKey,
                DiagnosticsKey, Int19, BootKernel, BootKernelFails, PreparePlatform,
                AfterSetup, EnterProtectedMode, EnterProtectedModeFails, FlatEntry,
                ElfHeaderExecuted
  <2> QED BY <2>1 DEF ImageOfThisBoot
<1>7. CASE UNCHANGED vars
  BY <1>7 DEF vars, platformVars, ImageOfThisBoot
<1> QED BY <1>1, <1>2, <1>3, <1>4, <1>5, <1>6, <1>7 DEF Next, Boots

\* The same as an invariant of the chain.
LEMMA ImageInvariant ==
  ASSUME ~RamRetained
  PROVE  Spec => [](ChainInv /\ ImageOfThisBoot)
BY InitChainInv, NextChainInv, NextImageOfThisBoot, PTL DEF Spec

\* A disk with a boot partition is booted through its BOOT.CFG and its health
\* record, if a reset does not leave an older kernel's image in memory.
THEOREM PartitionBootsFromFile ==
  ASSUME ~RamRetained
  PROVE  Spec => []FilesystemBootLoadsFile
<1>1. ImageOfThisBoot => FilesystemBootLoadsFile
  BY DEF ImageOfThisBoot, FilesystemBootLoadsFile
<1> QED BY <1>1, ImageInvariant, PTL

\* Under the same condition a 64-bit kernel gets the firmware's map of this boot,
\* whole up to the limit and in its order, and the mode the screen is in.
THEOREM BootInfoIsCurrent ==
  ASSUME ~RamRetained
  PROVE  Spec => []BootInfoOfThisBoot
<1>1. ChainInv /\ ImageOfThisBoot => BootInfoOfThisBoot
  <2> SUFFICES ASSUME ChainInv, ImageOfThisBoot PROVE BootInfoOfThisBoot
    OBVIOUS
  <2>1. Len(buffer) <= MaxEntries
    BY DEF ChainInv, MapCollected
  <2>2. ASSUME pc = "kernel64"
        PROVE  /\ SubSeq(buffer, 1, e820_count) = reported /\ reported # <<>>
               /\ vbe_info = screen
    <3>1. setup = "ready"
      BY <2>2 DEF ImageOfThisBoot
    <3>2. /\ reported \in Seq(Entries) /\ buffer \in Seq(Entries)
          /\ e820_count \in 0 .. Len(buffer) /\ e820_count = Len(reported)
          /\ \A i \in 1 .. e820_count : buffer[i] = reported[i]
          /\ e820_count > 0 /\ vbe_info = screen
      BY <3>1 DEF ChainInv, MapCollected, ModeDescribed
    <3>3. /\ SubSeq(buffer, 1, e820_count) \in Seq(Entries)
          /\ Len(SubSeq(buffer, 1, e820_count)) = e820_count
          /\ \A i \in 1 .. e820_count : SubSeq(buffer, 1, e820_count)[i] = buffer[i]
      BY <3>2, LenProperties, SubSeqProperties
    <3>4. SubSeq(buffer, 1, e820_count) = reported
      BY <3>2, <3>3, SeqEqual
    <3>5. reported # <<>>
      BY <3>2, EmptySeq
    <3> QED BY <3>2, <3>4, <3>5
  <2> QED BY <2>1, <2>2 DEF BootInfoOfThisBoot, MapAsReported, FramebufferOfScreen, BootInfo
<1> QED BY <1>1, ImageInvariant, PTL
=============================================================================
