------------------------------ MODULE UefiBoot ------------------------------
(***************************************************************************)
(* The UEFI loader, boot/uefi/main.c: the health record in one UEFI        *)
(* variable, the choice of a kernel candidate, and the protocol that ends  *)
(* boot services: read the memory map, then exit with the key of exactly   *)
(* that map, at most three times.                                          *)
(*                                                                         *)
(* UEFI is the environment.  Variable services may fail (a SetVariable     *)
(* that fails leaves the old value), the firmware may change the memory    *)
(* map at any time before boot services end, and the operating system may  *)
(* update the health variable through runtime services, with the same      *)
(* functions of health.c.                                                  *)
(***************************************************************************)
EXTENDS HealthRecord

CONSTANTS
  MaxFaults,        \* bound: variable-service faults in a behaviour
  MaxOsUpdates,     \* bound: health updates by the operating system
  MaxMapChanges     \* bound: map changes in one boot

ASSUME UefiBootAssumption ==
  /\ MaxFaults \in Nat
  /\ MaxOsUpdates \in Nat
  /\ MaxMapChanges \in Nat

MaxExitTries == 3

VARIABLES
  nv,           \* the JoshBootHealth variable; Corrupt when there is none
  pc,           \* where efi_main is
  health,       \* the record in RAM
  slot,         \* the slot load_files is trying
  candidate,    \* its loop counter
  paths,        \* slots for which BOOT.CFG names a kernel
  map_key,      \* the firmware's current memory map, by its key
  descriptors_fit, \* the firmware's map entries are EFI_MEMORY_DESCRIPTORs or
                   \* longer: a property of the firmware, never changing
  key,          \* key of the last map capture_map was given
  captured,     \* key of the map in the metadata page
  tries,        \* ExitBootServices calls so far
  faults,
  os_updates,
  launched      \* kernels started on trial since the last OS update

vars == <<nv, pc, health, slot, candidate, paths, map_key, descriptors_fit,
          key, captured, tries, faults, os_updates, launched>>
load == <<health, slot, candidate, paths>>
map  == <<map_key, descriptors_fit, key, captured, tries>>
tally == <<faults, os_updates, launched>>

LoaderSteps == {"config", "health", "store_default", "prepare", "store",
                "load", "place", "capture", "exit"}

\* The variable and the record in RAM are well formed, no attempt count exceeds
\* the limit, and ExitBootServices is retried twice at most.
TypeOK ==
  /\ nv \in HealthRecords
  /\ pc \in LoaderSteps \cup {"firmware", "kernel"}
  /\ health \in HealthRecords
  /\ slot \in Slots
  /\ candidate \in 0 .. 3
  /\ paths \in SUBSET Slots
  /\ map_key \in 0 .. MaxMapChanges
  /\ descriptors_fit \in BOOLEAN
  /\ key \in 0 .. MaxMapChanges
  /\ captured \in 0 .. MaxMapChanges
  /\ tries \in 0 .. MaxExitTries - 1
  /\ faults \in 0 .. MaxFaults
  /\ os_updates \in 0 .. MaxOsUpdates
  /\ launched \in Nat

Init ==
  /\ nv = Corrupt
  /\ pc = "firmware"
  /\ health = Corrupt
  /\ slot = CURRENT
  /\ candidate = 0
  /\ paths = {}
  /\ map_key = 0
  /\ descriptors_fit \in BOOLEAN
  /\ key = 0
  /\ captured = 0
  /\ tries = 0
  /\ faults = 0
  /\ os_updates = 0
  /\ launched = 0

Fault == /\ faults < MaxFaults
         /\ faults' = faults + 1
         /\ UNCHANGED <<os_updates, launched>>

-----------------------------------------------------------------------------
(* load_files *)

EfiMain ==
  /\ pc = "firmware"
  /\ pc' = "config"
  /\ UNCHANGED <<nv, load, map, tally>>

LoadConfig ==
  /\ pc = "config"
  /\ paths' \in {S \in SUBSET Slots : CURRENT \in S}
  /\ pc' = "health"
  /\ UNCHANGED <<nv, health, slot, candidate, map, tally>>

\* efi_main returns an error: the firmware goes on to its next boot option.
Abandon ==
  /\ pc' = "firmware"
  /\ health' = Corrupt
  /\ slot' = CURRENT
  /\ candidate' = 0
  /\ paths' = {}
  /\ map_key' = 0
  /\ key' = 0
  /\ captured' = 0
  /\ tries' = 0
  /\ UNCHANGED descriptors_fit

LoadConfigFails ==
  /\ pc = "config"
  /\ Abandon
  /\ UNCHANGED <<nv, tally>>

\* uefi_health_load: a variable that is there and valid is used ...
HealthLoad ==
  /\ pc = "health"
  /\ Valid(nv)
  /\ health' = nv
  /\ pc' = "prepare"
  /\ UNCHANGED <<nv, slot, candidate, paths, map, tally>>

\* ... and any other answer, a failed read of a good variable included, is
\* replaced by the default record.
HealthInitialise ==
  /\ pc = "health"
  /\ IF Valid(nv) THEN Fault ELSE UNCHANGED tally
  /\ health' = DefaultRecord
  /\ pc' = "store_default"
  /\ UNCHANGED <<nv, slot, candidate, paths, map>>

\* uefi_health_store: SetVariable takes effect or fails and changes nothing;
\* either way the boot goes on.
StoreThen(next) ==
  /\ pc' = next
  /\ \/ nv' = health /\ UNCHANGED tally
     \/ Fault /\ UNCHANGED nv
  /\ UNCHANGED <<load, map>>

StoreDefault == pc = "store_default" /\ StoreThen("prepare")

Store == pc = "store" /\ StoreThen("load")

Prepare ==
  /\ pc = "prepare"
  /\ health' = PrepareAttempt(health)
  /\ slot' = health'.selected_slot
  /\ pc' = IF health'.generation # health.generation THEN "store" ELSE "load"
  /\ UNCHANGED <<nv, candidate, paths, map, tally>>

LoadKernel ==
  /\ pc = "load"
  /\ candidate < 3
  /\ slot \in paths
  /\ pc' = "place"
  /\ UNCHANGED <<nv, load, map, tally>>

FallbackFrom(from) ==
  IF from = CURRENT /\ PREVIOUS \in paths THEN {PREVIOUS}
  ELSE IF from # RECOVERY /\ RECOVERY \in paths THEN {RECOVERY}
  ELSE {}

Fallback ==
  /\ pc = "load"
  /\ candidate < 3
  /\ \E s \in FallbackFrom(slot) :
       /\ health' = SelectFallback(health, s, FAILURE_KERNEL_FILE)
       /\ slot' = s
  /\ candidate' = candidate + 1
  /\ pc' = "store"
  /\ UNCHANGED <<nv, paths, map, tally>>

CandidatesExhausted ==
  /\ pc = "load"
  /\ candidate < 3 => FallbackFrom(slot) = {}
  /\ Abandon
  /\ UNCHANGED <<nv, tally>>

-----------------------------------------------------------------------------
(* From the loaded file to the end of boot services. *)

\* The image is below 4 GiB; load_elf, metadata, framebuffer and page tables
\* succeed; a buffer is sized from the map of this moment, whose entries are
\* long enough.
Place ==
  /\ pc = "place"
  /\ descriptors_fit
  /\ pc' = "capture"
  /\ UNCHANGED <<nv, load, map, tally>>

PlaceFails ==
  /\ pc = "place"
  /\ Abandon
  /\ UNCHANGED <<nv, tally>>

\* capture_map: `key' and the metadata page now describe the current map.  With
\* entries too short to read it reports success too, and leaves the page alone.
CaptureMap ==
  /\ pc = "capture"
  /\ key' = map_key
  /\ captured' = IF descriptors_fit THEN map_key ELSE captured
  /\ pc' = "exit"
  /\ UNCHANGED <<nv, load, map_key, descriptors_fit, tries, tally>>

\* The map has outgrown the buffer or the metadata page, on the first
\* call or on a later one.
CaptureMapFails ==
  /\ pc = "capture"
  /\ Abandon
  /\ UNCHANGED <<nv, tally>>

\* Mutant: the status of ExitBootServices is ignored.
ExitBootServicesUnchecked ==
  /\ pc = "exit"
  /\ pc' = "kernel"
  /\ launched' = launched + (IF health.pending_good THEN 1 ELSE 0)
  /\ UNCHANGED <<nv, load, map, faults, os_updates>>

\* ExitBootServices accepts only the key of the current map.  The kernel is
\* entered at once, with interrupts off.
ExitBootServices ==
  /\ pc = "exit"
  /\ key = map_key
  /\ pc' = "kernel"
  /\ launched' = launched + (IF health.pending_good THEN 1 ELSE 0)
  /\ UNCHANGED <<nv, load, map, faults, os_updates>>

\* A stale key: capture again, twice at most.
ExitRetry ==
  /\ pc = "exit"
  /\ key # map_key
  /\ tries < MaxExitTries - 1
  /\ tries' = tries + 1
  /\ pc' = "capture"
  /\ UNCHANGED <<nv, load, map_key, descriptors_fit, key, captured, tally>>

\* Mutant: one try too few.
ExitGivesUpEarly ==
  /\ pc = "exit"
  /\ key # map_key
  /\ tries = MaxExitTries - 2
  /\ Abandon
  /\ UNCHANGED <<nv, tally>>

ExitGivesUp ==
  /\ pc = "exit"
  /\ key # map_key
  /\ tries = MaxExitTries - 1
  /\ Abandon
  /\ UNCHANGED <<nv, tally>>

\* A firmware event allocates or frees memory; the map gets a new key.
MapChanges ==
  /\ pc \in {"place", "capture", "exit"}
  /\ map_key < MaxMapChanges
  /\ map_key' = map_key + 1
  /\ UNCHANGED <<nv, pc, load, descriptors_fit, key, captured, tries, tally>>

-----------------------------------------------------------------------------
(* The running system. *)

\* The operating system marks the slot it runs from good, or starts the trial
\* of a new candidate.
OsMarksGood ==
  /\ pc = "kernel"
  /\ os_updates < MaxOsUpdates
  /\ Valid(nv)
  /\ nv' = MarkGood(nv, slot)
  /\ os_updates' = os_updates + 1
  /\ launched' = 0
  /\ UNCHANGED <<pc, load, map, faults>>

OsBeginsUpdate ==
  /\ pc = "kernel"
  /\ os_updates < MaxOsUpdates
  /\ Valid(nv)
  /\ \E s \in Slots : CanBeginUpdate(s) /\ nv' = BeginUpdate(nv, s)
  /\ os_updates' = os_updates + 1
  /\ launched' = 0
  /\ UNCHANGED <<pc, load, map, faults>>

Reset ==
  /\ pc = "kernel"
  /\ Abandon
  /\ UNCHANGED <<nv, tally>>

Loader ==
  \/ HealthLoad
  \/ HealthInitialise
  \/ StoreDefault
  \/ Store
  \/ Prepare
  \/ LoadKernel
  \/ Fallback
  \/ CandidatesExhausted
  \/ Place
  \/ PlaceFails
  \/ CaptureMap
  \/ CaptureMapFails
  \/ ExitBootServices
  \/ ExitRetry
  \/ ExitGivesUp

Next ==
  \/ EfiMain
  \/ LoadConfig
  \/ LoadConfigFails
  \/ Loader
  \/ MapChanges
  \/ OsMarksGood
  \/ OsBeginsUpdate
  \/ Reset

Spec == Init /\ [][Next]_vars

(***************************************************************************)
(* Fairness: a started loader runs on, the machine keeps being restarted,  *)
(* and a boot volume that is tried again and again is readable at last.    *)
(***************************************************************************)
FairSpec ==
  /\ Spec
  /\ WF_vars(Loader)
  /\ WF_vars(EfiMain)
  /\ WF_vars(Reset)
  /\ WF_vars(LoadConfig \/ LoadConfigFails)
  /\ SF_vars(LoadConfig)

-----------------------------------------------------------------------------
(* Properties. *)

\* The memory map a kernel is started with is the firmware's last one: no
\* change between GetMemoryMap and ExitBootServices goes unnoticed, on any of
\* the three tries.
FinalMapHandedOver == pc = "kernel" => captured = map_key

\* ExitBootServices is given up on only when the map changed behind
\* efi_main's back on each of the three tries: one or two changes are ridden
\* out.
GivesUpAfterThreeChanges ==
  [][(pc = "exit" /\ pc' = "firmware") => map_key >= MaxExitTries]_vars

\* efi_main starts a kernel on trial at most MaxAttempts times, plus once for
\* each failed variable service: a SetVariable that fails costs one uncounted
\* start.
TrialsBounded == launched <= MaxAttempts + faults

\* A trial does not stay open for ever: a machine that keeps being restarted
\* ends with the candidate confirmed or abandoned in the variable.
TrialResolved == nv.pending_good ~> ~nv.pending_good
=============================================================================
