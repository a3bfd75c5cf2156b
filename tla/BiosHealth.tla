----------------------------- MODULE BiosHealth -----------------------------
(***************************************************************************)
(* Boot health on the legacy-BIOS path: the two on-disk copies of the      *)
(* health record (LBA 1984 and 1985), the protected-mode loader that       *)
(* consults and updates them on every boot (boot/stage2_pm.c,              *)
(* load_kernel_file), and josh-healthctl, which an operator runs on the    *)
(* disk image while the machine is off.                                    *)
(*                                                                         *)
(* The disk misbehaves: a read may fail for one boot, a write may be       *)
(* refused, torn or silently lost, and power may go at any point.  Each    *)
(* such event is one unit of the budget MaxFaults.                         *)
(***************************************************************************)
EXTENDS HealthRecord, FiniteSets

CONSTANTS
  LayoutSafe,    \* LBA 1984..1985 lie outside every MBR partition
  MaxFaults,     \* bound: disk and power faults in a behaviour
  MaxCommands    \* bound: josh-healthctl commands in a behaviour

ASSUME BiosHealthAssumption ==
  /\ LayoutSafe \in BOOLEAN
  /\ MaxFaults \in Nat
  /\ MaxCommands \in Nat

VARIABLES
  disk,          \* the two sectors
  pc,            \* where the loader is, or "off"
  health,        \* the loader's record in RAM
  persistent,    \* health_persistent_enabled
  slot,          \* the slot load_kernel_file is trying
  candidate,     \* its loop counter
  paths,         \* slots for which BOOT.CFG names a kernel
  faults,        \* faults so far
  commands,      \* josh-healthctl commands so far
  launched       \* kernels started on trial since the last healthctl command
                 \* that begins or ends a trial and ran to its end

vars == <<disk, pc, health, persistent, slot, candidate, paths,
          faults, commands, launched>>
ram  == <<health, persistent, slot, candidate, paths>>

LoaderSteps == {"config", "health", "prepare", "write", "verify", "load",
                "handoff"}

\* Every record, in RAM or on disk, is well formed and no attempt count exceeds
\* the limit; the candidate loop stays within its three turns.
TypeOK ==
  /\ disk \in [Copies -> HealthRecords]
  /\ pc \in LoaderSteps \cup {"off", "init", "kernel", "halted"}
  /\ health \in HealthRecords
  /\ persistent \in BOOLEAN
  /\ slot \in Slots
  /\ candidate \in 0..3
  /\ paths \in SUBSET Slots
  /\ faults \in 0..MaxFaults
  /\ commands \in 0..MaxCommands
  /\ launched \in Nat

\* A disk that josh-healthctl has not provisioned yet.
Init ==
  /\ disk = [c \in Copies |-> Corrupt]
  /\ pc = "off"
  /\ health = Corrupt
  /\ persistent = FALSE
  /\ slot = CURRENT
  /\ candidate = 0
  /\ paths = {}
  /\ faults = 0
  /\ commands = 0
  /\ launched = 0

Newest == Choose(disk["A"], disk["B"])

\* The sectors as seen by code whose reads of the copies in F fail.
Seen(F) == [c \in Copies |-> IF c \in F THEN Corrupt ELSE disk[c]]

Fault(n) == /\ faults + n <= MaxFaults
            /\ faults' = faults + n

NoFault == UNCHANGED faults

\* RAM does not survive: the next boot starts from a freshly loaded stage 2.
Forget ==
  /\ pc' = "off"
  /\ health' = Corrupt
  /\ persistent' = FALSE
  /\ slot' = CURRENT
  /\ candidate' = 0
  /\ paths' = {}

-----------------------------------------------------------------------------
(* The loader. *)

PowerOn ==
  /\ pc = "off"
  /\ pc' = "config"
  /\ UNCHANGED <<disk, ram, faults, commands, launched>>

\* Partition, FAT32 volume and BOOT.CFG found and parsed.  kernel_path is a
\* required field; the other two paths are optional.
LoadConfig ==
  /\ pc = "config"
  /\ paths' \in {S \in SUBSET Slots : CURRENT \in S}
  /\ pc' = "health"
  /\ UNCHANGED <<disk, health, persistent, slot, candidate,
                 faults, commands, launched>>

LoadConfigFails ==
  /\ pc = "config"
  /\ pc' = "halted"
  /\ UNCHANGED <<disk, ram, faults, commands, launched>>

\* Mutant: a blank disk counts as persistent too.
HealthLoadBlank(F) ==
  /\ pc = "health"
  /\ LayoutSafe
  /\ Fault(Cardinality(F))
  /\ health' = Choose(Seen(F)["A"], Seen(F)["B"])
  /\ persistent' = TRUE
  /\ pc' = "prepare"
  /\ UNCHANGED <<disk, slot, candidate, paths, commands, launched>>

\* health_load, with the reads of the copies in F failing.
HealthLoad(F) ==
  /\ pc = "health"
  /\ LayoutSafe
  /\ Fault(Cardinality(F))
  /\ health' = Choose(Seen(F)["A"], Seen(F)["B"])
  /\ persistent' = (Valid(Seen(F)["A"]) \/ Valid(Seen(F)["B"]))
  /\ pc' = "prepare"
  /\ UNCHANGED <<disk, slot, candidate, paths, commands, launched>>

\* The layout check failed, because the sectors are allocated or because
\* the partition table could not be read this time.
HealthVolatile ==
  /\ pc = "health"
  /\ IF LayoutSafe THEN Fault(1) ELSE NoFault
  /\ health' = DefaultRecord
  /\ persistent' = FALSE
  /\ pc' = "prepare"
  /\ UNCHANGED <<disk, slot, candidate, paths, commands, launched>>

\* Mutant: a change is not written.
AfterChangeUnwritten(changed) == "load"

\* health_persist writes only when the copies were found at load time.
AfterChange(changed) == IF changed /\ persistent THEN "write" ELSE "load"

Prepare ==
  /\ pc = "prepare"
  /\ health' = PrepareAttempt(health)
  /\ slot' = health'.selected_slot
  /\ pc' = AfterChange(health'.generation # health.generation)
  /\ UNCHANGED <<disk, persistent, candidate, paths, faults, commands, launched>>

\* health_write_copy, first half: the sector is written.
Write ==
  /\ pc = "write"
  /\ disk' = [disk EXCEPT ![CopyFor(health)] = health]
  /\ pc' = "verify"
  /\ UNCHANGED <<ram, faults, commands, launched>>

\* The disk reports an error; the sector is untouched or torn.
WriteRefused ==
  /\ pc = "write"
  /\ Fault(1)
  /\ \/ UNCHANGED disk
     \/ disk' = [disk EXCEPT ![CopyFor(health)] = Corrupt]
  /\ persistent' = FALSE
  /\ pc' = "load"
  /\ UNCHANGED <<health, slot, candidate, paths, commands, launched>>

\* The disk reports success, but the sector is untouched or torn.
WriteLost ==
  /\ pc = "write"
  /\ Fault(1)
  /\ \/ UNCHANGED disk
     \/ disk' = [disk EXCEPT ![CopyFor(health)] = Corrupt]
  /\ pc' = "verify"
  /\ UNCHANGED <<ram, commands, launched>>

\* Second half: the sector is read back and compared.
VerifyOf(readable) ==
  /\ pc = "verify"
  /\ IF readable THEN NoFault ELSE Fault(1)
  /\ persistent' = (readable /\ disk[CopyFor(health)] = health)
  /\ pc' = "load"
  /\ UNCHANGED <<disk, health, slot, candidate, paths, commands, launched>>

Verify == \E readable \in BOOLEAN : VerifyOf(readable)

\* read_kernel_candidate succeeds: the path is set and the file is a valid
\* ELF64 image.
LoadKernel ==
  /\ pc = "load"
  /\ candidate < 3
  /\ slot \in paths
  /\ pc' = "handoff"
  /\ UNCHANGED <<disk, ram, faults, commands, launched>>

\* The slots to try once `from' failed: at most one.
FallbackFrom(from) ==
  IF from = CURRENT /\ PREVIOUS \in paths THEN {PREVIOUS}
  ELSE IF from # RECOVERY /\ RECOVERY \in paths THEN {RECOVERY}
  ELSE {}

Fallback ==
  /\ pc = "load"
  /\ candidate < 3
  /\ \E s \in FallbackFrom(slot) :
       /\ health' = SelectFallback(health, s, FAILURE_KERNEL_FILE)
       /\ slot' = s
  /\ candidate' = candidate + 1
  /\ pc' = AfterChange(TRUE)
  /\ UNCHANGED <<disk, persistent, paths, faults, commands, launched>>

\* No candidate left: load_kernel_file fails and stage2_pm_main halts.
CandidatesExhausted ==
  /\ pc = "load"
  /\ candidate < 3 => FallbackFrom(slot) = {}
  /\ pc' = "halted"
  /\ UNCHANGED <<disk, ram, faults, commands, launched>>

Launch ==
  /\ pc = "handoff"
  /\ pc' = "kernel"
  /\ launched' = launched + (IF health.pending_good THEN 1 ELSE 0)
  /\ UNCHANGED <<disk, ram, faults, commands>>

\* load_elf refuses the image after all (a segment outside the window).
LaunchFails ==
  /\ pc = "handoff"
  /\ pc' = "halted"
  /\ UNCHANGED <<disk, ram, faults, commands, launched>>

\* A running or halted machine is reset: the kernel crashed, or was shut down.
Reset ==
  /\ pc \in {"kernel", "halted"}
  /\ Forget
  /\ UNCHANGED <<disk, faults, commands, launched>>

\* Power goes while the loader runs; a sector being written may be torn.
PowerLoss ==
  /\ pc \in LoaderSteps
  /\ Fault(1)
  /\ \/ UNCHANGED disk
     \/ pc = "write" /\ disk' = [disk EXCEPT ![CopyFor(health)] = Corrupt]
  /\ Forget
  /\ UNCHANGED <<commands, launched>>

-----------------------------------------------------------------------------
(* josh-healthctl, on the image of a machine that is off. *)

Command ==
  /\ pc = "off"
  /\ commands < MaxCommands
  /\ commands' = commands + 1

\* write_record of r to copy c, n reads having failed before; the process
\* or the host may die half way.
ToolWrites(c, r, n) == Fault(n) /\ disk' = [disk EXCEPT ![c] = r]

ToolTears(c, n) == Fault(n + 1) /\ disk' = [disk EXCEPT ![c] = Corrupt]

\* load_state, with the reads of the copies in F failing; no valid copy
\* yields the default record in every command that goes on to write.
ToolState(F) == Choose(Seen(F)["A"], Seen(F)["B"])

\* One command that stores r (persist), the reads of F having failed.  Only
\* one that completes resets the count of starts, to n.
ToolStores(F, r, n) ==
  \/ ToolWrites(CopyFor(r), r, Cardinality(F)) /\ launched' = n
  \/ ToolTears(CopyFor(r), Cardinality(F)) /\ UNCHANGED launched

ToolInit ==
  /\ Command
  /\ \/ ToolWrites("A", DefaultRecord, 0) /\ pc' = "init"
     \/ ToolTears("A", 0) /\ UNCHANGED pc
  /\ UNCHANGED <<ram, launched>>

\* The second write of init; if the process dies first, copy B stays.
ToolInitB ==
  /\ pc = "init"
  /\ \/ ToolWrites("B", DefaultRecord, 0) /\ launched' = 0
     \/ ToolTears("B", 0) /\ UNCHANGED launched
     \/ UNCHANGED <<disk, launched>> /\ Fault(1)
  /\ pc' = "off"
  /\ UNCHANGED <<ram, commands>>

ToolGood(F, s) ==
  /\ Command
  /\ ToolStores(F, MarkGood(ToolState(F), s), 0)
  /\ UNCHANGED <<pc, ram>>

ToolPending(F, s) ==
  /\ CanBeginUpdate(s)
  /\ Command
  /\ ToolStores(F, BeginUpdate(ToolState(F), s), 0)
  /\ UNCHANGED <<pc, ram>>

\* attempt stores the record even when nothing was pending and its
\* generation, and so its sector, did not change.
ToolAttempt(F) ==
  /\ Command
  /\ ToolStores(F, PrepareAttempt(ToolState(F)), launched)
  /\ UNCHANGED <<pc, ram>>

Tool ==
  \/ ToolInit
  \/ ToolInitB
  \/ \E F \in SUBSET Copies :
       \/ \E s \in Slots : ToolGood(F, s) \/ ToolPending(F, s)
       \/ ToolAttempt(F)

-----------------------------------------------------------------------------
LoaderRuns ==
  \/ \E F \in SUBSET Copies : HealthLoad(F)
  \/ HealthVolatile
  \/ Prepare
  \/ Write
  \/ WriteRefused
  \/ WriteLost
  \/ Verify
  \/ LoadKernel
  \/ Fallback
  \/ CandidatesExhausted
  \/ Launch
  \/ LaunchFails

Next ==
  \/ PowerOn
  \/ LoadConfig
  \/ LoadConfigFails
  \/ LoaderRuns
  \/ Reset
  \/ PowerLoss
  \/ Tool

Spec == Init /\ [][Next]_vars

(***************************************************************************)
(* Fairness: a powered loader runs on (nothing else runs on that CPU), the *)
(* operator keeps switching the machine on and resetting it when a kernel  *)
(* crashed or the loader halted, and the boot volume is not broken for     *)
(* good: a loader that keeps trying to read BOOT.CFG at last does.         *)
(***************************************************************************)
FairSpec ==
  /\ Spec
  /\ WF_vars(LoaderRuns)
  /\ WF_vars(PowerOn)
  /\ WF_vars(Reset)
  /\ WF_vars(ToolInitB)
  /\ WF_vars(LoadConfig \/ LoadConfigFails)
  /\ SF_vars(LoadConfig)
-----------------------------------------------------------------------------
(* Properties. *)

\* Each sector holds generations of its own parity (health_persist and
\* josh-healthctl's persist agree on it); the one exception is the default
\* record that init puts in both.  Choosing the newest copy by generation is
\* unambiguous only because of this.
CopyParity ==
  /\ Valid(disk["A"]) => disk["A"].generation % 2 = 0
  /\ Valid(disk["B"]) => \/ disk["B"].generation % 2 = 1
                         \/ disk["B"] = DefaultRecord

\* While the loader is writing one sector, the other still holds the record
\* this boot was based on, so that a torn write takes the disk back one
\* generation and never further.  The one disk it does not hold for is a
\* freshly initialised one whose copy A was lost: generation 1 then goes over
\* the only good copy.
BaseCopySurvives ==
  pc = "write" /\ ~(CopyFor(health) = "B" /\ disk["B"] = DefaultRecord)
    => LET base == disk[OtherCopy(CopyFor(health))]
       IN  Valid(base) /\ base.generation + 1 = health.generation

\* A kernel that is started under persistent health state runs from the slot
\* a sector on the disk says is selected: no write was skipped between the
\* decision of prepare_attempt or select_fallback and the start.
LaunchAccounted ==
  pc \in {"handoff", "kernel"} =>
    /\ slot = health.selected_slot
    /\ persistent => \E c \in Copies : disk[c] = health

\* A kernel on trial is started at most MaxAttempts times, plus once for each
\* disk fault: a lost write or an unreadable newer copy costs at most one
\* uncounted start, whatever order boots, faults and power losses come in.
TrialsBounded == launched <= MaxAttempts + faults

\* The loader writes a sector only on a disk whose layout leaves the two
\* sectors free and where it found a valid copy: it never overwrites data of
\* a disk that josh-healthctl has not provisioned.
WritesOnlyProvisioned ==
  [][(pc \in LoaderSteps /\ disk' # disk)
       => (LayoutSafe /\ \E c \in Copies : Valid(disk[c]))]_vars

\* No boot confirms its own trial: when the loader ends one it selects a slot
\* other than the candidate, records a failure and leaves last_good_slot
\* alone.  Only josh-healthctl good makes a slot good.
LoaderEndsTrial ==
  /\ pc \in LoaderSteps
  /\ pc' # "off"
  /\ health.pending_good
  /\ ~health'.pending_good

TrialNeverSelfConfirms ==
  [][LoaderEndsTrial =>
       /\ health'.selected_slot # health.selected_slot
       /\ health'.last_good_slot = health.last_good_slot
       /\ health'.last_failure_stage # FAILURE_NONE]_vars

\* A trial does not stay open for ever: if the machine keeps being restarted,
\* the record is confirmed or abandoned, faults notwithstanding.
TrialResolved == Newest.pending_good ~> ~Newest.pending_good
=============================================================================
