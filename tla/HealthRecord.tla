---------------------------- MODULE HealthRecord ----------------------------
(***************************************************************************)
(* The boot-health record of boot/core/health.c and the functions that     *)
(* compute one record from another.  Nothing here is a state machine: the  *)
(* BIOS loader, the UEFI loader and josh-healthctl all call these          *)
(* functions on a record in memory and store the result themselves.        *)
(*                                                                         *)
(* A record is abstracted to the fields some code reads back.  `sealed'    *)
(* stands for everything josh_boot_health_valid tests (magic, version,     *)
(* size, ranges, CRC-32): a sector that was never written, was half        *)
(* written or was zeroed is a record with sealed = FALSE.                  *)
(* update_generation is only ever printed and is left out.  The 64-bit     *)
(* generation is a natural number: 2^64 increments are out of reach.       *)
(***************************************************************************)
EXTENDS Naturals

CONSTANT MaxAttempts    \* JOSH_BOOT_HEALTH_MAX_ATTEMPTS, 3 in the code

ASSUME MaxAttemptsAssumption == MaxAttempts \in Nat \ {0}

CURRENT  == 0
PREVIOUS == 1
RECOVERY == 2

Slots == {CURRENT, PREVIOUS, RECOVERY}

FAILURE_NONE        == 0
FAILURE_KERNEL_FILE == 2
FAILURE_KERNEL      == 5

HealthRecords ==
  [generation         : Nat,
   selected_slot      : Slots,
   last_good_slot     : Slots,
   pending_good       : BOOLEAN,
   attempt_count      : 0 .. MaxAttempts,
   last_failure_stage : {FAILURE_NONE, FAILURE_KERNEL_FILE, FAILURE_KERNEL},
   sealed             : BOOLEAN]

DefaultRecord ==
  [generation         |-> 0,
   selected_slot      |-> CURRENT,
   last_good_slot     |-> CURRENT,
   pending_good       |-> FALSE,
   attempt_count      |-> 0,
   last_failure_stage |-> FAILURE_NONE,
   sealed             |-> TRUE]

\* What a torn, blank or unreadable sector yields: bytes that fail validation.
Corrupt == [DefaultRecord EXCEPT !.sealed = FALSE]

Valid(r) == r.sealed

\* josh_boot_health_choose: ties go to copy A; with no valid copy, the default.
Choose(a, b) ==
  IF ~Valid(a) /\ ~Valid(b) THEN DefaultRecord
  ELSE IF Valid(a) /\ (~Valid(b) \/ a.generation >= b.generation) THEN a
  ELSE b

\* The callers below hand these functions valid records only; the functions'
\* own validity checks therefore never fire.
CanBeginUpdate(candidate) == candidate # RECOVERY

BeginUpdate(r, candidate) ==
  [r EXCEPT !.generation = @ + 1,
            !.selected_slot = candidate,
            !.pending_good = TRUE,
            !.attempt_count = 0,
            !.last_failure_stage = FAILURE_NONE]

\* Mutant: forgets that the candidate may itself be the last good slot.
RollbackSlotNaive(r) == r.last_good_slot

\* Where a candidate that used up its attempts is abandoned for.
RollbackSlot(r) ==
  IF r.last_good_slot # r.selected_slot THEN r.last_good_slot ELSE RECOVERY

\* Mutant: `>' for `>='.
PrepareAttemptOffByOne(r) ==
  IF ~r.pending_good THEN r
  ELSE IF r.attempt_count > MaxAttempts
       THEN [r EXCEPT !.generation = @ + 1,
                      !.selected_slot = RollbackSlot(r),
                      !.pending_good = FALSE,
                      !.attempt_count = 0,
                      !.last_failure_stage = FAILURE_KERNEL]
       ELSE [r EXCEPT !.generation = @ + 1,
                      !.attempt_count = @ + 1]

\* Mutant: attempts are not counted.
PrepareAttemptUncounted(r) == r

PrepareAttempt(r) ==
  IF ~r.pending_good THEN r
  ELSE IF r.attempt_count >= MaxAttempts
       THEN [r EXCEPT !.generation = @ + 1,
                      !.selected_slot = RollbackSlot(r),
                      !.pending_good = FALSE,
                      !.attempt_count = 0,
                      !.last_failure_stage = FAILURE_KERNEL]
       ELSE [r EXCEPT !.generation = @ + 1,
                      !.attempt_count = @ + 1]

MarkGood(r, slot) ==
  [r EXCEPT !.generation = @ + 1,
            !.selected_slot = slot,
            !.last_good_slot = slot,
            !.pending_good = FALSE,
            !.attempt_count = 0,
            !.last_failure_stage = FAILURE_NONE]

\* Mutant: the fallback does not start a new generation.
SelectFallbackInPlace(r, slot, stage) ==
  [r EXCEPT !.selected_slot = slot,
            !.pending_good = FALSE,
            !.attempt_count = 0,
            !.last_failure_stage = stage]

SelectFallback(r, slot, stage) ==
  [r EXCEPT !.generation = @ + 1,
            !.selected_slot = slot,
            !.pending_good = FALSE,
            !.attempt_count = 0,
            !.last_failure_stage = stage]

\* health_persist and josh-healthctl's persist: odd generations go to LBA B.
Copies == {"A", "B"}

\* Mutant: the parity is swapped.
CopyForSwapped(r) == IF r.generation % 2 = 1 THEN "A" ELSE "B"

CopyFor(r) == IF r.generation % 2 = 1 THEN "B" ELSE "A"

OtherCopy(c) == IF c = "A" THEN "B" ELSE "A"
=============================================================================
