--------------------------- MODULE FirmwareUpdate ---------------------------
(***************************************************************************)
(* The A/B firmware updater of firmware/update.c: staging an image in the  *)
(* slot after the active one (erase, write, read back, commit), choosing   *)
(* the slot to boot, and confirming a slot that booted.                    *)
(*                                                                         *)
(* The flash backend and the caller are not in the repository.  The        *)
(* backend may fail, damage the slot it works on, or report success for a  *)
(* bad write.  The caller runs in the firmware that booted, keeps the      *)
(* state structure in non-volatile storage between calls, and confirms     *)
(* only the slot it runs from.  Power may go between and during flash      *)
(* operations.                                                             *)
(*                                                                         *)
(* An image is named by its manifest's generation; a slot's contents are   *)
(* that name and the set of VERIFY_CHUNK-sized chunks that differ from it. *)
(***************************************************************************)
EXTENDS Integers

CONSTANTS
  SlotCount,        \* backend->slot_count; state_valid demands at least 2
  Chunks,           \* VERIFY_CHUNK-sized pieces of an image
  MaxGeneration,    \* bound: the largest generation a manifest carries
  MaxAttemptsArg,   \* max_attempts as the caller passes it
  DefersStaging     \* the caller stages nothing while an update is pending

ASSUME FirmwareAssumption ==
  /\ SlotCount \in Nat /\ SlotCount >= 2
  /\ Chunks \in Nat \ {0}
  /\ MaxGeneration \in Nat
  /\ MaxAttemptsArg \in Nat
  /\ DefersStaging \in BOOLEAN

SLOT_NONE       == -1     \* UINT32_MAX
FW_MAX_ATTEMPTS == 3      \* JOSH_FW_MAX_ATTEMPTS

FlashSlots  == 0 .. SlotCount - 1
Generations == 0 .. MaxGeneration
NoImage     == -1
AllChunks   == 0 .. Chunks - 1

Contents == [image : Generations \cup {NoImage}, bad : SUBSET AllChunks]
Erased   == [image |-> NoImage, bad |-> AllChunks]

HoldsImage(content, generation) ==
  content.image = generation /\ content.bad = {}

States ==
  [active_slot        : FlashSlots,
   previous_good_slot : FlashSlots,
   pending_slot       : FlashSlots \cup {SLOT_NONE},
   pending_attempts   : Nat,
   active_generation  : Generations,
   pending_generation : Generations]

DefaultState ==
  [active_slot        |-> 0,
   previous_good_slot |-> 0,
   pending_slot       |-> SLOT_NONE,
   pending_attempts   |-> 0,
   active_generation  |-> 0,
   pending_generation |-> 0]

\* What josh_fw_stage_update looks at before it touches the flash.
Manifests ==
  [well_formed : BOOLEAN,      \* manifest_valid
   board_match : BOOLEAN,      \* text_equal(board_id, expected_board_id)
   generation  : Generations,
   fits        : BOOLEAN,      \* image_size <= slot_size
   crc_match   : BOOLEAN]

VARIABLES
  state,       \* josh_fw_update_state_t
  flash,       \* contents of every slot
  pc,          \* step of josh_fw_stage_update, or "idle"
  generation,  \* manifest->generation of the call in progress
  rollback,    \* its allow_rollback
  offset,      \* chunks read back and compared
  running,     \* slot the machine booted from, SLOT_NONE when it is off
  booted,      \* contents of that slot when it was booted
  forced       \* the pending image was staged with allow_rollback

vars == <<state, flash, pc, generation, rollback, offset, running, booted,
          forced>>
call == <<generation, rollback, offset>>

\* Slot numbers stay below slot_count and the read-back loop within the image.
TypeOK ==
  /\ state \in States
  /\ flash \in [FlashSlots -> Contents]
  /\ pc \in {"idle", "erase", "write", "verify"}
  /\ generation \in Generations
  /\ rollback \in BOOLEAN
  /\ offset \in 0 .. Chunks
  /\ running \in FlashSlots \cup {SLOT_NONE}
  /\ booted \in Contents
  /\ forced \in BOOLEAN

\* A factory machine: generation 0 in slot 0, nothing else.
Init ==
  /\ state = DefaultState
  /\ flash = [s \in FlashSlots |->
                IF s = 0 THEN [image |-> 0, bad |-> {}] ELSE Erased]
  /\ pc = "idle"
  /\ generation = 0
  /\ rollback = FALSE
  /\ offset = 0
  /\ running = SLOT_NONE
  /\ booted = Erased
  /\ forced = FALSE

Target == (state.active_slot + 1) % SlotCount

\* Code runs only on a machine whose slot was intact when it booted.
Alive == running # SLOT_NONE /\ booted.image # NoImage /\ booted.bad = {}

\* Mutant: the generation is not compared.
AcceptedAnyGeneration(m, allow_rollback) ==
  m.well_formed /\ m.board_match /\ m.fits /\ m.crc_match

Accepted(m, allow_rollback) ==
  /\ m.well_formed
  /\ m.board_match
  /\ allow_rollback \/ m.generation > state.active_generation
  /\ m.fits
  /\ m.crc_match
  /\ Target # state.active_slot

\* The call returns; what it leaves behind is forgotten.
Return ==
  /\ pc' = "idle"
  /\ generation' = 0
  /\ rollback' = FALSE
  /\ offset' = 0

-----------------------------------------------------------------------------
(* josh_fw_stage_update *)

StageBegin(m, allow_rollback) ==
  /\ Alive
  /\ pc = "idle"
  /\ DefersStaging => state.pending_slot = SLOT_NONE
  /\ Accepted(m, allow_rollback)
  /\ pc' = "erase"
  /\ generation' = m.generation
  /\ rollback' = allow_rollback
  /\ offset' = 0
  /\ UNCHANGED <<state, flash, running, booted, forced>>

\* An operation that goes wrong leaves some chunks of the slot damaged.
Damage(bad) == flash' = [flash EXCEPT ![Target].bad = @ \cup bad]

\* Mutant: the wrong slot number is passed to erase_slot.
EraseActive ==
  /\ pc = "erase"
  /\ flash' = [flash EXCEPT ![state.active_slot] = Erased]
  /\ pc' = "write"
  /\ UNCHANGED <<state, call, running, booted, forced>>

Erase ==
  /\ pc = "erase"
  /\ flash' = [flash EXCEPT ![Target] = Erased]
  /\ pc' = "write"
  /\ UNCHANGED <<state, call, running, booted, forced>>

EraseFails ==
  /\ pc = "erase"
  /\ \E bad \in SUBSET AllChunks : Damage(bad)
  /\ Return
  /\ UNCHANGED <<state, running, booted, forced>>

\* write_slot reports success; bad chunks, if any, show up on read-back.
Write(bad) ==
  /\ pc = "write"
  /\ flash' = [flash EXCEPT ![Target] = [image |-> generation, bad |-> bad]]
  /\ pc' = "verify"
  /\ UNCHANGED <<state, call, running, booted, forced>>

WriteFails(bad) ==
  /\ pc = "write"
  /\ flash' = [flash EXCEPT ![Target] = [image |-> generation, bad |-> bad]]
  /\ Return
  /\ UNCHANGED <<state, running, booted, forced>>

ChunkMatches(i) ==
  flash[Target].image = generation /\ i \notin flash[Target].bad

\* Mutant: the loop runs past the end of the image.
VerifyChunkBeyond ==
  /\ pc = "verify"
  /\ offset <= Chunks
  /\ ChunkMatches(offset)
  /\ offset' = offset + 1
  /\ UNCHANGED <<state, flash, pc, generation, rollback, running, booted, forced>>

VerifyChunk ==
  /\ pc = "verify"
  /\ offset < Chunks
  /\ ChunkMatches(offset)
  /\ offset' = offset + 1
  /\ UNCHANGED <<state, flash, pc, generation, rollback, running, booted, forced>>

\* A chunk differs, or read_slot fails.
VerifyFails ==
  /\ pc = "verify"
  /\ offset < Chunks
  /\ Return
  /\ UNCHANGED <<state, flash, running, booted, forced>>

\* Mutant: committed before every chunk was compared.
CommitUnverified ==
  /\ pc = "verify"
  /\ state' = [state EXCEPT !.previous_good_slot = state.active_slot,
                            !.pending_slot = Target,
                            !.pending_generation = generation,
                            !.pending_attempts = 0]
  /\ forced' = rollback
  /\ Return
  /\ UNCHANGED <<flash, running, booted>>

Commit ==
  /\ pc = "verify"
  /\ offset = Chunks
  /\ state' = [state EXCEPT !.previous_good_slot = state.active_slot,
                            !.pending_slot = Target,
                            !.pending_generation = generation,
                            !.pending_attempts = 0]
  /\ forced' = rollback
  /\ Return
  /\ UNCHANGED <<flash, running, booted>>

-----------------------------------------------------------------------------
(* Booting *)

MaxTries == IF MaxAttemptsArg = 0 THEN FW_MAX_ATTEMPTS ELSE MaxAttemptsArg

ClearPending(s) ==
  [s EXCEPT !.pending_slot = SLOT_NONE,
            !.pending_generation = 0,
            !.pending_attempts = 0]

\* Mutant: boots of a pending slot are not counted.
SelectStateUncounted(s) ==
  IF s.pending_slot # SLOT_NONE /\ s.pending_attempts >= MaxTries
  THEN ClearPending(s) ELSE s

\* josh_fw_select_boot_slot: the state it leaves and the slot it returns.
SelectState(s) ==
  IF s.pending_slot = SLOT_NONE THEN s
  ELSE IF s.pending_attempts >= MaxTries THEN ClearPending(s)
  ELSE [s EXCEPT !.pending_attempts = @ + 1]

SelectSlot(s) ==
  IF s.pending_slot = SLOT_NONE \/ s.pending_attempts >= MaxTries
  THEN s.active_slot
  ELSE s.pending_slot

Boot ==
  /\ running = SLOT_NONE
  /\ state' = SelectState(state)
  /\ running' = SelectSlot(state)
  /\ booted' = flash[running']
  /\ UNCHANGED <<flash, pc, call, forced>>

\* Mutants: the booted slot is not compared with the pending one; the new
\* generation is not recorded.
MarkBootGoodUnchecked ==
  /\ Alive
  /\ pc = "idle"
  /\ state.pending_slot # SLOT_NONE
  /\ state' = ClearPending([state EXCEPT
                 !.previous_good_slot = state.active_slot,
                 !.active_slot = state.pending_slot,
                 !.active_generation = state.pending_generation])
  /\ UNCHANGED <<flash, pc, call, running, booted, forced>>

MarkBootGoodStale ==
  /\ Alive
  /\ pc = "idle"
  /\ running = state.pending_slot
  /\ state' = ClearPending([state EXCEPT
                 !.previous_good_slot = state.active_slot,
                 !.active_slot = state.pending_slot])
  /\ UNCHANGED <<flash, pc, call, running, booted, forced>>

\* josh_fw_mark_boot_good, called for the slot the caller runs from.
MarkBootGood ==
  /\ Alive
  /\ pc = "idle"
  /\ running = state.pending_slot
  /\ state' = ClearPending([state EXCEPT
                 !.previous_good_slot = state.active_slot,
                 !.active_slot = state.pending_slot,
                 !.active_generation = state.pending_generation])
  /\ UNCHANGED <<flash, pc, call, running, booted, forced>>

PowerOff == running' = SLOT_NONE /\ booted' = Erased

\* A machine that is not staging is reset, crashes or hangs and is reset.
Restart ==
  /\ running # SLOT_NONE
  /\ pc = "idle"
  /\ PowerOff
  /\ UNCHANGED <<state, flash, pc, call, forced>>

\* Power goes during staging; an erase or a write in progress is cut short.
PowerLoss ==
  /\ pc # "idle"
  /\ \/ UNCHANGED flash
     \/ pc = "erase" /\ \E bad \in SUBSET AllChunks : Damage(bad)
     \/ /\ pc = "write"
        /\ \E bad \in SUBSET AllChunks :
             flash' = [flash EXCEPT ![Target] =
                         [image |-> generation, bad |-> bad]]
  /\ PowerOff
  /\ Return
  /\ UNCHANGED <<state, forced>>

-----------------------------------------------------------------------------
Staging ==
  \/ Erase
  \/ EraseFails
  \/ \E bad \in SUBSET AllChunks : Write(bad) \/ WriteFails(bad)
  \/ VerifyChunk
  \/ VerifyFails
  \/ Commit

Next ==
  \/ \E m \in Manifests, allow \in BOOLEAN : StageBegin(m, allow)
  \/ Staging
  \/ Boot
  \/ MarkBootGood
  \/ Restart
  \/ PowerLoss

Spec == Init /\ [][Next]_vars
(***************************************************************************)
(* Fairness: the platform code boots a machine that is switched on, the    *)
(* flash driver returns from every call, and an operator or a watchdog     *)
(* restarts a machine that runs or hangs.  Staging an image and confirming *)
(* a boot are decisions nobody has to take.                                *)
(***************************************************************************)
FairSpec ==
  /\ Spec
  /\ WF_vars(Boot)
  /\ WF_vars(Restart)
  /\ WF_vars(Staging)

-----------------------------------------------------------------------------
(* Properties. *)

\* No step of any call ever erases, writes or damages the slot that is active
\* before that step: josh_fw_stage_update works on the next slot only.
ActiveSlotUntouched ==
  [][flash'[state.active_slot] = flash[state.active_slot]]_vars

\* The active slot holds, intact, the image of the generation the state
\* records for it, however staging, boots and power losses interleave: the
\* machine can always be started from it.
ActiveBootable ==
  HoldsImage(flash[state.active_slot], state.active_generation)

\* The weaker half of the same promise, as the project's plan words it: an
\* interrupted or bad update cannot brick the machine, so the slot the state
\* calls active can be booted at all.
CannotBrick ==
  /\ flash[state.active_slot].image # NoImage
  /\ flash[state.active_slot].bad = {}

\* The slot the next boot will try holds, intact, the image that was verified.
PendingVerified ==
  state.pending_slot # SLOT_NONE
    => HoldsImage(flash[state.pending_slot], state.pending_generation)

\* josh_fw_mark_boot_good makes active exactly the contents that booted and
\* ran, not something staged over them since.
ConfirmedWasBooted ==
  [][state'.active_slot # state.active_slot
       => booted = flash[state'.active_slot]]_vars

\* Anti-rollback: the active generation goes down only through an image that
\* was staged with allow_rollback.
NoSilentDowngrade ==
  [][state'.active_generation < state.active_generation => forced]_vars

\* A pending update is confirmed or given up: a machine that keeps being
\* restarted does not try the new image for ever.
PendingResolved ==
  state.pending_slot # SLOT_NONE ~> state.pending_slot = SLOT_NONE
=============================================================================
