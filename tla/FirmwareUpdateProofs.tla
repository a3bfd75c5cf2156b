------------------------ MODULE FirmwareUpdateProofs ------------------------
(***************************************************************************)
(* Proofs about FirmwareUpdate for every number of slots, chunks and       *)
(* generations and every attempt limit.                                    *)
(***************************************************************************)
EXTENDS FirmwareUpdate, TLAPS

\* (active_slot + 1) % slot_count is another slot: this is why the test
\* target == active_slot in josh_fw_stage_update never fires.
LEMMA TargetIsOther ==
  ASSUME TypeOK
  PROVE  Target \in FlashSlots /\ Target # state.active_slot
<1>1. SlotCount \in Nat /\ SlotCount >= 2
  BY FirmwareAssumption
<1>2. state.active_slot \in 0 .. SlotCount - 1
  BY DEF TypeOK, States, FlashSlots
<1>3. CASE state.active_slot + 1 = SlotCount
  <2>1. Target = 0
    BY <1>1, <1>2, <1>3 DEF Target
  <2> QED BY <2>1, <1>1, <1>2, <1>3 DEF FlashSlots
<1>4. CASE state.active_slot + 1 < SlotCount
  <2>1. Target = state.active_slot + 1
    BY <1>1, <1>2, <1>4 DEF Target
  <2> QED BY <2>1, <1>1, <1>2, <1>4 DEF FlashSlots
<1> QED BY <1>1, <1>2, <1>3, <1>4

-----------------------------------------------------------------------------
(* Type correctness. *)

\* Zero is a generation, a number of chunks and a slot.
LEMMA ZeroTyped ==
  0 \in Generations /\ 0 \in 0 .. Chunks /\ 0 \in FlashSlots /\ 0 \in Nat
BY FirmwareAssumption DEF Generations, FlashSlots

\* An erased slot is a possible content of the flash.
LEMMA ErasedTyped == Erased \in Contents
BY DEF Erased, Contents, NoImage

\* The type invariant holds of the default state.
LEMMA InitTypeOK == Init => TypeOK
<1> SUFFICES ASSUME Init PROVE TypeOK
  OBVIOUS
<1>1. state \in States
  BY ZeroTyped DEF Init, DefaultState, States
<1>2. flash \in [FlashSlots -> Contents]
  <2>1. [image |-> 0, bad |-> {}] \in Contents
    BY ZeroTyped DEF Contents
  <2> QED BY <2>1, ErasedTyped DEF Init
<1>3. offset \in 0 .. Chunks /\ generation \in Generations
  BY ZeroTyped DEF Init
<1>4. rollback \in BOOLEAN /\ forced \in BOOLEAN
  BY DEF Init
<1> QED BY <1>1, <1>2, <1>3, <1>4, ErasedTyped DEF Init, TypeOK

\* Every flash operation that names a slot keeps the flash an array of slots.
LEMMA FlashTyped ==
  ASSUME TypeOK, NEW s \in FlashSlots, NEW c \in Contents
  PROVE  [flash EXCEPT ![s] = c] \in [FlashSlots -> Contents]
BY DEF TypeOK

\* A failing flash operation leaves a content in every slot.
LEMMA DamageTyped ==
  ASSUME TypeOK, NEW bad \in SUBSET AllChunks, Damage(bad)
  PROVE  flash' \in [FlashSlots -> Contents]
<1>1. Target \in FlashSlots
  BY TargetIsOther
<1>2. flash[Target] \in Contents
  BY <1>1 DEF TypeOK
<1>3. [flash[Target] EXCEPT !.bad = @ \cup bad] \in Contents
  BY <1>2 DEF Contents
<1> QED BY <1>1, <1>3, FlashTyped DEF Damage

\* A slot that was written holds a content, whichever chunks are bad.
LEMMA ImageTyped ==
  ASSUME TypeOK, NEW bad \in SUBSET AllChunks
  PROVE  [image |-> generation, bad |-> bad] \in Contents
BY DEF TypeOK, Contents

\* Returning from josh_fw_stage_update resets its locals.
LEMMA ReturnTyped ==
  ASSUME Return
  PROVE  /\ pc' \in {"idle", "erase", "write", "verify"}
         /\ generation' \in Generations
         /\ rollback' \in BOOLEAN
         /\ offset' \in 0 .. Chunks
<1>1. rollback' \in BOOLEAN
  BY DEF Return
<1> QED BY <1>1, ZeroTyped DEF Return

\* Clearing the pending fields leaves a state record.
LEMMA ClearPendingTyped ==
  ASSUME NEW s \in States
  PROVE  ClearPending(s) \in States
<1>1. 0 \in Generations /\ 0 \in Nat
  BY ZeroTyped
<1>2. [s EXCEPT !.pending_slot = SLOT_NONE] \in States
  BY DEF States
<1>3. [s EXCEPT !.pending_slot = SLOT_NONE, !.pending_generation = 0] \in States
  BY <1>1, <1>2 DEF States
<1> QED BY <1>1, <1>3 DEF States, ClearPending

\* Every step of the update core preserves the type invariant.
LEMMA NextTypeOK == TypeOK /\ [Next]_vars => TypeOK'
<1> SUFFICES ASSUME TypeOK, [Next]_vars PROVE TypeOK'
  OBVIOUS
<1> USE FirmwareAssumption
<1>0. Target \in FlashSlots
  BY TargetIsOther
<1>1. ASSUME NEW m \in Manifests, NEW allow \in BOOLEAN, StageBegin(m, allow)
      PROVE  TypeOK'
  <2>1. m.generation \in Generations
    BY DEF Manifests
  <2> QED BY <1>1, <2>1 DEF StageBegin, TypeOK
<1>2. CASE Erase
  <2>1. flash' \in [FlashSlots -> Contents]
    BY <1>0, <1>2, FlashTyped, ErasedTyped DEF Erase
  <2> QED BY <1>2, <2>1 DEF Erase, TypeOK, call
<1>3. CASE EraseFails
  <2>1. flash' \in [FlashSlots -> Contents]
    BY <1>3, DamageTyped DEF EraseFails
  <2> QED BY <1>3, <2>1, ReturnTyped DEF EraseFails, TypeOK
<1>4. ASSUME NEW bad \in SUBSET AllChunks, Write(bad)
      PROVE  TypeOK'
  <2>1. flash' \in [FlashSlots -> Contents]
    BY <1>0, <1>4, FlashTyped, ImageTyped DEF Write
  <2> QED BY <1>4, <2>1 DEF Write, TypeOK, call
<1>5. ASSUME NEW bad \in SUBSET AllChunks, WriteFails(bad)
      PROVE  TypeOK'
  <2>1. flash' \in [FlashSlots -> Contents]
    BY <1>0, <1>5, FlashTyped, ImageTyped DEF WriteFails
  <2> QED BY <1>5, <2>1, ReturnTyped DEF WriteFails, TypeOK
<1>6. CASE VerifyChunk
  BY <1>6 DEF VerifyChunk, TypeOK
<1>7. CASE VerifyFails
  BY <1>7, ReturnTyped DEF VerifyFails, TypeOK
<1>8. CASE Commit
  <2>1. state' \in States
    BY <1>0, <1>8 DEF Commit, TypeOK, States
  <2>2. forced' \in BOOLEAN
    BY <1>8 DEF Commit, TypeOK
  <2> QED BY <1>8, <2>1, <2>2, ReturnTyped DEF Commit, TypeOK
<1>9. CASE Boot
  <2>1. state' \in States
    BY <1>9, ClearPendingTyped DEF Boot, SelectState, TypeOK, States
  <2>2. running' \in FlashSlots
    BY <1>9 DEF Boot, SelectSlot, TypeOK, States
  <2>3. booted' \in Contents
    BY <1>9, <2>2 DEF Boot, TypeOK
  <2> QED BY <1>9, <2>1, <2>2, <2>3 DEF Boot, TypeOK, call
<1>10. CASE MarkBootGood
  <2>1. state.pending_slot \in FlashSlots
    BY <1>10 DEF MarkBootGood, Alive, TypeOK, States
  <2>2. [state EXCEPT !.previous_good_slot = state.active_slot,
                      !.active_slot = state.pending_slot,
                      !.active_generation = state.pending_generation] \in States
    BY <2>1 DEF TypeOK, States
  <2>3. state' \in States
    BY <1>10, <2>2, ClearPendingTyped DEF MarkBootGood
  <2> QED BY <1>10, <2>3 DEF MarkBootGood, TypeOK, call
<1>11. CASE Restart
  BY <1>11, ErasedTyped DEF Restart, PowerOff, TypeOK, call
<1>12. CASE PowerLoss
  <2>1. flash' \in [FlashSlots -> Contents]
    <3>1. CASE UNCHANGED flash
      BY <3>1 DEF TypeOK
    <3>2. CASE \E bad \in SUBSET AllChunks : Damage(bad)
      BY <3>2, DamageTyped
    <3>3. CASE \E bad \in SUBSET AllChunks :
                 flash' = [flash EXCEPT ![Target] =
                             [image |-> generation, bad |-> bad]]
      BY <3>3, <1>0, FlashTyped, ImageTyped
    <3> QED BY <1>12, <3>1, <3>2, <3>3 DEF PowerLoss
  <2> QED BY <1>12, <2>1, ReturnTyped, ErasedTyped DEF PowerLoss, PowerOff, TypeOK
<1>13. CASE UNCHANGED vars
  BY <1>13 DEF vars, TypeOK
<1> QED BY <1>1, <1>2, <1>3, <1>4, <1>5, <1>6, <1>7, <1>8, <1>9, <1>10,
           <1>11, <1>12, <1>13 DEF Next, Staging

\* Slot numbers stay below slot_count and the read-back never runs past the
\* image, for every geometry of the flash.
THEOREM TypeCorrect == Spec => []TypeOK
BY InitTypeOK, NextTypeOK, PTL DEF Spec

-----------------------------------------------------------------------------
(* The active slot. *)

\* A step touches the flash only while josh_fw_stage_update runs, and then
\* only the slot it works on.
LEMMA OnlyTargetTouched ==
  ASSUME TypeOK, [Next]_vars
  PROVE  /\ \A s \in FlashSlots : s # Target => flash'[s] = flash[s]
         /\ pc \notin {"erase", "write"} => flash' = flash
<1>1. ASSUME NEW m \in Manifests, NEW allow \in BOOLEAN, StageBegin(m, allow)
      PROVE  flash' = flash
  BY <1>1 DEF StageBegin
<1>2. CASE Erase
  BY <1>2 DEF Erase, TypeOK
<1>3. CASE EraseFails
  BY <1>3 DEF EraseFails, Damage, TypeOK
<1>4. ASSUME NEW bad \in SUBSET AllChunks, Write(bad) \/ WriteFails(bad)
      PROVE  /\ \A s \in FlashSlots : s # Target => flash'[s] = flash[s]
             /\ pc = "write"
  BY <1>4 DEF Write, WriteFails, TypeOK
<1>5. CASE VerifyChunk \/ VerifyFails \/ Commit
  BY <1>5 DEF VerifyChunk, VerifyFails, Commit
<1>6. CASE Boot \/ MarkBootGood \/ Restart
  BY <1>6 DEF Boot, MarkBootGood, Restart
<1>7. CASE PowerLoss
  BY <1>7 DEF PowerLoss, Damage, TypeOK
<1>8. CASE UNCHANGED vars
  BY <1>8 DEF vars
<1> QED BY <1>1, <1>2, <1>3, <1>4, <1>5, <1>6, <1>7, <1>8 DEF Next, Staging

\* No call ever erases, writes or damages the active slot, whatever the caller
\* does and wherever power fails.
THEOREM ActiveSlotSafe == Spec => ActiveSlotUntouched
<1>1. TypeOK /\ [Next]_vars => flash'[state.active_slot] = flash[state.active_slot]
  <2> SUFFICES ASSUME TypeOK, [Next]_vars
               PROVE  flash'[state.active_slot] = flash[state.active_slot]
    OBVIOUS
  <2>1. state.active_slot \in FlashSlots
    BY DEF TypeOK, States
  <2> QED BY <2>1, OnlyTargetTouched, TargetIsOther
<1>2. TypeOK /\ [Next]_vars
        => [flash'[state.active_slot] = flash[state.active_slot]]_vars
  BY <1>1
<1> QED BY <1>2, TypeCorrect, PTL DEF Spec, ActiveSlotUntouched

-----------------------------------------------------------------------------
(* Anti-rollback. *)

\* An update that was not forced, staged or still being staged, is newer than
\* what is active.
UnforcedIsNewer ==
  /\ pc # "idle" /\ ~rollback => generation > state.active_generation
  /\ state.pending_slot # SLOT_NONE /\ ~forced
       => state.pending_generation > state.active_generation

\* Nothing is pending in the default state.
LEMMA InitUnforcedIsNewer == Init => UnforcedIsNewer
BY DEF Init, UnforcedIsNewer, DefaultState, SLOT_NONE

\* What is pending without allow_rollback stays newer than what is active.
LEMMA NextUnforcedIsNewer ==
  TypeOK /\ UnforcedIsNewer /\ [Next]_vars => UnforcedIsNewer'
<1> SUFFICES ASSUME TypeOK, UnforcedIsNewer, [Next]_vars
             PROVE  UnforcedIsNewer'
  OBVIOUS
<1> USE DEF UnforcedIsNewer
<1>1. ASSUME NEW m \in Manifests, NEW allow \in BOOLEAN, StageBegin(m, allow)
      PROVE  UnforcedIsNewer'
  BY <1>1 DEF StageBegin, Accepted
<1>2. CASE Erase
  BY <1>2 DEF Erase, call
<1>3. CASE EraseFails \/ VerifyFails
  BY <1>3 DEF EraseFails, VerifyFails, Return
<1>4. ASSUME NEW bad \in SUBSET AllChunks, Write(bad) \/ WriteFails(bad)
      PROVE  UnforcedIsNewer'
  BY <1>4 DEF Write, WriteFails, Return, call
<1>5. CASE VerifyChunk
  BY <1>5 DEF VerifyChunk
<1>6. CASE Commit
  <2>1. /\ state'.pending_generation = generation
        /\ state'.active_generation = state.active_generation
    BY <1>6 DEF Commit, TypeOK, States
  <2>2. pc' = "idle" /\ forced' = rollback /\ pc # "idle"
    BY <1>6 DEF Commit, Return
  <2> QED BY <2>1, <2>2
<1>7. CASE Boot
  <2>1. /\ state'.active_generation = state.active_generation
        /\ \/ state'.pending_slot = SLOT_NONE
           \/ /\ state'.pending_slot = state.pending_slot
              /\ state'.pending_generation = state.pending_generation
    BY <1>7 DEF Boot, SelectState, ClearPending, TypeOK, States
  <2>2. pc' = pc /\ rollback' = rollback /\ generation' = generation /\ forced' = forced
    BY <1>7 DEF Boot, call
  <2> QED BY <2>1, <2>2
<1>8. CASE MarkBootGood
  <2>1. state'.pending_slot = SLOT_NONE
    BY <1>8 DEF MarkBootGood, ClearPending, TypeOK, States
  <2>2. pc' = "idle"
    BY <1>8 DEF MarkBootGood
  <2> QED BY <2>1, <2>2
<1>9. CASE Restart \/ PowerLoss
  BY <1>9 DEF Restart, PowerLoss, Return, call
<1>10. CASE UNCHANGED vars
  BY <1>10 DEF vars
<1> QED BY <1>1, <1>2, <1>3, <1>4, <1>5, <1>6, <1>7, <1>8, <1>9, <1>10
        DEF Next, Staging

\* The active generation goes down only through an image the caller staged
\* with allow_rollback.
THEOREM DowngradeIsForced == Spec => NoSilentDowngrade
<1>1. TypeOK /\ UnforcedIsNewer /\ [Next]_vars
        => (state'.active_generation < state.active_generation => forced)
  <2> SUFFICES ASSUME TypeOK, UnforcedIsNewer, [Next]_vars,
                      state'.active_generation < state.active_generation
               PROVE  forced
    OBVIOUS
  <2>0. /\ state.active_generation \in Int
        /\ state.pending_generation \in Int
    BY FirmwareAssumption DEF TypeOK, States, Generations
  <2>1. CASE MarkBootGood
    <3>1. state.pending_slot # SLOT_NONE
      BY <2>1 DEF MarkBootGood, Alive
    <3>2. state'.active_generation = state.pending_generation
      BY <2>1 DEF MarkBootGood, ClearPending, TypeOK, States
    <3> QED BY <2>0, <3>1, <3>2 DEF UnforcedIsNewer
  <2>2. CASE Boot
    <3>1. state'.active_generation = state.active_generation
      BY <2>2 DEF Boot, SelectState, ClearPending, TypeOK, States
    <3> QED BY <2>0, <3>1
  <2>3. CASE Commit
    <3>1. state'.active_generation = state.active_generation
      BY <2>3 DEF Commit, TypeOK, States
    <3> QED BY <2>0, <3>1
  <2>4. CASE UNCHANGED state
    BY <2>0, <2>4
  <2>5. MarkBootGood \/ Boot \/ Commit \/ UNCHANGED state
    BY DEF Next, Staging, StageBegin, Erase, EraseFails, Write, WriteFails,
           VerifyChunk, VerifyFails, Restart, PowerLoss, vars
  <2> QED BY <2>1, <2>2, <2>3, <2>4, <2>5
<1>2. TypeOK /\ UnforcedIsNewer /\ [Next]_vars
        => [state'.active_generation < state.active_generation => forced]_vars
  BY <1>1
<1> QED BY <1>2, TypeCorrect, InitUnforcedIsNewer, NextUnforcedIsNewer, PTL
        DEF Spec, NoSilentDowngrade

-----------------------------------------------------------------------------
(* A caller that stages nothing while an update is pending. *)

\* Staging runs on a machine that is up, with no update pending.
StagingAlone ==
  pc # "idle" => state.pending_slot = SLOT_NONE /\ running # SLOT_NONE

\* The read-back loop has compared the chunks below offset.
Compared ==
  /\ pc \in {"erase", "write"} => offset = 0
  /\ pc = "verify" => \A i \in 0 .. offset - 1 : ChunkMatches(i)

\* The machine runs from the active or the pending slot, and a pending slot
\* has not changed since it was booted.
RunsKnownSlot ==
  running # SLOT_NONE =>
    /\ running \in {state.active_slot, state.pending_slot}
    /\ running = state.pending_slot => booted = flash[running]

SafeInv ==
  /\ TypeOK
  /\ ActiveBootable
  /\ PendingVerified
  /\ StagingAlone
  /\ Compared
  /\ RunsKnownSlot

\* The inductive invariant holds of the default state.
LEMMA InitSafe == Init => SafeInv
<1> SUFFICES ASSUME Init PROVE SafeInv
  OBVIOUS
<1>1. TypeOK
  BY InitTypeOK
<1>2. ActiveBootable
  BY ZeroTyped DEF Init, ActiveBootable, HoldsImage, DefaultState
<1>3. PendingVerified /\ StagingAlone /\ Compared /\ RunsKnownSlot
  BY DEF Init, PendingVerified, StagingAlone, Compared, RunsKnownSlot,
         DefaultState
<1> QED BY <1>1, <1>2, <1>3 DEF SafeInv

\* While staging runs and the state does not change, neither the active slot
\* nor the slot the machine runs from is the one being worked on.
LEMMA StagingStep ==
  ASSUME SafeInv, pc # "idle", [Next]_vars, UNCHANGED state,
         \/ UNCHANGED <<running, booted>>
         \/ PowerOff /\ pc' = "idle"
  PROVE  ActiveBootable' /\ PendingVerified' /\ StagingAlone' /\ RunsKnownSlot'
<1> USE DEF SafeInv
<1>1. state.active_slot \in FlashSlots
  BY DEF TypeOK, States
<1>2. flash'[state.active_slot] = flash[state.active_slot]
  BY <1>1, OnlyTargetTouched, TargetIsOther
<1>3. ActiveBootable'
  BY <1>2 DEF ActiveBootable
<1>4. PendingVerified' /\ StagingAlone'
  BY DEF PendingVerified, StagingAlone, PowerOff
<1>5. RunsKnownSlot'
  BY DEF RunsKnownSlot, StagingAlone, PowerOff
<1> QED BY <1>3, <1>4, <1>5

\* Every step preserves the inductive invariant when staging is deferred.
LEMMA NextSafe ==
  ASSUME DefersStaging
  PROVE  SafeInv /\ [Next]_vars => SafeInv'
<1> SUFFICES ASSUME SafeInv, [Next]_vars PROVE SafeInv'
  OBVIOUS
<1> USE DEF SafeInv
<1>0. TypeOK'
  BY NextTypeOK
<1>1. ASSUME NEW m \in Manifests, NEW allow \in BOOLEAN, StageBegin(m, allow)
      PROVE  SafeInv'
  <2>1. ActiveBootable' /\ PendingVerified' /\ RunsKnownSlot'
    BY <1>1 DEF StageBegin, ActiveBootable, PendingVerified, RunsKnownSlot
  <2>2. StagingAlone'
    BY <1>1 DEF StageBegin, StagingAlone, Alive
  <2>3. Compared'
    BY <1>1 DEF StageBegin, Compared
  <2> QED BY <1>0, <2>1, <2>2, <2>3
<1>2. CASE Erase
  <2>1. Compared'
    BY <1>2 DEF Erase, Compared, call
  <2> QED BY <1>0, <1>2, <2>1, StagingStep DEF Erase
<1>3. CASE EraseFails
  <2>1. Compared'
    BY <1>3 DEF EraseFails, Compared, Return
  <2> QED BY <1>0, <1>3, <2>1, StagingStep DEF EraseFails
<1>4. ASSUME NEW bad \in SUBSET AllChunks, Write(bad)
      PROVE  SafeInv'
  <2>1. Compared'
    BY <1>4 DEF Write, Compared, call
  <2> QED BY <1>0, <1>4, <2>1, StagingStep DEF Write
<1>5. ASSUME NEW bad \in SUBSET AllChunks, WriteFails(bad)
      PROVE  SafeInv'
  <2>1. Compared'
    BY <1>5 DEF WriteFails, Compared, Return
  <2> QED BY <1>0, <1>5, <2>1, StagingStep DEF WriteFails
<1>6. CASE VerifyChunk
  <2>1. Compared'
    <3>1. offset \in Nat
      BY FirmwareAssumption DEF TypeOK
    <3>2. \A i \in 0 .. offset' - 1 : ChunkMatches(i)
      BY <1>6, <3>1 DEF VerifyChunk, Compared
    <3>3. UNCHANGED <<flash, generation, state>> /\ pc' = "verify"
      BY <1>6 DEF VerifyChunk
    <3> QED BY <3>2, <3>3 DEF Compared, ChunkMatches, Target
  <2> QED BY <1>0, <1>6, <2>1, StagingStep DEF VerifyChunk
<1>7. CASE VerifyFails
  <2>1. Compared'
    BY <1>7 DEF VerifyFails, Compared, Return
  <2> QED BY <1>0, <1>7, <2>1, StagingStep DEF VerifyFails
<1>8. CASE Commit
  <2>1. /\ state'.active_slot = state.active_slot
        /\ state'.active_generation = state.active_generation
        /\ state'.pending_slot = Target
        /\ state'.pending_generation = generation
    BY <1>8 DEF Commit, TypeOK, States
  <2>2. /\ UNCHANGED <<flash, running, booted>>
        /\ pc' = "idle"
    BY <1>8 DEF Commit, Return
  <2>3. HoldsImage(flash[Target], generation)
    <3>1. Chunks \in Nat \ {0} /\ offset = Chunks /\ pc = "verify"
      BY <1>8, FirmwareAssumption DEF Commit
    <3>2. \A i \in AllChunks : ChunkMatches(i)
      BY <3>1 DEF Compared, AllChunks
    <3>3. 0 \in AllChunks
      BY <3>1 DEF AllChunks
    <3>4. flash[Target].bad \in SUBSET AllChunks
      BY TargetIsOther DEF TypeOK, Contents
    <3> QED BY <3>2, <3>3, <3>4 DEF ChunkMatches, HoldsImage
  <2>4. running = state.active_slot /\ running # Target
    BY <1>8, TargetIsOther DEF Commit, StagingAlone, RunsKnownSlot
  <2>5. ActiveBootable' /\ PendingVerified'
    BY <2>1, <2>2, <2>3 DEF ActiveBootable, PendingVerified, HoldsImage
  <2>6. StagingAlone' /\ Compared' /\ RunsKnownSlot'
    BY <2>1, <2>2, <2>4 DEF StagingAlone, Compared, RunsKnownSlot
  <2> QED BY <1>0, <2>5, <2>6
<1>9. CASE Boot
  <2>1. pc = "idle" /\ pc' = "idle" /\ flash' = flash
    BY <1>9 DEF Boot, StagingAlone
  <2>2. /\ state'.active_slot = state.active_slot
        /\ state'.active_generation = state.active_generation
        /\ \/ state'.pending_slot = SLOT_NONE
           \/ /\ state'.pending_slot = state.pending_slot
              /\ state'.pending_generation = state.pending_generation
    BY <1>9 DEF Boot, SelectState, ClearPending, TypeOK, States
  <2>3. running' \in {state'.active_slot, state'.pending_slot}
    BY <1>9, <2>2 DEF Boot, SelectSlot, SelectState, TypeOK, States
  <2>4. booted' = flash'[running']
    BY <1>9, <2>1 DEF Boot
  <2>5. ActiveBootable' /\ PendingVerified'
    BY <2>1, <2>2 DEF ActiveBootable, PendingVerified, HoldsImage
  <2>6. StagingAlone' /\ Compared' /\ RunsKnownSlot'
    BY <2>1, <2>3, <2>4 DEF StagingAlone, Compared, RunsKnownSlot
  <2> QED BY <1>0, <2>5, <2>6
<1>10. CASE MarkBootGood
  <2>1. /\ state'.active_slot = state.pending_slot
        /\ state'.active_generation = state.pending_generation
        /\ state'.pending_slot = SLOT_NONE
    BY <1>10 DEF MarkBootGood, ClearPending, TypeOK, States
  <2>2. /\ UNCHANGED <<flash, pc, running, booted>>
        /\ pc = "idle"
        /\ running = state.pending_slot
        /\ running # SLOT_NONE
    BY <1>10 DEF MarkBootGood, Alive
  <2>3. ActiveBootable' /\ PendingVerified'
    BY <2>1, <2>2 DEF ActiveBootable, PendingVerified
  <2>4. StagingAlone' /\ Compared' /\ RunsKnownSlot'
    BY <2>1, <2>2 DEF StagingAlone, Compared, RunsKnownSlot
  <2> QED BY <1>0, <2>3, <2>4
<1>11. CASE Restart
  <2>1. UNCHANGED <<state, flash, pc>> /\ pc = "idle" /\ running' = SLOT_NONE
    BY <1>11 DEF Restart, PowerOff
  <2>2. ActiveBootable' /\ PendingVerified'
    BY <2>1 DEF ActiveBootable, PendingVerified
  <2>3. StagingAlone' /\ Compared' /\ RunsKnownSlot'
    BY <2>1 DEF StagingAlone, Compared, RunsKnownSlot
  <2> QED BY <1>0, <2>2, <2>3
<1>12. CASE PowerLoss
  <2>1. pc' = "idle" /\ Compared'
    BY <1>12 DEF PowerLoss, Compared, Return
  <2> QED BY <1>0, <1>12, <2>1, StagingStep DEF PowerLoss
<1>13. CASE UNCHANGED vars
  BY <1>0, <1>13 DEF vars, ActiveBootable, PendingVerified, StagingAlone,
                     Compared, RunsKnownSlot, ChunkMatches, Target
<1> QED BY <1>1, <1>2, <1>3, <1>4, <1>5, <1>6, <1>7, <1>8, <1>9, <1>10,
           <1>11, <1>12, <1>13 DEF Next, Staging

\* The inductive invariant holds in every reachable state.
LEMMA SafeInvariant ==
  ASSUME DefersStaging
  PROVE  Spec => []SafeInv
BY InitSafe, NextSafe, PTL DEF Spec

\* If the caller defers staging while an update is pending, the machine can
\* always be started: the active slot holds its image intact, across every
\* interleaving of staging, failing flash operations, boots and power losses.
THEOREM AlwaysBootable ==
  ASSUME DefersStaging
  PROVE  Spec => []ActiveBootable
<1>1. SafeInv => ActiveBootable
  BY DEF SafeInv
<1> QED BY <1>1, SafeInvariant, PTL

\* Under the same rule the slot that the next boot tries holds, intact, the
\* image that was read back and compared.
THEOREM TriesWhatWasVerified ==
  ASSUME DefersStaging
  PROVE  Spec => []PendingVerified
<1>1. SafeInv => PendingVerified
  BY DEF SafeInv
<1> QED BY <1>1, SafeInvariant, PTL

\* Under the same rule josh_fw_mark_boot_good makes active exactly the contents
\* that were booted.
THEOREM ConfirmsWhatBooted ==
  ASSUME DefersStaging
  PROVE  Spec => ConfirmedWasBooted
<1>1. SafeInv /\ [Next]_vars
        => (state'.active_slot # state.active_slot
              => booted = flash[state'.active_slot])
  <2> SUFFICES ASSUME SafeInv, [Next]_vars,
                      state'.active_slot # state.active_slot
               PROVE  booted = flash[state'.active_slot]
    OBVIOUS
  <2>1. CASE MarkBootGood
    <3>1. state'.active_slot = state.pending_slot
      BY <2>1 DEF MarkBootGood, ClearPending, SafeInv, TypeOK, States
    <3> QED BY <2>1, <3>1 DEF MarkBootGood, Alive, SafeInv, RunsKnownSlot
  <2>2. CASE Boot
    BY <2>2 DEF Boot, SelectState, ClearPending, SafeInv, TypeOK, States
  <2>3. CASE Commit
    BY <2>3 DEF Commit, SafeInv, TypeOK, States
  <2>4. MarkBootGood \/ Boot \/ Commit \/ UNCHANGED state
    BY DEF Next, Staging, StageBegin, Erase, EraseFails, Write, WriteFails,
           VerifyChunk, VerifyFails, Restart, PowerLoss, vars
  <2> QED BY <2>1, <2>2, <2>3, <2>4
<1>2. SafeInv /\ [Next]_vars
        => [state'.active_slot # state.active_slot
              => booted = flash[state'.active_slot]]_vars
  BY <1>1
<1> QED BY <1>2, SafeInvariant, PTL DEF Spec, ConfirmedWasBooted
=============================================================================
