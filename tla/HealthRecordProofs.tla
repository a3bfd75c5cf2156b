------------------------- MODULE HealthRecordProofs -------------------------
(***************************************************************************)
(* What the functions of boot/core/health.c return, for every record and   *)
(* every attempt limit.  Cited by the proofs about the loaders.            *)
(***************************************************************************)
EXTENDS HealthRecord, TLAPS

\* A trial never has the recovery slot as its candidate.
TrialSane(r) == r.pending_good => r.selected_slot # RECOVERY

\* josh_health_default builds a valid record with no trial under way.
LEMMA DefaultTyped ==
  DefaultRecord \in HealthRecords /\ Valid(DefaultRecord) /\ TrialSane(DefaultRecord)
<1>1. 0 \in 0 .. MaxAttempts
  BY MaxAttemptsAssumption
<1>2. DefaultRecord \in HealthRecords
  BY <1>1 DEF DefaultRecord, HealthRecords, Slots
<1> QED BY <1>2 DEF DefaultRecord, Valid, TrialSane

\* A torn sector reads as a record that fails josh_health_valid.
LEMMA CorruptTyped ==
  Corrupt \in HealthRecords /\ ~Valid(Corrupt) /\ ~Corrupt.pending_good /\ TrialSane(Corrupt)
<1>1. Corrupt \in HealthRecords
  BY DefaultTyped DEF Corrupt, HealthRecords
<1> QED BY <1>1 DEF Corrupt, DefaultRecord, Valid, TrialSane

\* The record chosen is one of the two copies, and a valid one if there is one.
LEMMA ChooseIsCopy ==
  ASSUME NEW a, NEW b
  PROVE  /\ Choose(a, b) \in {a, b, DefaultRecord}
         /\ Valid(a) \/ Valid(b) =>
              \/ Choose(a, b) = a /\ Valid(a)
              \/ Choose(a, b) = b /\ Valid(b)
         /\ Valid(Choose(a, b))
BY DefaultTyped DEF Choose

\* josh_health_prepare_attempt returns a record.
LEMMA PrepareAttemptTyped ==
  ASSUME NEW r \in HealthRecords
  PROVE  PrepareAttempt(r) \in HealthRecords
<1>1. CASE ~r.pending_good
  BY <1>1 DEF PrepareAttempt
<1>2. CASE r.pending_good /\ r.attempt_count >= MaxAttempts
  <2>1. 0 \in 0 .. MaxAttempts /\ r.generation + 1 \in Nat
    BY MaxAttemptsAssumption DEF HealthRecords
  <2>2. RollbackSlot(r) \in Slots
    BY DEF RollbackSlot, HealthRecords, Slots
  <2> QED BY <1>2, <2>1, <2>2 DEF PrepareAttempt, HealthRecords
<1>3. CASE r.pending_good /\ ~(r.attempt_count >= MaxAttempts)
  <2>1. r.attempt_count + 1 \in 0 .. MaxAttempts /\ r.generation + 1 \in Nat
    BY <1>3, MaxAttemptsAssumption DEF HealthRecords
  <2> QED BY <1>3, <2>1 DEF PrepareAttempt, HealthRecords
<1> QED BY <1>1, <1>2, <1>3

\* josh_boot_health_prepare_attempt seals what it changes, bumps the
\* generation exactly when it changes the record, and never confirms a trial.
LEMMA PrepareAttemptResult ==
  ASSUME NEW r \in HealthRecords, TrialSane(r)
  PROVE  /\ Valid(PrepareAttempt(r)) <=> Valid(r)
         /\ TrialSane(PrepareAttempt(r))
         /\ PrepareAttempt(r).generation # r.generation
              => PrepareAttempt(r).generation = r.generation + 1
         /\ PrepareAttempt(r).generation = r.generation
              => PrepareAttempt(r) = r
         /\ r.pending_good /\ ~PrepareAttempt(r).pending_good =>
              /\ PrepareAttempt(r).selected_slot # r.selected_slot
              /\ PrepareAttempt(r).last_good_slot = r.last_good_slot
              /\ PrepareAttempt(r).last_failure_stage # FAILURE_NONE
<1>0. r.generation \in Nat /\ r.generation + 1 # r.generation
  BY DEF HealthRecords
<1>1. CASE ~r.pending_good
  BY <1>1 DEF PrepareAttempt
<1>2. CASE r.pending_good /\ r.attempt_count >= MaxAttempts
  <2> DEFINE p == [r EXCEPT !.generation = r.generation + 1,
                            !.selected_slot = RollbackSlot(r),
                            !.pending_good = FALSE,
                            !.attempt_count = 0,
                            !.last_failure_stage = FAILURE_KERNEL]
  <2>1. PrepareAttempt(r) = p
    BY <1>2 DEF PrepareAttempt
  <2>2. /\ p.generation = r.generation + 1
        /\ p.selected_slot = RollbackSlot(r)
        /\ p.pending_good = FALSE
        /\ p.last_good_slot = r.last_good_slot
        /\ p.last_failure_stage = FAILURE_KERNEL
        /\ p.sealed = r.sealed
    BY DEF HealthRecords
  <2>3. RollbackSlot(r) # r.selected_slot
    BY <1>2 DEF RollbackSlot, TrialSane
  <2>4. FAILURE_KERNEL # FAILURE_NONE
    BY DEF FAILURE_KERNEL, FAILURE_NONE
  <2> HIDE DEF p
  <2> QED BY <1>0, <2>1, <2>2, <2>3, <2>4 DEF Valid, TrialSane
<1>3. CASE r.pending_good /\ ~(r.attempt_count >= MaxAttempts)
  <2> DEFINE p == [r EXCEPT !.generation = r.generation + 1,
                            !.attempt_count = r.attempt_count + 1]
  <2>1. PrepareAttempt(r) = p
    BY <1>3 DEF PrepareAttempt
  <2>2. /\ p.generation = r.generation + 1
        /\ p.selected_slot = r.selected_slot
        /\ p.pending_good = r.pending_good
        /\ p.sealed = r.sealed
    BY DEF HealthRecords
  <2> HIDE DEF p
  <2> QED BY <1>0, <1>3, <2>1, <2>2 DEF Valid, TrialSane
<1> QED BY <1>1, <1>2, <1>3

\* What josh_boot_health_prepare_attempt does to a count: a record still on
\* trial has one attempt more than before.
LEMMA AttemptCounted ==
  ASSUME NEW r \in HealthRecords, PrepareAttempt(r).pending_good
  PROVE  /\ r.pending_good
         /\ PrepareAttempt(r).attempt_count = r.attempt_count + 1
         /\ PrepareAttempt(r).generation # r.generation
<1>1. r.pending_good
  BY DEF PrepareAttempt
<1>2. CASE r.attempt_count >= MaxAttempts
  BY <1>1, <1>2 DEF PrepareAttempt, HealthRecords
<1>3. CASE ~(r.attempt_count >= MaxAttempts)
  <2> DEFINE p == [r EXCEPT !.generation = r.generation + 1,
                            !.attempt_count = r.attempt_count + 1]
  <2>1. PrepareAttempt(r) = p
    BY <1>1, <1>3 DEF PrepareAttempt
  <2>2. p.generation = r.generation + 1 /\ p.attempt_count = r.attempt_count + 1
    BY DEF HealthRecords
  <2>3. r.generation + 1 # r.generation
    BY DEF HealthRecords
  <2> HIDE DEF p
  <2> QED BY <1>1, <2>1, <2>2, <2>3
<1> QED BY <1>2, <1>3

\* A record on trial gets a new generation at every boot.
LEMMA AttemptStarted ==
  ASSUME NEW r \in HealthRecords, r.pending_good
  PROVE  PrepareAttempt(r).generation = r.generation + 1
BY DEF PrepareAttempt, HealthRecords

\* What josh_health_select_fallback changes in the record it is given.
LEMMA SelectFallbackResult ==
  ASSUME NEW r \in HealthRecords, NEW s \in Slots
  PROVE  LET f == SelectFallback(r, s, FAILURE_KERNEL_FILE)
         IN  /\ f \in HealthRecords
             /\ f.generation = r.generation + 1
             /\ f.selected_slot = s
             /\ f.last_good_slot = r.last_good_slot
             /\ f.last_failure_stage # FAILURE_NONE
             /\ TrialSane(f)
             /\ Valid(f) <=> Valid(r)
<1>1. 0 \in 0 .. MaxAttempts /\ r.generation + 1 \in Nat
  BY MaxAttemptsAssumption DEF HealthRecords
<1>2. FAILURE_KERNEL_FILE # FAILURE_NONE
  BY DEF FAILURE_KERNEL_FILE, FAILURE_NONE
<1> QED BY <1>1, <1>2 DEF SelectFallback, HealthRecords, TrialSane, Valid

\* josh_health_mark_good ends any trial, so its record is sane, and starts a
\* generation.
LEMMA MarkGoodResult ==
  ASSUME NEW r \in HealthRecords, NEW s \in Slots
  PROVE  /\ MarkGood(r, s) \in HealthRecords /\ TrialSane(MarkGood(r, s))
         /\ MarkGood(r, s).generation = r.generation + 1
         /\ Valid(MarkGood(r, s)) <=> Valid(r)
<1>1. 0 \in 0 .. MaxAttempts /\ r.generation + 1 \in Nat
  BY MaxAttemptsAssumption DEF HealthRecords
<1> QED BY <1>1 DEF MarkGood, HealthRecords, TrialSane, Valid

\* josh_health_begin_update of a slot other than recovery starts a sane trial.
LEMMA BeginUpdateResult ==
  ASSUME NEW r \in HealthRecords, NEW s \in Slots, CanBeginUpdate(s)
  PROVE  /\ BeginUpdate(r, s) \in HealthRecords /\ TrialSane(BeginUpdate(r, s))
         /\ BeginUpdate(r, s).generation = r.generation + 1
         /\ Valid(BeginUpdate(r, s)) <=> Valid(r)
<1>1. 0 \in 0 .. MaxAttempts /\ r.generation + 1 \in Nat
  BY MaxAttemptsAssumption DEF HealthRecords
<1> QED BY <1>1 DEF BeginUpdate, CanBeginUpdate, HealthRecords, TrialSane, Valid

\* The sector a generation goes to, and the one its successor goes to.
LEMMA CopyForParity ==
  ASSUME NEW r \in HealthRecords
  PROVE  /\ CopyFor(r) \in Copies
         /\ CopyFor(r) = "A" => r.generation % 2 = 0
         /\ CopyFor(r) = "B" => r.generation % 2 = 1
BY DEF CopyFor, Copies, HealthRecords

\* Consecutive generations belong to different copies.
LEMMA NextParity ==
  ASSUME NEW r \in HealthRecords, NEW n \in HealthRecords,
         n.generation = r.generation + 1
  PROVE  /\ r.generation % 2 = 0 => CopyFor(n) = "B"
         /\ r.generation % 2 = 1 => CopyFor(n) = "A"
BY DEF CopyFor, HealthRecords
=============================================================================
