------------------------ MODULE BiosHealthStoreProofs ------------------------
(***************************************************************************)
(* BiosHealth implements HealthStore for every attempt limit and every     *)
(* number of faults and commands: each change of the two sectors is one    *)
(* step of a store with a spare.                                           *)
(***************************************************************************)
EXTENDS BiosHealthStore, BiosHealthProofs

\* A sector that holds no record holds nothing else either.
BlankIsCorrupt == \A c \in Copies : Valid(disk[c]) \/ disk[c] = Corrupt

\* The record being written is one generation on from one that is on the disk.
BaseOnDisk ==
  pc = "write" => \E c \in Copies : /\ Valid(disk[c])
                                    /\ disk[c].generation + 1 = health.generation

StoreInv == SafeInv /\ BlankIsCorrupt /\ BaseOnDisk

-----------------------------------------------------------------------------
(* Which copy wins. *)

\* Copy A is the current record if it is valid and copy B is not newer.
AWins == /\ Valid(disk["A"])
         /\ ~Valid(disk["B"]) \/ disk["A"].generation >= disk["B"].generation

\* The current record is copy A when A wins and copy B otherwise; it is the one
\* Choose returns, asked in either order.
CurrentIsChosen ==
  LET current == disk[ChosenCopy]
      spare   == disk[OtherCopy(ChosenCopy)]
  IN  /\ AWins  => current = disk["A"] /\ spare = disk["B"]
      /\ ~AWins => current = disk["B"] /\ spare = disk["A"]
      /\ Valid(disk["A"]) \/ Valid(disk["B"]) => Choose(current, spare) = current

\* Ties and unreadable copies included, the refinement mapping picks the record
\* a boot would.
LEMMA CurrentIs == TypeOK => CurrentIsChosen
<1> SUFFICES ASSUME TypeOK PROVE CurrentIsChosen
  OBVIOUS
<1> USE DEF CurrentIsChosen
<1>1. disk["A"].generation \in Nat /\ disk["B"].generation \in Nat
  BY DEF TypeOK, HealthRecords, Copies
<1>2. CASE AWins
  <2>1. ChosenCopy = "A"
    BY <1>2 DEF AWins, ChosenCopy, Choose
  <2>2. OtherCopy(ChosenCopy) = "B"
    BY <2>1 DEF OtherCopy
  <2> QED BY <1>2, <2>1, <2>2 DEF AWins, Choose
<1>3. CASE ~AWins
  <2>1. ChosenCopy = "B"
    <3>1. CASE ~Valid(disk["A"])
      BY <3>1 DEF ChosenCopy
    <3>2. CASE Valid(disk["A"]) /\ Valid(disk["B"])
               /\ ~(disk["A"].generation >= disk["B"].generation)
      <4>1. Choose(disk["A"], disk["B"]) = disk["B"]
        BY <3>2 DEF Choose
      <4>2. disk["A"] # disk["B"]
        BY <1>1, <3>2
      <4> QED BY <4>1, <4>2 DEF ChosenCopy
    <3> QED BY <1>3, <3>1, <3>2 DEF AWins
  <2>2. OtherCopy(ChosenCopy) = "A"
    BY <2>1 DEF OtherCopy
  <2>3. Valid(disk["A"]) \/ Valid(disk["B"]) =>
          Choose(disk["B"], disk["A"]) = disk["B"]
    BY <1>1, <1>3 DEF AWins, Choose
  <2> QED BY <1>3, <2>1, <2>2, <2>3
<1> QED BY <1>2, <1>3

\* The same after a step.
LEMMA CurrentIsNext == TypeOK' => CurrentIsChosen'
BY CurrentIs, PTL

-----------------------------------------------------------------------------
(* What a write does to the store. *)

\* A sector that is torn, or that a write never reached in one piece, is a tear
\* of the store.
LEMMA TearStep ==
  ASSUME TypeOK, TypeOK', BlankIsCorrupt, NEW c \in Copies,
         disk' = [disk EXCEPT ![c] = Corrupt]
  PROVE  Store!StoreNext
<1> DEFINE current == disk[ChosenCopy]
           spare   == disk[OtherCopy(ChosenCopy)]
<1>1. /\ c = "A" => disk'["A"] = Corrupt /\ disk'["B"] = disk["B"]
      /\ c = "B" => disk'["B"] = Corrupt /\ disk'["A"] = disk["A"]
  BY DEF TypeOK, Copies
<1>2. {current, spare} = {disk["A"], disk["B"]}
  BY CurrentIs DEF CurrentIsChosen
<1>3. spare' = Corrupt /\ current' \in {disk["A"], disk["B"]}
  <2>1. CASE c = "A"
    <3>1. ~AWins'
      BY <1>1, <2>1, CorruptTyped DEF AWins
    <3> QED BY <1>1, <2>1, <3>1, CurrentIsNext DEF CurrentIsChosen
  <2>2. CASE c = "B" /\ Valid(disk["A"])
    <3>1. AWins'
      BY <1>1, <2>2, CorruptTyped DEF AWins
    <3> QED BY <1>1, <2>2, <3>1, CurrentIsNext DEF CurrentIsChosen
  <2>3. CASE c = "B" /\ ~Valid(disk["A"])
    <3>1. ~AWins' /\ disk["A"] = Corrupt
      BY <1>1, <2>3 DEF AWins, BlankIsCorrupt, Copies
    <3> QED BY <1>1, <2>3, <3>1, CurrentIsNext DEF CurrentIsChosen
  <2> QED BY <2>1, <2>2, <2>3 DEF Copies
<1>4. Store!Tear
  BY <1>2, <1>3 DEF Store!Tear, Store!Corrupt, Store!DefaultRecord, Corrupt, DefaultRecord,
                    Store!CURRENT, CURRENT, Store!FAILURE_NONE, FAILURE_NONE
<1> QED BY <1>4 DEF Store!StoreNext

\* A valid record written to one sector: the store starts over with it if it is
\* the default record or its successor, and goes one generation on if it is the
\* successor of the record in the other sector.
LEMMA WriteStep ==
  ASSUME TypeOK, TypeOK', NEW c \in Copies, NEW r \in HealthRecords, Valid(r),
         disk' = [disk EXCEPT ![c] = r],
         \/ r = DefaultRecord
         \/ r.generation = 1
         \/ /\ Valid(disk[OtherCopy(c)])
            /\ r.generation = disk[OtherCopy(c)].generation + 1
  PROVE  Store!StoreNext
<1> DEFINE current == disk[ChosenCopy]
           spare   == disk[OtherCopy(ChosenCopy)]
           kept    == disk[OtherCopy(c)]
<1>1. /\ c = "A" => disk'["A"] = r /\ disk'["B"] = disk["B"] /\ kept = disk["B"]
      /\ c = "B" => disk'["B"] = r /\ disk'["A"] = disk["A"] /\ kept = disk["A"]
  BY DEF TypeOK, Copies, OtherCopy
<1>2. {current, spare} = {disk["A"], disk["B"]}
  BY CurrentIs DEF CurrentIsChosen
<1>3. {current', spare'} = {disk'["A"], disk'["B"]}
  BY CurrentIsNext DEF CurrentIsChosen
<1>4. kept \in {current, spare} /\ {current', spare'} = {kept, r}
  BY <1>1, <1>2, <1>3 DEF Copies
<1>5. Choose(current', spare') = current'
  BY <1>1, CurrentIsNext DEF CurrentIsChosen, Copies
<1>6. CASE r = DefaultRecord \/ r.generation = 1
  <2>1. r = DefaultRecord \/ (Valid(r) /\ r.generation = DefaultRecord.generation + 1)
    BY <1>6 DEF DefaultRecord
  <2>2. Store!StartOver
    <3>1. Store!DefaultRecord = DefaultRecord
      BY DEF Store!DefaultRecord, DefaultRecord, Store!CURRENT, CURRENT,
             Store!FAILURE_NONE, FAILURE_NONE
    <3>2. Store!Choose(current', spare') = current'
      BY <1>5, <3>1 DEF Store!Choose, Choose, Store!Valid, Valid
    <3>3. r \in {current', spare'}
            /\ (r = Store!DefaultRecord \/ Store!Succeeds(r, Store!DefaultRecord))
      BY <1>4, <2>1, <3>1 DEF Store!Succeeds, Store!Valid, Valid
    <3> QED BY <1>4, <3>2, <3>3 DEF Store!StartOver
  <2> QED BY <2>2 DEF Store!StoreNext
<1>7. CASE Valid(kept) /\ r.generation = kept.generation + 1
  <2>1. /\ kept.generation \in Nat /\ r.generation >= kept.generation
        /\ ~(kept.generation >= r.generation)
    BY <1>7, OtherCopyIsOther DEF TypeOK, HealthRecords
  <2>2. current' = r /\ spare' = kept
    <3>1. CASE c = "A"
      <4>1. AWins'
        BY <1>1, <2>1, <3>1 DEF AWins
      <4> QED BY <1>1, <3>1, <4>1, CurrentIsNext DEF CurrentIsChosen
    <3>2. CASE c = "B"
      <4>1. ~AWins'
        BY <1>1, <2>1, <3>2 DEF AWins
      <4> QED BY <1>1, <3>2, <4>1, CurrentIsNext DEF CurrentIsChosen
    <3> QED BY <3>1, <3>2 DEF Copies
  <2>3. CASE kept = current
    <3>1. Store!Commit
      BY <1>7, <2>2, <2>3 DEF Store!Commit, Store!Succeeds, Store!Observed, Store!Valid, Valid
    <3> QED BY <3>1 DEF Store!StoreNext
  <2>4. CASE kept = spare
    <3>1. Store!Redo
      BY <1>7, <2>2, <2>4 DEF Store!Redo, Store!Succeeds, Store!Valid, Valid
    <3> QED BY <3>1 DEF Store!StoreNext
  <2> QED BY <1>4, <2>3, <2>4
<1> QED BY <1>6, <1>7

\* The sector a record goes to is not the one that holds its predecessor, or
\* the predecessor was the default record.
LEMMA BaseElsewhere ==
  ASSUME TypeOK, CopyParity, NEW r \in HealthRecords, NEW w \in Copies,
         Valid(disk[w]), disk[w].generation + 1 = r.generation
  PROVE  \/ r.generation = 1
         \/ /\ Valid(disk[OtherCopy(CopyFor(r))])
            /\ r.generation = disk[OtherCopy(CopyFor(r))].generation + 1
<1>1. disk[w] \in HealthRecords /\ disk[w].generation \in Nat
  BY DEF TypeOK, HealthRecords
<1>2. CASE w = "A"
  <2>1. CopyFor(r) = "B"
    BY <1>1, <1>2, NextParity DEF CopyParity
  <2> QED BY <1>2, <2>1 DEF OtherCopy
<1>3. CASE w = "B" /\ disk["B"].generation % 2 = 1
  <2>1. CopyFor(r) = "A"
    BY <1>1, <1>3, NextParity
  <2> QED BY <1>3, <2>1 DEF OtherCopy
<1>4. CASE w = "B" /\ disk["B"] = DefaultRecord
  BY <1>4 DEF DefaultRecord
<1> QED BY <1>2, <1>3, <1>4 DEF CopyParity, Copies

\* One josh-healthctl command that stores what it computed from what it read is
\* a step of the store, or rewrites a sector with what it held.
LEMMA ToolStep ==
  ASSUME TypeOK, TypeOK', CopyParity, BlankIsCorrupt, NEW F \in SUBSET Copies,
         NEW r \in HealthRecords, Valid(r), NEW n, ToolStores(F, r, n),
         r = ToolState(F) \/ r.generation = ToolState(F).generation + 1
  PROVE  (Store!StoreNext \/ UNCHANGED disk) /\ BlankIsCorrupt'
<1>1. CopyFor(r) \in Copies
  BY CopyForParity
<1>2. CASE disk' = [disk EXCEPT ![CopyFor(r)] = Corrupt]
  <2>1. BlankIsCorrupt'
    BY <1>1, <1>2 DEF BlankIsCorrupt, TypeOK
  <2> QED BY <1>1, <1>2, <2>1, TearStep
<1>3. CASE disk' = [disk EXCEPT ![CopyFor(r)] = r]
  <2>1. BlankIsCorrupt'
    BY <1>1, <1>3 DEF BlankIsCorrupt, TypeOK
  <2>2. CASE r = DefaultRecord
    BY <1>1, <1>3, <2>1, <2>2, WriteStep
  <2>3. CASE r = ToolState(F) /\ r # DefaultRecord
    <3>1. disk' = disk
      BY <1>1, <1>3, <2>3, StateInItsSector DEF TypeOK
    <3> QED BY <2>1, <3>1
  <2>4. CASE r.generation = ToolState(F).generation + 1
    <3>1. CASE ToolState(F) = DefaultRecord
      <4>1. r.generation = 1
        BY <2>4, <3>1 DEF DefaultRecord
      <4> QED BY <1>1, <1>3, <2>1, <4>1, WriteStep
    <3>2. CASE ToolState(F) # DefaultRecord
      <4>1. PICK w \in Copies : disk[w] = ToolState(F) /\ Valid(disk[w])
        BY <3>2, StateOrigin
      <4>2. \/ r.generation = 1
            \/ /\ Valid(disk[OtherCopy(CopyFor(r))])
               /\ r.generation = disk[OtherCopy(CopyFor(r))].generation + 1
        BY <2>4, <4>1, BaseElsewhere
      <4> QED BY <1>1, <1>3, <2>1, <4>2, WriteStep
    <3> QED BY <3>1, <3>2
  <2> QED BY <2>2, <2>3, <2>4
<1> QED BY <1>2, <1>3 DEF ToolStores, ToolWrites, ToolTears

-----------------------------------------------------------------------------
(* The refinement. *)

\* Every step preserves the invariant and is a step of the store, or leaves
\* the sectors alone.
LEMMA NextStoreInv ==
  StoreInv /\ [Next]_vars => StoreInv' /\ (Store!StoreNext \/ UNCHANGED disk)
<1> SUFFICES ASSUME StoreInv, [Next]_vars
             PROVE  StoreInv' /\ (Store!StoreNext \/ UNCHANGED disk)
  OBVIOUS
<1>0. /\ SafeInv /\ TypeOK /\ CopyParity /\ BlankIsCorrupt /\ BaseOnDisk
      /\ SafeInv' /\ TypeOK' /\ CopyFor(health) \in Copies
  BY NextSafe, CopyForParity DEF StoreInv, SafeInv, TypeOK
<1>1. CASE Prepare \/ Fallback
  <2>1. /\ disk' = disk /\ pc \in {"prepare", "load"}
        /\ pc' = "write" => persistent
    BY <1>1 DEF Prepare, Fallback, AfterChange
  <2>2. pc' = "write" => health'.generation = health.generation + 1
    <3>1. CASE Prepare
      BY <1>0, <3>1, PrepareAttemptResult DEF Prepare, AfterChange, SafeInv, TypeOK, TrialsSane
    <3>2. CASE Fallback
      BY <1>0, <3>2 DEF Fallback, SelectFallback, TypeOK, HealthRecords
    <3> QED BY <1>1, <3>1, <3>2
  <2>3. BaseOnDisk'
    BY <1>0, <2>1, <2>2 DEF BaseOnDisk, SafeInv, OnDisk, HealthInRam
  <2>4. BlankIsCorrupt'
    BY <1>0, <2>1 DEF BlankIsCorrupt
  <2> QED BY <1>0, <2>1, <2>3, <2>4 DEF StoreInv
<1>2. CASE Write
  <2>1. /\ pc = "write" /\ pc' = "verify" /\ disk' = [disk EXCEPT ![CopyFor(health)] = health]
        /\ health \in HealthRecords /\ Valid(health)
    BY <1>0, <1>2 DEF Write, SafeInv, HealthInRam, TypeOK
  <2>2. BlankIsCorrupt' /\ BaseOnDisk'
    BY <1>0, <2>1 DEF BlankIsCorrupt, BaseOnDisk, TypeOK
  <2>3. PICK w \in Copies : Valid(disk[w]) /\ disk[w].generation + 1 = health.generation
    BY <1>0, <2>1 DEF BaseOnDisk
  <2>4. Store!StoreNext
    BY <1>0, <2>1, <2>3, BaseElsewhere, WriteStep
  <2> QED BY <1>0, <2>2, <2>4 DEF StoreInv
<1>3. CASE WriteRefused \/ WriteLost \/ PowerLoss
  <2>1. /\ pc' # "write"
        /\ disk' = disk \/ disk' = [disk EXCEPT ![CopyFor(health)] = Corrupt]
    BY <1>3 DEF WriteRefused, WriteLost, PowerLoss, Forget
  <2>2. BlankIsCorrupt' /\ BaseOnDisk'
    BY <1>0, <2>1 DEF BlankIsCorrupt, BaseOnDisk, TypeOK
  <2>3. Store!StoreNext \/ UNCHANGED disk
    BY <1>0, <2>1, TearStep
  <2> QED BY <1>0, <2>2, <2>3 DEF StoreInv
<1>4. CASE ToolInit \/ ToolInitB
  <2>1. /\ pc' # "write"
        /\ \/ disk' = disk
           \/ \E c \in Copies : \/ disk' = [disk EXCEPT ![c] = DefaultRecord]
                                \/ disk' = [disk EXCEPT ![c] = Corrupt]
    BY <1>4 DEF ToolInit, ToolInitB, ToolWrites, ToolTears, Command, Copies
  <2>2. BlankIsCorrupt' /\ BaseOnDisk'
    BY <1>0, <2>1, DefaultTyped DEF BlankIsCorrupt, BaseOnDisk, TypeOK
  <2>3. Store!StoreNext \/ UNCHANGED disk
    BY <1>0, <2>1, TearStep, WriteStep, DefaultTyped
  <2> QED BY <1>0, <2>2, <2>3 DEF StoreInv
<1>5. ASSUME NEW F \in SUBSET Copies, NEW r \in HealthRecords, Command, UNCHANGED pc,
             NEW n, ToolStores(F, r, n), Valid(r),
             r = ToolState(F) \/ r.generation = ToolState(F).generation + 1
      PROVE  StoreInv' /\ (Store!StoreNext \/ UNCHANGED disk)
  <2>1. BaseOnDisk'
    BY <1>5 DEF BaseOnDisk, Command
  <2> QED BY <1>0, <1>5, <2>1, ToolStep DEF StoreInv
<1>6. ASSUME NEW F \in SUBSET Copies, NEW s \in Slots,
             ToolGood(F, s) \/ ToolPending(F, s) \/ ToolAttempt(F)
      PROVE  StoreInv' /\ (Store!StoreNext \/ UNCHANGED disk)
  <2> DEFINE t == ToolState(F)
  <2>1. t \in HealthRecords /\ Valid(t) /\ TrialSane(t)
    BY <1>0, ToolStateTyped, ToolStateSane, ChooseIsCopy DEF ToolState, SafeInv
  <2>2. CASE ToolGood(F, s)
    <3>1. /\ MarkGood(t, s) \in HealthRecords /\ Valid(MarkGood(t, s))
          /\ MarkGood(t, s).generation = t.generation + 1
      BY <2>1, MarkGoodResult
    <3> QED BY <1>5, <2>2, <3>1 DEF ToolGood
  <2>3. CASE ToolPending(F, s)
    <3>1. /\ BeginUpdate(t, s) \in HealthRecords /\ Valid(BeginUpdate(t, s))
          /\ BeginUpdate(t, s).generation = t.generation + 1
      BY <2>1, <2>3, BeginUpdateResult DEF ToolPending
    <3> QED BY <1>5, <2>3, <3>1 DEF ToolPending
  <2>4. CASE ToolAttempt(F)
    <3>1. /\ PrepareAttempt(t) \in HealthRecords /\ Valid(PrepareAttempt(t))
          /\ PrepareAttempt(t) = t \/ PrepareAttempt(t).generation = t.generation + 1
      BY <2>1, PrepareAttemptTyped, PrepareAttemptResult
    <3> QED BY <1>5, <2>4, <3>1 DEF ToolAttempt
  <2> QED BY <1>6, <2>2, <2>3, <2>4
<1>7. CASE PowerOn \/ LoadConfig \/ LoadConfigFails
           \/ (\E F \in SUBSET Copies : HealthLoad(F)) \/ HealthVolatile \/ Verify
           \/ LoadKernel \/ CandidatesExhausted \/ Launch \/ LaunchFails \/ Reset
  <2>1. disk' = disk /\ pc' # "write"
    BY <1>7 DEF PowerOn, LoadConfig, LoadConfigFails, HealthLoad, HealthVolatile, Verify,
                VerifyOf, LoadKernel, CandidatesExhausted, Launch, LaunchFails, Reset,
                Forget
  <2> QED BY <1>0, <2>1 DEF StoreInv, BlankIsCorrupt, BaseOnDisk
<1>8. CASE UNCHANGED vars
  BY <1>0, <1>8 DEF vars, StoreInv, BlankIsCorrupt, BaseOnDisk
<1>9. CURRENT \in Slots
  BY DEF Slots
<1> QED BY <1>1, <1>2, <1>3, <1>4, <1>6, <1>7, <1>8, <1>9 DEF Next, LoaderRuns, Tool

\* Whatever boots, faults, power losses and josh-healthctl commands do to the
\* two sectors, a reader sees a store that goes one generation on from a record
\* that was there, falls back to its spare, or starts over.
THEOREM SectorsActAsStore == Spec => ActsAsStore
<1>1. Init => StoreInv /\ Store!StoreInit
  <2> SUFFICES ASSUME Init PROVE StoreInv /\ Store!StoreInit
    OBVIOUS
  <2>1. SafeInv /\ \A c \in Copies : disk[c] = Corrupt
    BY InitSafe DEF Init
  <2>2. BlankIsCorrupt /\ BaseOnDisk
    BY <2>1 DEF BlankIsCorrupt, BaseOnDisk, Init
  <2>3. disk[ChosenCopy] = Corrupt /\ disk[OtherCopy(ChosenCopy)] = Corrupt
    BY <2>1 DEF ChosenCopy, OtherCopy, Copies
  <2>4. Store!StoreInit
    BY <2>3 DEF Store!StoreInit, Store!Corrupt, Store!DefaultRecord, Corrupt, DefaultRecord,
                Store!CURRENT, CURRENT, Store!FAILURE_NONE, FAILURE_NONE
  <2> QED BY <2>1, <2>2, <2>4 DEF StoreInv
<1>2. StoreInv /\ [Next]_vars => [Store!StoreNext]_Store!storeVars
  BY NextStoreInv DEF Store!storeVars, ChosenCopy
<1>3. StoreInv /\ [Next]_vars => StoreInv'
  BY NextStoreInv
<1> QED BY <1>1, <1>2, <1>3, PTL DEF Spec, ActsAsStore, Store!StoreSpec
=============================================================================
