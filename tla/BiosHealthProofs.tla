-------------------------- MODULE BiosHealthProofs --------------------------
(***************************************************************************)
(* Proofs about BiosHealth for every attempt limit, every number of disk   *)
(* and power faults and every number of josh-healthctl commands.           *)
(***************************************************************************)
EXTENDS BiosHealth, HealthRecordProofs, FiniteSetTheorems

-----------------------------------------------------------------------------
(* Type correctness. *)

\* The number of failed reads is a number.
LEMMA FailedReadsTyped ==
  ASSUME NEW F \in SUBSET Copies
  PROVE  Cardinality(F) \in Nat
<1>1. IsFiniteSet({"A"})
  BY FS_Singleton
<1>2. IsFiniteSet({"A"} \cup {"B"})
  BY <1>1, FS_AddElement
<1>3. Copies = {"A"} \cup {"B"}
  BY DEF Copies
<1> QED BY <1>2, <1>3, FS_Subset, FS_CardinalityType

\* A fault stays within the budget of faults.
LEMMA FaultTyped ==
  ASSUME TypeOK, NEW n \in Nat, Fault(n)
  PROVE  faults' \in 0 .. MaxFaults
BY BiosHealthAssumption DEF TypeOK, Fault

\* What is read is a record even when a read fails.
LEMMA SeenTyped ==
  ASSUME TypeOK, NEW F \in SUBSET Copies
  PROVE  /\ Seen(F) \in [Copies -> HealthRecords]
         /\ \A c \in Copies : Seen(F)[c] \in {disk[c], Corrupt}
BY CorruptTyped DEF TypeOK, Seen

\* josh-healthctl works on a record, whichever sectors it could read.
LEMMA ToolStateTyped ==
  ASSUME TypeOK, NEW F \in SUBSET Copies
  PROVE  ToolState(F) \in HealthRecords
BY SeenTyped, ChooseIsCopy, DefaultTyped DEF ToolState, Copies

\* Writing a record to one sector leaves a record in each.
LEMMA DiskTyped ==
  ASSUME TypeOK, NEW c \in Copies, NEW r \in HealthRecords,
         disk' = [disk EXCEPT ![c] = r]
  PROVE  disk' \in [Copies -> HealthRecords]
BY DEF TypeOK

\* Power loss leaves the loader's memory in its initial state.
LEMMA ForgetTyped ==
  ASSUME Forget
  PROVE  /\ pc' \in LoaderSteps \cup {"off", "init", "kernel", "halted"}
         /\ health' \in HealthRecords
         /\ persistent' \in BOOLEAN
         /\ slot' \in Slots
         /\ candidate' \in 0 .. 3
         /\ paths' \in SUBSET Slots
<1>1. candidate' \in 0 .. 3
  BY DEF Forget
<1>2. persistent' \in BOOLEAN
  BY DEF Forget
<1> QED BY <1>1, <1>2, CorruptTyped DEF Forget, Slots

\* One josh-healthctl command that stores a record.
LEMMA ToolStoresTyped ==
  ASSUME TypeOK, NEW F \in SUBSET Copies, NEW r \in HealthRecords,
         NEW n \in Nat, Command, ToolStores(F, r, n)
  PROVE  /\ disk' \in [Copies -> HealthRecords]
         /\ faults' \in 0 .. MaxFaults
         /\ commands' \in 0 .. MaxCommands
         /\ launched' \in Nat
<1>1. CopyFor(r) \in Copies
  BY CopyForParity
<1>2. Cardinality(F) \in Nat /\ Cardinality(F) + 1 \in Nat
  BY FailedReadsTyped
<1>3. faults' \in 0 .. MaxFaults
  BY <1>2, FaultTyped DEF ToolStores, ToolWrites, ToolTears
<1>4. disk' \in [Copies -> HealthRecords]
  BY <1>1, DiskTyped, CorruptTyped DEF ToolStores, ToolWrites, ToolTears
<1>5. commands' \in 0 .. MaxCommands
  BY BiosHealthAssumption DEF TypeOK, Command
<1>6. launched' \in Nat
  BY DEF ToolStores, TypeOK
<1> QED BY <1>3, <1>4, <1>5, <1>6

\* The type invariant holds at first power-on.
LEMMA InitTypeOK == Init => TypeOK
<1> SUFFICES ASSUME Init PROVE TypeOK
  OBVIOUS
<1>1. /\ candidate \in 0 .. 3 /\ faults \in 0 .. MaxFaults
      /\ commands \in 0 .. MaxCommands /\ launched \in Nat
  BY BiosHealthAssumption DEF Init
<1>2. persistent \in BOOLEAN
  BY DEF Init
<1> QED BY <1>1, <1>2, CorruptTyped DEF Init, TypeOK, Slots

\* Every step of the loader and the tool preserves the type invariant.
LEMMA NextTypeOK == TypeOK /\ [Next]_vars => TypeOK'
<1> SUFFICES ASSUME TypeOK, [Next]_vars PROVE TypeOK'
  OBVIOUS
<1>0. CopyFor(health) \in Copies
  BY CopyForParity DEF TypeOK
<1>1. CASE PowerOn \/ LoadConfigFails \/ LoadKernel \/ CandidatesExhausted \/ LaunchFails
  BY <1>1 DEF PowerOn, LoadConfigFails, LoadKernel, CandidatesExhausted,
              LaunchFails, TypeOK, LoaderSteps, ram
<1>2. CASE LoadConfig
  BY <1>2 DEF LoadConfig, TypeOK, LoaderSteps
<1>3. ASSUME NEW F \in SUBSET Copies, HealthLoad(F)
      PROVE  TypeOK'
  <2>1. faults' \in 0 .. MaxFaults
    BY <1>3, FailedReadsTyped, FaultTyped DEF HealthLoad
  <2>2. health' \in HealthRecords
    BY <1>3, ToolStateTyped DEF HealthLoad, ToolState
  <2>3. persistent' \in BOOLEAN
    BY <1>3 DEF HealthLoad
  <2> QED BY <1>3, <2>1, <2>2, <2>3 DEF HealthLoad, TypeOK, LoaderSteps
<1>4. CASE HealthVolatile
  <2>1. faults' \in 0 .. MaxFaults
    BY <1>4, FaultTyped DEF HealthVolatile, NoFault, TypeOK
  <2>2. persistent' \in BOOLEAN
    BY <1>4 DEF HealthVolatile
  <2> QED BY <1>4, <2>1, <2>2, DefaultTyped DEF HealthVolatile, TypeOK, LoaderSteps
<1>5. CASE Prepare
  <2>1. health' \in HealthRecords /\ slot' \in Slots
    BY <1>5, PrepareAttemptTyped DEF Prepare, TypeOK, HealthRecords
  <2> QED BY <1>5, <2>1 DEF Prepare, AfterChange, TypeOK, LoaderSteps
<1>6. CASE Write
  <2>1. disk' \in [Copies -> HealthRecords]
    BY <1>0, <1>6, DiskTyped DEF Write, TypeOK
  <2> QED BY <1>6, <2>1 DEF Write, TypeOK, LoaderSteps, ram
<1>7. CASE WriteRefused \/ WriteLost
  <2>1. disk' \in [Copies -> HealthRecords]
    BY <1>0, <1>7, DiskTyped, CorruptTyped DEF WriteRefused, WriteLost, TypeOK
  <2>2. faults' \in 0 .. MaxFaults
    BY <1>7, FaultTyped DEF WriteRefused, WriteLost
  <2>3. persistent' \in BOOLEAN
    BY <1>7 DEF WriteRefused, WriteLost, TypeOK, ram
  <2> QED BY <1>7, <2>1, <2>2, <2>3
          DEF WriteRefused, WriteLost, TypeOK, LoaderSteps, ram
<1>8. ASSUME NEW readable \in BOOLEAN, VerifyOf(readable)
      PROVE  TypeOK'
  <2>1. faults' \in 0 .. MaxFaults
    BY <1>8, FaultTyped DEF VerifyOf, NoFault, TypeOK
  <2>2. persistent' \in BOOLEAN
    BY <1>8 DEF VerifyOf
  <2> QED BY <1>8, <2>1, <2>2 DEF VerifyOf, TypeOK, LoaderSteps
<1>9. CASE Fallback
  <2>1. PICK s \in FallbackFrom(slot) :
          /\ health' = SelectFallback(health, s, FAILURE_KERNEL_FILE)
          /\ slot' = s
    BY <1>9 DEF Fallback
  <2>2. s \in Slots
    BY DEF FallbackFrom, Slots
  <2>3. health' \in HealthRecords
    BY <2>1, <2>2, SelectFallbackResult DEF TypeOK
  <2>4. candidate' \in 0 .. 3
    BY <1>9 DEF Fallback, TypeOK
  <2> QED BY <1>9, <2>1, <2>2, <2>3, <2>4
          DEF Fallback, AfterChange, TypeOK, LoaderSteps
<1>10. CASE Launch
  <2>1. launched' \in Nat
    BY <1>10 DEF Launch, TypeOK
  <2> QED BY <1>10, <2>1 DEF Launch, TypeOK, ram
<1>11. CASE Reset
  BY <1>11, ForgetTyped DEF Reset, TypeOK
<1>12. CASE PowerLoss
  <2>1. disk' \in [Copies -> HealthRecords]
    BY <1>0, <1>12, DiskTyped, CorruptTyped DEF PowerLoss, TypeOK
  <2>2. faults' \in 0 .. MaxFaults
    BY <1>12, FaultTyped DEF PowerLoss
  <2> QED BY <1>12, <2>1, <2>2, ForgetTyped DEF PowerLoss, TypeOK
<1>13. CASE ToolInit \/ ToolInitB
  <2>1. disk' \in [Copies -> HealthRecords]
    BY <1>13, DiskTyped, DefaultTyped, CorruptTyped
       DEF ToolInit, ToolInitB, ToolWrites, ToolTears, Copies, TypeOK
  <2>2. faults' \in 0 .. MaxFaults
    BY <1>13, FaultTyped DEF ToolInit, ToolInitB, ToolWrites, ToolTears
  <2>3. commands' \in 0 .. MaxCommands
    BY <1>13, BiosHealthAssumption DEF ToolInit, ToolInitB, Command, TypeOK
  <2>4. launched' \in Nat
    BY <1>13 DEF ToolInit, ToolInitB, TypeOK
  <2>5. pc' \in {"off", "init"} /\ UNCHANGED ram
    BY <1>13 DEF ToolInit, ToolInitB, Command
  <2> QED BY <2>1, <2>2, <2>3, <2>4, <2>5 DEF TypeOK, ram
<1>14. ASSUME NEW F \in SUBSET Copies, NEW s \in Slots, ToolGood(F, s)
       PROVE  TypeOK'
  BY <1>14, ToolStateTyped, MarkGoodResult, ToolStoresTyped DEF ToolGood, TypeOK, ram
<1>15. ASSUME NEW F \in SUBSET Copies, NEW s \in Slots, ToolPending(F, s)
       PROVE  TypeOK'
  BY <1>15, ToolStateTyped, BeginUpdateResult, ToolStoresTyped DEF ToolPending, TypeOK, ram
<1>16. ASSUME NEW F \in SUBSET Copies, ToolAttempt(F)
       PROVE  TypeOK'
  BY <1>16, ToolStateTyped, PrepareAttemptTyped, ToolStoresTyped DEF ToolAttempt, TypeOK, ram
<1>17. CASE UNCHANGED vars
  BY <1>17 DEF vars, TypeOK
<1> QED BY <1>1, <1>2, <1>3, <1>4, <1>5, <1>6, <1>7, <1>8, <1>9, <1>10, <1>11,
           <1>12, <1>13, <1>14, <1>15, <1>16, <1>17
        DEF Next, LoaderRuns, Tool, Verify

\* Every record in RAM or on disk is well formed: slots are slots and no
\* attempt count exceeds the limit.
THEOREM TypeCorrect == Spec => []TypeOK
BY InitTypeOK, NextTypeOK, PTL DEF Spec

-----------------------------------------------------------------------------
(* The inductive invariant behind the safety properties. *)

\* Every record, on disk or in RAM, that is on trial names a real candidate.
TrialsSane == TrialSane(health) /\ \A c \in Copies : TrialSane(disk[c])

\* Before health_load the loader has no record; after it, a valid one.
HealthInRam ==
  /\ pc \in {"off", "init", "config", "health"} => health = Corrupt
  /\ pc \in {"prepare", "write", "verify", "load", "handoff", "kernel"}
       => Valid(health)

\* Persistence is only ever enabled on a disk whose layout is safe, and a
\* write is only ever under way when it is enabled.
PersistentSafe ==
  /\ persistent => LayoutSafe
  /\ pc \in {"write", "verify"} => persistent

\* Whenever the loader is between writes, the record in RAM is on the disk.
OnDisk ==
  pc \in {"prepare", "load", "handoff", "kernel"} /\ persistent
    => \E c \in Copies : disk[c] = health

\* From prepare_attempt on, the loader tries the slot the record selects.
SlotSelected ==
  pc \in {"write", "verify", "load", "handoff", "kernel"}
    => slot = health.selected_slot

SafeInv ==
  /\ TypeOK
  /\ CopyParity
  /\ BaseCopySurvives
  /\ TrialsSane
  /\ HealthInRam
  /\ PersistentSafe
  /\ OnDisk
  /\ SlotSelected

\* The loader's invariants say nothing of a machine that is off but that it
\* has no record.
LEMMA OffInv ==
  ASSUME pc \in {"off", "init"}, health = Corrupt, ~persistent
  PROVE  BaseCopySurvives /\ HealthInRam /\ PersistentSafe /\ OnDisk /\ SlotSelected
BY DEF BaseCopySurvives, HealthInRam, PersistentSafe, OnDisk, SlotSelected

\* The inductive invariant holds at first power-on.
LEMMA InitSafe == Init => SafeInv
<1> SUFFICES ASSUME Init PROVE SafeInv
  OBVIOUS
<1>1. TypeOK
  BY InitTypeOK
<1>2. CopyParity /\ TrialsSane
  BY CorruptTyped DEF Init, CopyParity, TrialsSane, Copies
<1>3. BaseCopySurvives /\ HealthInRam /\ PersistentSafe /\ OnDisk /\ SlotSelected
  BY OffInv DEF Init
<1> QED BY <1>1, <1>2, <1>3 DEF SafeInv

\* A record put in the sector its generation calls for, or a torn one, keeps
\* the parity and the sanity of the copies.
LEMMA StoreKeepsDisk ==
  ASSUME TypeOK, CopyParity, TrialsSane, NEW r \in HealthRecords, TrialSane(r),
         disk' = [disk EXCEPT ![CopyFor(r)] = r]
           \/ disk' = [disk EXCEPT ![CopyFor(r)] = Corrupt]
  PROVE  CopyParity' /\ \A c \in Copies : TrialSane(disk'[c])
<1>1. /\ CopyFor(r) \in Copies
      /\ CopyFor(r) = "A" => r.generation % 2 = 0
      /\ CopyFor(r) = "B" => r.generation % 2 = 1
  BY CopyForParity
<1>2. \A c \in Copies :
        \/ disk'[c] = disk[c]
        \/ disk'[c] = Corrupt
        \/ disk'[c] = r /\ c = CopyFor(r)
  BY <1>1 DEF TypeOK
<1>3. CopyParity'
  BY <1>1, <1>2, CorruptTyped DEF CopyParity, Copies
<1> QED BY <1>2, <1>3, CorruptTyped DEF TrialsSane

\* The record the tool or the loader starts from is sane.
LEMMA ToolStateSane ==
  ASSUME TypeOK, TrialsSane, NEW F \in SUBSET Copies
  PROVE  TrialSane(ToolState(F))
<1>1. Seen(F)["A"] \in {disk["A"], Corrupt} /\ Seen(F)["B"] \in {disk["B"], Corrupt}
  BY SeenTyped DEF Copies
<1>2. ToolState(F) \in {disk["A"], disk["B"], Corrupt, DefaultRecord}
  BY <1>1, ChooseIsCopy DEF ToolState
<1> QED BY <1>2, CorruptTyped, DefaultTyped DEF TrialsSane, Copies

\* The successor of a record that is on disk goes to the other sector, the one
\* exception being the default record of a fresh copy B.
LEMMA SuccessorHasBase ==
  ASSUME TypeOK, CopyParity, NEW r \in HealthRecords, NEW n \in HealthRecords,
         Valid(r), n.generation = r.generation + 1,
         \E c \in Copies : disk[c] = r,
         ~(CopyFor(n) = "B" /\ disk["B"] = DefaultRecord)
  PROVE  /\ Valid(disk[OtherCopy(CopyFor(n))])
         /\ disk[OtherCopy(CopyFor(n))].generation + 1 = n.generation
<1>1. CASE disk["A"] = r
  <2>1. r.generation % 2 = 0
    BY <1>1 DEF CopyParity
  <2>2. CopyFor(n) = "B"
    BY <2>1, NextParity
  <2> QED BY <1>1, <2>2 DEF OtherCopy
<1>2. CASE disk["B"] = r /\ r.generation % 2 = 1
  <2>1. CopyFor(n) = "A"
    BY <1>2, NextParity
  <2> QED BY <1>2, <2>1 DEF OtherCopy
<1>3. CASE disk["B"] = r /\ r = DefaultRecord
  <2>1. r.generation % 2 = 0
    BY <1>3 DEF DefaultRecord
  <2>2. CopyFor(n) = "B"
    BY <2>1, NextParity
  <2> QED BY <1>3, <2>2
<1> QED BY <1>1, <1>2, <1>3 DEF CopyParity, Copies

\* Every step of the loader and the tool preserves the inductive invariant.
LEMMA NextSafe == SafeInv /\ [Next]_vars => SafeInv'
<1> SUFFICES ASSUME SafeInv, [Next]_vars PROVE SafeInv'
  OBVIOUS
<1> USE DEF SafeInv
<1>0. TypeOK'
  BY NextTypeOK
<1>1. CASE PowerOn \/ LoadConfig \/ LoadConfigFails \/ CandidatesExhausted \/ LaunchFails
  <2>1. /\ UNCHANGED <<disk, health, persistent>>
        /\ pc' \in {"config", "health", "halted"}
        /\ pc' \in {"config", "health"} => health = Corrupt
    BY <1>1 DEF PowerOn, LoadConfig, LoadConfigFails, CandidatesExhausted,
                LaunchFails, ram, HealthInRam
  <2>2. CopyParity' /\ TrialsSane'
    BY <2>1 DEF CopyParity, TrialsSane
  <2>3. BaseCopySurvives' /\ HealthInRam' /\ PersistentSafe' /\ OnDisk' /\ SlotSelected'
    BY <2>1 DEF BaseCopySurvives, HealthInRam, PersistentSafe, OnDisk, SlotSelected
  <2> QED BY <1>0, <2>2, <2>3
<1>2. CASE LoadKernel \/ Launch
  <2>1. /\ UNCHANGED <<disk, health, persistent, slot>>
        /\ pc \in {"load", "handoff"}
        /\ pc' \in {"handoff", "kernel"}
    BY <1>2 DEF LoadKernel, Launch, ram
  <2>2. CopyParity' /\ TrialsSane'
    BY <2>1 DEF CopyParity, TrialsSane
  <2>3. BaseCopySurvives' /\ HealthInRam' /\ PersistentSafe' /\ OnDisk' /\ SlotSelected'
    BY <2>1 DEF BaseCopySurvives, HealthInRam, PersistentSafe, OnDisk, SlotSelected
  <2> QED BY <1>0, <2>2, <2>3
<1>3. ASSUME NEW F \in SUBSET Copies, HealthLoad(F)
      PROVE  SafeInv'
  <2>1. /\ UNCHANGED disk /\ pc' = "prepare" /\ LayoutSafe
        /\ health' = ToolState(F)
        /\ persistent' = (Valid(Seen(F)["A"]) \/ Valid(Seen(F)["B"]))
    BY <1>3 DEF HealthLoad, ToolState
  <2>2. CopyParity' /\ TrialsSane'
    BY <2>1, ToolStateSane DEF CopyParity, TrialsSane
  <2>3. Valid(health')
    BY <2>1, ChooseIsCopy DEF ToolState
  <2>4. OnDisk'
    <3>1. ASSUME persistent' PROVE \E c \in Copies : disk[c] = ToolState(F)
      <4>1. \E c \in Copies : ToolState(F) = Seen(F)[c] /\ Valid(Seen(F)[c])
        BY <2>1, <3>1, ChooseIsCopy DEF ToolState, Copies
      <4> QED BY <4>1, SeenTyped, CorruptTyped
    <3> QED BY <2>1, <3>1 DEF OnDisk
  <2>5. BaseCopySurvives' /\ HealthInRam' /\ PersistentSafe' /\ SlotSelected'
    BY <2>1, <2>3 DEF BaseCopySurvives, HealthInRam, PersistentSafe, SlotSelected
  <2> QED BY <1>0, <2>2, <2>4, <2>5
<1>4. CASE HealthVolatile
  <2>1. UNCHANGED disk /\ pc' = "prepare" /\ health' = DefaultRecord /\ ~persistent'
    BY <1>4 DEF HealthVolatile
  <2>2. CopyParity' /\ TrialsSane'
    BY <2>1, DefaultTyped DEF CopyParity, TrialsSane
  <2>3. BaseCopySurvives' /\ HealthInRam' /\ PersistentSafe' /\ OnDisk' /\ SlotSelected'
    BY <2>1, DefaultTyped
       DEF BaseCopySurvives, HealthInRam, PersistentSafe, OnDisk, SlotSelected
  <2> QED BY <1>0, <2>2, <2>3
<1>5. CASE Prepare
  <2>1. /\ UNCHANGED <<disk, persistent>> /\ pc = "prepare"
        /\ health' = PrepareAttempt(health)
        /\ slot' = health'.selected_slot
        /\ pc' = IF health'.generation # health.generation /\ persistent
                 THEN "write" ELSE "load"
    BY <1>5 DEF Prepare, AfterChange
  <2>2. health \in HealthRecords /\ health' \in HealthRecords
    BY <1>0 DEF TypeOK
  <2>3. /\ Valid(health') /\ TrialSane(health')
        /\ health'.generation # health.generation
             => health'.generation = health.generation + 1
        /\ health'.generation = health.generation => health' = health
    BY <2>1, <2>2, PrepareAttemptResult DEF TrialsSane, HealthInRam
  <2>4. CopyParity' /\ TrialsSane'
    BY <2>1, <2>3 DEF CopyParity, TrialsSane
  <2>5. BaseCopySurvives'
    <3> SUFFICES ASSUME pc' = "write",
                        ~(CopyFor(health') = "B" /\ disk["B"] = DefaultRecord)
                 PROVE  /\ Valid(disk[OtherCopy(CopyFor(health'))])
                        /\ disk[OtherCopy(CopyFor(health'))].generation + 1
                             = health'.generation
      BY <2>1 DEF BaseCopySurvives
    <3>1. persistent /\ health'.generation = health.generation + 1
      BY <2>1, <2>3
    <3>2. Valid(health) /\ \E c \in Copies : disk[c] = health
      BY <2>1, <3>1 DEF HealthInRam, OnDisk
    <3> QED BY <2>2, <3>1, <3>2, SuccessorHasBase
  <2>6. OnDisk'
    BY <2>1, <2>3 DEF OnDisk
  <2>7. HealthInRam' /\ PersistentSafe' /\ SlotSelected'
    BY <2>1, <2>3 DEF HealthInRam, PersistentSafe, SlotSelected
  <2> QED BY <1>0, <2>4, <2>5, <2>6, <2>7
<1>6. CASE Write \/ WriteRefused \/ WriteLost
  <2>1. /\ UNCHANGED <<health, slot>> /\ pc = "write"
        /\ \/ pc' = "verify" /\ UNCHANGED persistent
           \/ pc' = "load" /\ ~persistent'
        /\ \/ UNCHANGED disk
           \/ disk' = [disk EXCEPT ![CopyFor(health)] = health]
           \/ disk' = [disk EXCEPT ![CopyFor(health)] = Corrupt]
    BY <1>6 DEF Write, WriteRefused, WriteLost, ram
  <2>2. CopyParity' /\ TrialsSane'
    <3>1. CASE UNCHANGED disk
      BY <2>1, <3>1 DEF CopyParity, TrialsSane
    <3>2. CASE ~UNCHANGED disk
      BY <2>1, <3>2, StoreKeepsDisk DEF TrialsSane, TypeOK
    <3> QED BY <3>1, <3>2
  <2>3. PersistentSafe'
    <3>1. persistent /\ LayoutSafe
      BY <2>1 DEF PersistentSafe
    <3>2. CASE pc' = "verify" /\ UNCHANGED persistent
      BY <3>1, <3>2 DEF PersistentSafe
    <3>3. CASE pc' = "load" /\ ~persistent'
      BY <3>3 DEF PersistentSafe
    <3> QED BY <2>1, <3>2, <3>3
  <2>4. OnDisk'
    BY <2>1 DEF OnDisk
  <2>5. BaseCopySurvives' /\ HealthInRam' /\ SlotSelected'
    BY <2>1 DEF BaseCopySurvives, HealthInRam, SlotSelected
  <2> QED BY <1>0, <2>2, <2>3, <2>4, <2>5
<1>7. ASSUME NEW readable \in BOOLEAN, VerifyOf(readable)
      PROVE  SafeInv'
  <2>1. /\ UNCHANGED <<disk, health, slot>> /\ pc = "verify" /\ pc' = "load"
        /\ persistent' => disk[CopyFor(health)] = health /\ readable
    BY <1>7 DEF VerifyOf
  <2>2. CopyFor(health) \in Copies
    BY CopyForParity DEF TypeOK
  <2>3. CopyParity' /\ TrialsSane'
    BY <2>1 DEF CopyParity, TrialsSane
  <2>4. OnDisk'
    BY <2>1, <2>2 DEF OnDisk
  <2>5. PersistentSafe'
    BY <1>7, <2>1 DEF PersistentSafe
  <2>6. BaseCopySurvives' /\ HealthInRam' /\ SlotSelected'
    BY <2>1 DEF BaseCopySurvives, HealthInRam, SlotSelected
  <2> QED BY <1>0, <2>3, <2>4, <2>5, <2>6
<1>8. CASE Fallback
  <2>1. PICK s \in FallbackFrom(slot) :
          /\ health' = SelectFallback(health, s, FAILURE_KERNEL_FILE)
          /\ slot' = s
    BY <1>8 DEF Fallback
  <2>2. /\ UNCHANGED <<disk, persistent>> /\ pc = "load"
        /\ pc' = IF persistent THEN "write" ELSE "load"
    BY <1>8 DEF Fallback, AfterChange
  <2>3. s \in Slots /\ health \in HealthRecords
    BY DEF FallbackFrom, Slots, TypeOK
  <2>4. /\ health' \in HealthRecords /\ Valid(health') /\ TrialSane(health')
        /\ health'.generation = health.generation + 1
        /\ health'.selected_slot = s
    BY <2>1, <2>2, <2>3, SelectFallbackResult DEF HealthInRam
  <2>5. CopyParity' /\ TrialsSane'
    BY <2>2, <2>4 DEF CopyParity, TrialsSane
  <2>6. BaseCopySurvives'
    <3> SUFFICES ASSUME pc' = "write",
                        ~(CopyFor(health') = "B" /\ disk["B"] = DefaultRecord)
                 PROVE  /\ Valid(disk[OtherCopy(CopyFor(health'))])
                        /\ disk[OtherCopy(CopyFor(health'))].generation + 1
                             = health'.generation
      BY <2>2 DEF BaseCopySurvives
    <3>1. Valid(health) /\ \E c \in Copies : disk[c] = health
      BY <2>2 DEF HealthInRam, OnDisk
    <3> QED BY <2>3, <2>4, <3>1, SuccessorHasBase
  <2>7. HealthInRam' /\ PersistentSafe' /\ OnDisk' /\ SlotSelected'
    BY <2>1, <2>2, <2>4 DEF HealthInRam, PersistentSafe, OnDisk, SlotSelected
  <2> QED BY <1>0, <2>5, <2>6, <2>7
<1>9. CASE Reset \/ PowerLoss
  <2>1. /\ pc' = "off" /\ health' = Corrupt /\ ~persistent'
        /\ \/ UNCHANGED disk
           \/ disk' = [disk EXCEPT ![CopyFor(health)] = Corrupt]
    BY <1>9 DEF Reset, PowerLoss, Forget
  <2>2. CopyParity' /\ \A c \in Copies : TrialSane(disk'[c])
    <3>1. CASE UNCHANGED disk
      BY <3>1 DEF CopyParity, TrialsSane
    <3>2. CASE ~UNCHANGED disk
      BY <2>1, <3>2, StoreKeepsDisk DEF TrialsSane, TypeOK
    <3> QED BY <3>1, <3>2
  <2>3. TrialsSane'
    BY <2>1, <2>2, CorruptTyped DEF TrialsSane
  <2>4. BaseCopySurvives' /\ HealthInRam' /\ PersistentSafe' /\ OnDisk' /\ SlotSelected'
    BY <2>1 DEF BaseCopySurvives, HealthInRam, PersistentSafe, OnDisk, SlotSelected
  <2> QED BY <1>0, <2>2, <2>3, <2>4
<1>10. ASSUME Tool PROVE SafeInv'
  <2>1. pc \in {"off", "init"} /\ pc' \in {"off", "init"} /\ UNCHANGED ram
    BY <1>10 DEF Tool, ToolInit, ToolInitB, ToolGood, ToolPending, ToolAttempt, Command
  <2>2. CopyParity' /\ \A c \in Copies : TrialSane(disk'[c])
    <3>1. CASE ToolInit \/ ToolInitB
      <4>1. \/ UNCHANGED disk
            \/ \E c \in Copies : disk' = [disk EXCEPT ![c] = DefaultRecord]
            \/ \E c \in Copies : disk' = [disk EXCEPT ![c] = Corrupt]
        BY <3>1 DEF ToolInit, ToolInitB, ToolWrites, ToolTears, Copies
      <4>2. \A c \in Copies : disk'[c] \in {disk[c], DefaultRecord, Corrupt}
        BY <4>1 DEF TypeOK
      <4>3. DefaultRecord.generation % 2 = 0
        BY DEF DefaultRecord
      <4> QED BY <4>2, <4>3, DefaultTyped, CorruptTyped
              DEF CopyParity, TrialsSane, Copies
    <3>2. ASSUME NEW F \in SUBSET Copies, NEW s \in Slots, ToolGood(F, s)
          PROVE  CopyParity' /\ \A c \in Copies : TrialSane(disk'[c])
      BY <3>2, ToolStateTyped, MarkGoodResult, StoreKeepsDisk
         DEF ToolGood, ToolStores, ToolWrites, ToolTears
    <3>3. ASSUME NEW F \in SUBSET Copies, NEW s \in Slots, ToolPending(F, s)
          PROVE  CopyParity' /\ \A c \in Copies : TrialSane(disk'[c])
      BY <3>3, ToolStateTyped, BeginUpdateResult, StoreKeepsDisk
         DEF ToolPending, ToolStores, ToolWrites, ToolTears
    <3>4. ASSUME NEW F \in SUBSET Copies, ToolAttempt(F)
          PROVE  CopyParity' /\ \A c \in Copies : TrialSane(disk'[c])
      BY <3>4, ToolStateTyped, ToolStateSane, PrepareAttemptTyped,
         PrepareAttemptResult, StoreKeepsDisk
         DEF ToolAttempt, ToolStores, ToolWrites, ToolTears
    <3> QED BY <1>10, <3>1, <3>2, <3>3, <3>4 DEF Tool
  <2>3. TrialsSane'
    BY <2>1, <2>2 DEF TrialsSane, ram
  <2>4. BaseCopySurvives' /\ HealthInRam' /\ OnDisk' /\ SlotSelected'
    BY <2>1 DEF BaseCopySurvives, HealthInRam, OnDisk, SlotSelected, ram
  <2>5. PersistentSafe'
    BY <2>1 DEF PersistentSafe, ram
  <2> QED BY <1>0, <2>2, <2>3, <2>4, <2>5
<1>11. CASE UNCHANGED vars
  BY <1>0, <1>11 DEF vars, CopyParity, BaseCopySurvives, TrialsSane, HealthInRam,
                     PersistentSafe, OnDisk, SlotSelected
<1> QED BY <1>1, <1>2, <1>3, <1>4, <1>5, <1>6, <1>7, <1>8, <1>9, <1>10, <1>11
        DEF Next, LoaderRuns, Verify

-----------------------------------------------------------------------------
(* The theorems. *)

\* The inductive invariant holds in every reachable state.
LEMMA SafeInvariant == Spec => []SafeInv
BY InitSafe, NextSafe, PTL DEF Spec

\* The two copies keep to their parity, so that the newest is unambiguous.
THEOREM CopiesKeepParity == Spec => []CopyParity
<1>1. SafeInv => CopyParity
  BY DEF SafeInv
<1> QED BY <1>1, SafeInvariant, PTL

\* A write under way never has the record it is based on in the sector it
\* overwrites: a torn write costs one generation, whatever failed before it.
THEOREM TornWriteCostsOne == Spec => []BaseCopySurvives
<1>1. SafeInv => BaseCopySurvives
  BY DEF SafeInv
<1> QED BY <1>1, SafeInvariant, PTL

\* A kernel is started only from the slot that the record on disk selects.
THEOREM LaunchIsAccounted == Spec => []LaunchAccounted
<1>1. SafeInv => LaunchAccounted
  BY DEF SafeInv, OnDisk, SlotSelected, LaunchAccounted
<1> QED BY <1>1, SafeInvariant, PTL

\* The loader changes a sector only while a write is under way.
LEMMA LoaderWrites ==
  ASSUME [Next]_vars, pc \in LoaderSteps, disk' # disk
  PROVE  pc = "write"
BY DEF Next, LoaderRuns, Tool, PowerOn, LoadConfig, LoadConfigFails, HealthLoad,
       HealthVolatile, Prepare, Write, WriteRefused, WriteLost, Verify, VerifyOf,
       LoadKernel, Fallback, CandidatesExhausted, Launch, LaunchFails, Reset,
       PowerLoss, ToolInit, ToolInitB, ToolGood, ToolPending, ToolAttempt,
       Command, LoaderSteps, vars

\* The loader never writes to a disk that was not provisioned, and never where
\* the layout check failed.
THEOREM OnlyProvisionedWritten == Spec => WritesOnlyProvisioned
<1>1. SafeInv /\ [Next]_vars
        => ((pc \in LoaderSteps /\ disk' # disk)
              => (LayoutSafe /\ \E c \in Copies : Valid(disk[c])))
  <2> SUFFICES ASSUME SafeInv, [Next]_vars, pc \in LoaderSteps, disk' # disk
               PROVE  LayoutSafe /\ \E c \in Copies : Valid(disk[c])
    OBVIOUS
  <2>1. pc = "write"
    BY LoaderWrites
  <2>2. LayoutSafe
    BY <2>1 DEF SafeInv, PersistentSafe
  <2>3. OtherCopy(CopyFor(health)) \in Copies /\ "B" \in Copies
    BY DEF OtherCopy, Copies
  <2>4. Valid(disk[OtherCopy(CopyFor(health))]) \/ disk["B"] = DefaultRecord
    BY <2>1 DEF SafeInv, BaseCopySurvives
  <2> QED BY <2>2, <2>3, <2>4, DefaultTyped
<1>2. SafeInv /\ [Next]_vars
        => [(pc \in LoaderSteps /\ disk' # disk)
              => (LayoutSafe /\ \E c \in Copies : Valid(disk[c]))]_vars
  BY <1>1
<1> QED BY <1>2, SafeInvariant, PTL DEF Spec, WritesOnlyProvisioned

\* No sequence of boots, faults and commands lets the loader confirm a trial:
\* it only ever abandons one, for another slot and with a failure recorded.
THEOREM LoaderNeverConfirms == Spec => TrialNeverSelfConfirms
<1>1. SafeInv /\ [Next]_vars
        => (LoaderEndsTrial =>
              /\ health'.selected_slot # health.selected_slot
              /\ health'.last_good_slot = health.last_good_slot
              /\ health'.last_failure_stage # FAILURE_NONE)
  <2> SUFFICES ASSUME SafeInv, [Next]_vars, LoaderEndsTrial
               PROVE  /\ health'.selected_slot # health.selected_slot
                      /\ health'.last_good_slot = health.last_good_slot
                      /\ health'.last_failure_stage # FAILURE_NONE
    OBVIOUS
  <2>0. health \in HealthRecords /\ TrialSane(health)
    BY DEF SafeInv, TypeOK, TrialsSane
  <2>1. CASE Prepare
    BY <2>0, <2>1, PrepareAttemptResult DEF Prepare, LoaderEndsTrial
  <2>2. CASE Fallback
    <3>1. PICK s \in FallbackFrom(slot) :
            health' = SelectFallback(health, s, FAILURE_KERNEL_FILE)
      BY <2>2 DEF Fallback
    <3>2. s \in Slots /\ s # slot
      BY DEF FallbackFrom, Slots, CURRENT, PREVIOUS, RECOVERY
    <3>3. slot = health.selected_slot
      BY <2>2 DEF Fallback, SafeInv, SlotSelected
    <3> QED BY <2>0, <3>1, <3>2, <3>3, SelectFallbackResult
  <2>3. pc # "health"
    BY CorruptTyped DEF LoaderEndsTrial, SafeInv, HealthInRam
  <2>4. Prepare \/ Fallback
    <3>1. health' # health
      BY DEF LoaderEndsTrial
    <3> QED BY <2>3, <3>1
            DEF Next, LoaderRuns, Tool, PowerOn, LoadConfig, LoadConfigFails,
                HealthLoad, HealthVolatile, Write, WriteRefused, WriteLost,
                Verify, VerifyOf, LoadKernel, CandidatesExhausted, Launch,
                LaunchFails, Reset, PowerLoss, Forget, ToolInit, ToolInitB,
                ToolGood, ToolPending, ToolAttempt, LoaderEndsTrial, ram, vars
  <2> QED BY <2>1, <2>2, <2>4
<1>2. SafeInv /\ [Next]_vars
        => [LoaderEndsTrial =>
              /\ health'.selected_slot # health.selected_slot
              /\ health'.last_good_slot = health.last_good_slot
              /\ health'.last_failure_stage # FAILURE_NONE]_vars
  BY <1>1
<1> QED BY <1>2, SafeInvariant, PTL DEF Spec, TrialNeverSelfConfirms

-----------------------------------------------------------------------------
(* The number of trial starts. *)

\* A copy that is not the newest may lag one start behind: the boot that wrote
\* the newest is not counted in it.
Slack(D, c) ==
  IF Valid(D[OtherCopy(c)]) /\ D[OtherCopy(c)].generation > D[c].generation THEN 1 ELSE 0

\* n starts are accounted for by copy c of the sectors D and by f faults.
Charged(D, f, c, n) ==
  Valid(D[c]) /\ D[c].pending_good => n <= D[c].attempt_count + f + Slack(D, c)

\* Every start on trial is counted in every copy that may be booted from, or was
\* paid for by a fault; from prepare_attempt to the start, so is the one that
\* is coming.  Between its two writes init may have left an older copy as the
\* newest; it completes, and ends every trial, or its failure pays for that.
StartsCounted ==
  /\ pc = "init" => /\ disk["A"] = DefaultRecord
                    /\ \A c \in Copies : Charged(disk, faults + 1, c, launched)
  /\ pc # "init" => \A c \in Copies : Charged(disk, faults, c, launched)
  /\ pc = "prepare" /\ health.pending_good
       => persistent /\ launched <= health.attempt_count + faults
  /\ pc \in {"write", "verify", "load", "handoff"} /\ health.pending_good
       => launched + 1 <= health.attempt_count + faults
  /\ pc = "write" /\ health.pending_good
       => LET base == disk[OtherCopy(CopyFor(health))]
          IN  /\ base.generation + 1 = health.generation
              /\ Valid(base) /\ base.pending_good => launched <= base.attempt_count + faults
  /\ pc \in {"verify", "load", "handoff"} /\ health.pending_good
       => \A c \in Copies : Charged(disk, faults, c, launched + 1)

TrialInv == SafeInv /\ TrialsBounded /\ StartsCounted

\* The sectors have two names.
LEMMA OtherCopyIsOther ==
  ASSUME NEW c \in Copies
  PROVE  /\ OtherCopy(c) \in Copies /\ OtherCopy(c) # c
         /\ OtherCopy(OtherCopy(c)) = c
         /\ \A d \in Copies : d = c \/ d = OtherCopy(c)
BY DEF OtherCopy, Copies

\* More faults account for as many starts and more.
LEMMA ChargedLater ==
  ASSUME TypeOK, NEW f \in Nat, NEW g \in Nat, f <= g, NEW n \in Nat, NEW m \in Nat,
         m + f <= n + g, NEW c \in Copies, Charged(disk, f, c, n)
  PROVE  Charged(disk, g, c, m)
<1>1. /\ disk[c].attempt_count \in Nat /\ Slack(disk, c) \in Nat
  BY MaxAttemptsAssumption DEF TypeOK, HealthRecords, Slack
<1> HIDE DEF Slack
<1> QED BY <1>1 DEF Charged

\* A sector that is written keeps the starts accounted for, if the record
\* written accounts for them and the other sector, now perhaps the older one,
\* does.
LEMMA StoreCharged ==
  ASSUME TypeOK, NEW c \in Copies, NEW r \in HealthRecords, NEW D,
         D = [disk EXCEPT ![c] = r], NEW f \in Nat, NEW n \in Nat,
         Valid(r) /\ r.pending_good => n <= r.attempt_count + f,
         LET o == disk[OtherCopy(c)]
         IN  Valid(o) /\ o.pending_good =>
               n <= o.attempt_count + f
                    + (IF Valid(r) /\ r.generation > o.generation THEN 1 ELSE 0)
  PROVE  \A d \in Copies : Charged(D, f, d, n)
<1> DEFINE o == disk[OtherCopy(c)]
<1>1. D[c] = r /\ D[OtherCopy(c)] = o
  BY OtherCopyIsOther DEF TypeOK
<1>2. r.attempt_count \in Nat /\ Slack(D, c) \in Nat
  BY MaxAttemptsAssumption DEF HealthRecords, Slack
<1>3. Slack(D, OtherCopy(c)) = IF Valid(r) /\ r.generation > o.generation THEN 1 ELSE 0
  BY <1>1, OtherCopyIsOther DEF Slack
<1>4. Charged(D, f, OtherCopy(c), n)
  BY <1>1, <1>3 DEF Charged
<1>5. Charged(D, f, c, n)
  BY <1>1, <1>2 DEF Charged
<1> QED BY <1>4, <1>5, OtherCopyIsOther

\* A torn sector accounts for nothing and leaves the other one as the newest.
LEMMA TornCharged ==
  ASSUME TypeOK, NEW c \in Copies, NEW D, D = [disk EXCEPT ![c] = Corrupt],
         NEW f \in Nat, NEW n \in Nat,
         LET o == disk[OtherCopy(c)]
         IN  Valid(o) /\ o.pending_good => n <= o.attempt_count + f
  PROVE  \A d \in Copies : Charged(D, f, d, n)
<1> DEFINE o == disk[OtherCopy(c)]
<1>1. o.attempt_count \in Nat
  BY OtherCopyIsOther, MaxAttemptsAssumption DEF TypeOK, HealthRecords
<1>2. Corrupt \in HealthRecords /\ ~Valid(Corrupt)
  BY CorruptTyped
<1>3. Valid(o) /\ o.pending_good =>
        n <= o.attempt_count + f
             + (IF Valid(Corrupt) /\ Corrupt.generation > o.generation THEN 1 ELSE 0)
  BY <1>1, <1>2
<1> QED BY <1>2, <1>3, StoreCharged

\* Every failed read is at least one fault.
LEMMA FailedReadsCounted ==
  ASSUME NEW F \in SUBSET Copies
  PROVE  Cardinality(F) \in Nat /\ (F # {} => Cardinality(F) >= 1)
<1>1. IsFiniteSet({"A"}) /\ IsFiniteSet({"A"} \cup {"B"})
  BY FS_Singleton, FS_AddElement
<1>2. Copies = {"A"} \cup {"B"}
  BY DEF Copies
<1>3. IsFiniteSet(F)
  BY <1>1, <1>2, FS_Subset
<1>4. Cardinality(F) \in Nat /\ (Cardinality(F) = 0 <=> F = {})
  BY <1>3, FS_CardinalityType, FS_EmptySet
<1> QED BY <1>4

\* The record a reader starts from accounts for the starts: it is the newest
\* copy, or the newest could not be read, which is a fault.
LEMMA ChosenCharged ==
  ASSUME TypeOK, NEW F \in SUBSET Copies, NEW n \in Nat,
         \A c \in Copies : Charged(disk, faults, c, n), ToolState(F).pending_good
  PROVE  n <= ToolState(F).attempt_count + faults + Cardinality(F)
<1> DEFINE a == Seen(F)["A"]
           b == Seen(F)["B"]
<1>1. ToolState(F) = Choose(a, b) /\ a \in HealthRecords /\ b \in HealthRecords
  BY SeenTyped DEF ToolState, Copies
<1>2. PICK c \in Copies : /\ ToolState(F) = Seen(F)[c] /\ Valid(Seen(F)[c])
                          /\ \/ ~Valid(Seen(F)[OtherCopy(c)])
                             \/ ~(Seen(F)[OtherCopy(c)].generation
                                    > Seen(F)[c].generation)
  <2>1. "A" \in Copies /\ "B" \in Copies /\ OtherCopy("A") = "B" /\ OtherCopy("B") = "A"
    BY DEF Copies, OtherCopy
  <2>2. a.generation \in Nat /\ b.generation \in Nat
    BY <1>1 DEF HealthRecords
  <2>3. CASE ~Valid(a) /\ ~Valid(b)
    BY <1>1, <2>3 DEF Choose, DefaultRecord
  <2>4. CASE Valid(a) /\ (~Valid(b) \/ a.generation >= b.generation)
    <3>1. ToolState(F) = a
      BY <1>1, <2>4 DEF Choose
    <3> QED BY <2>1, <2>2, <2>4, <3>1
  <2>5. CASE ~Valid(a) /\ Valid(b)
    <3>1. ToolState(F) = b
      BY <1>1, <2>5 DEF Choose
    <3> QED BY <2>1, <2>5, <3>1
  <2>6. CASE Valid(a) /\ Valid(b) /\ ~(a.generation >= b.generation)
    <3>1. ToolState(F) = b
      BY <1>1, <2>6 DEF Choose
    <3> QED BY <2>1, <2>2, <2>6, <3>1
  <2> QED BY <2>3, <2>4, <2>5, <2>6
<1>3. c \notin F /\ Seen(F)[c] = disk[c]
  BY <1>2, CorruptTyped DEF Seen
<1>4. OtherCopy(c) \in Copies
  BY OtherCopyIsOther
<1>5. Cardinality(F) \in Nat /\ (F # {} => Cardinality(F) >= 1)
  BY FailedReadsCounted
<1>6. Slack(disk, c) <= Cardinality(F) /\ Slack(disk, c) \in Nat
  <2>1. CASE OtherCopy(c) \in F
    BY <1>5, <2>1 DEF Slack
  <2>2. CASE OtherCopy(c) \notin F
    <3>1. Seen(F)[OtherCopy(c)] = disk[OtherCopy(c)]
      BY <1>4, <2>2 DEF Seen
    <3> QED BY <1>2, <1>3, <1>5, <3>1 DEF Slack
  <2> QED BY <2>1, <2>2
<1>7. disk[c].attempt_count \in Nat /\ faults \in Nat
  BY MaxAttemptsAssumption, BiosHealthAssumption DEF TypeOK, HealthRecords
<1>8. n <= disk[c].attempt_count + faults + Slack(disk, c)
  BY <1>2, <1>3 DEF Charged
<1> QED BY <1>2, <1>3, <1>5, <1>6, <1>7, <1>8

\* Over the sector the next record goes to: the copy it was computed from stays
\* and becomes the older one.
LEMMA OverwriteCharged ==
  ASSUME SafeInv, StartsCounted, pc = "write",
         NEW D, D = [disk EXCEPT ![CopyFor(health)] = health]
  PROVE  /\ \A c \in Copies : Charged(D, faults, c, launched)
         /\ health.pending_good => \A c \in Copies : Charged(D, faults, c, launched + 1)
<1> DEFINE c == CopyFor(health)
           o == disk[OtherCopy(c)]
<1>1. /\ TypeOK /\ BaseCopySurvives /\ health \in HealthRecords /\ Valid(health)
      /\ faults \in Nat /\ launched \in Nat /\ launched + 1 \in Nat
  BY BiosHealthAssumption DEF SafeInv, TypeOK, HealthInRam
<1>2. c \in Copies /\ OtherCopy(c) \in Copies
  BY <1>1, CopyForParity, OtherCopyIsOther
<1>3. /\ o \in HealthRecords /\ o.attempt_count \in Nat /\ o.generation \in Nat
      /\ health.generation \in Nat /\ health.attempt_count \in Nat
  BY <1>1, <1>2, MaxAttemptsAssumption DEF TypeOK, HealthRecords
<1>4. Slack(disk, OtherCopy(c)) \in {0, 1}
  BY DEF Slack
<1>5. Valid(o) /\ o.pending_good =>
        launched <= o.attempt_count + faults + Slack(disk, OtherCopy(c))
  BY <1>2 DEF Charged, StartsCounted
<1>6. CASE health.pending_good
  <2>1. health.generation > o.generation
    BY <1>3, <1>6 DEF StartsCounted
  <2>2. launched + 1 <= health.attempt_count + faults
    BY <1>6 DEF StartsCounted
  <2>3. Valid(o) /\ o.pending_good => launched <= o.attempt_count + faults
    BY <1>6 DEF StartsCounted
  <2>4. Valid(o) /\ o.pending_good => launched + 1 <= o.attempt_count + faults + 1
    BY <1>1, <1>3, <2>3
  <2>5. \A d \in Copies : Charged(D, faults, d, launched + 1)
    BY <1>1, <1>2, <2>1, <2>2, <2>4, StoreCharged
  <2>6. Valid(o) /\ o.pending_good => launched <= o.attempt_count + faults + 1
    BY <1>1, <1>3, <2>3
  <2>7. launched <= health.attempt_count + faults
    BY <1>1, <1>3, <2>2
  <2>8. \A d \in Copies : Charged(D, faults, d, launched)
    BY <1>1, <1>2, <2>1, <2>6, <2>7, StoreCharged
  <2> QED BY <2>5, <2>8
<1>7. CASE ~health.pending_good
  <2>1. Valid(o) /\ o.pending_good =>
          launched <= o.attempt_count + faults
                      + (IF Valid(health) /\ health.generation > o.generation THEN 1 ELSE 0)
    <3>1. CASE ~(c = "B" /\ disk["B"] = DefaultRecord)
      <4>1. health.generation > o.generation
        BY <1>1, <1>3, <3>1 DEF BaseCopySurvives
      <4> QED BY <1>1, <1>3, <1>4, <1>5, <4>1
    <3>2. CASE c = "B" /\ disk["B"] = DefaultRecord
      <4>1. OtherCopy(OtherCopy(c)) = "B"
        BY <1>2, <3>2, OtherCopyIsOther
      <4>2. Slack(disk, OtherCopy(c)) = 0
        BY <1>3, <3>2, <4>1 DEF Slack, DefaultRecord
      <4> QED BY <1>1, <1>3, <1>5, <4>2
    <3> QED BY <3>1, <3>2
  <2> QED BY <1>1, <1>2, <1>7, <2>1, StoreCharged
<1> QED BY <1>6, <1>7

\* A sector is torn at the price of a fault, which pays for the start that the
\* other sector may not have counted.
LEMMA TornPaid ==
  ASSUME TypeOK, NEW c \in Copies, NEW D, D = [disk EXCEPT ![c] = Corrupt],
         NEW f \in Nat, NEW g \in Nat, f + 1 <= g, NEW n \in Nat,
         \A d \in Copies : Charged(disk, f, d, n)
  PROVE  \A d \in Copies : Charged(D, g, d, n)
<1> DEFINE o == disk[OtherCopy(c)]
<1>1. OtherCopy(c) \in Copies
  BY OtherCopyIsOther
<1>2. o.attempt_count \in Nat
  BY <1>1, MaxAttemptsAssumption DEF TypeOK, HealthRecords
<1>3. Slack(disk, OtherCopy(c)) \in {0, 1}
  BY DEF Slack
<1>4. Valid(o) /\ o.pending_good => n <= o.attempt_count + f + Slack(disk, OtherCopy(c))
  BY <1>1 DEF Charged
<1>5. Valid(o) /\ o.pending_good => n <= o.attempt_count + g
  BY <1>2, <1>3, <1>4
<1> QED BY <1>5, TornCharged

\* Before the first start of a trial there is nothing to account for.
LEMMA NoneCharged ==
  ASSUME NEW D \in [Copies -> HealthRecords], NEW f \in Nat, NEW c \in Copies
  PROVE  Charged(D, f, c, 0)
<1>1. D[c].attempt_count \in Nat /\ Slack(D, c) \in Nat
  BY MaxAttemptsAssumption DEF HealthRecords, Slack
<1> HIDE DEF Slack
<1> QED BY <1>1 DEF Charged

\* Where the record a reader starts from comes from.
LEMMA StateOrigin ==
  ASSUME TypeOK, NEW F \in SUBSET Copies
  PROVE  \/ \E c \in Copies : disk[c] = ToolState(F) /\ Valid(disk[c])
         \/ /\ ToolState(F) = DefaultRecord
            /\ \A c \in Copies : c \in F \/ ~Valid(disk[c])
<1>1. CASE Valid(Seen(F)["A"]) \/ Valid(Seen(F)["B"])
  <2>1. \E c \in Copies : ToolState(F) = Seen(F)[c] /\ Valid(Seen(F)[c])
    BY <1>1, ChooseIsCopy DEF ToolState, Copies
  <2> QED BY <2>1, SeenTyped, CorruptTyped
<1>2. CASE ~Valid(Seen(F)["A"]) /\ ~Valid(Seen(F)["B"])
  <2>1. ToolState(F) = DefaultRecord
    BY <1>2 DEF ToolState, Choose
  <2>2. \A c \in Copies : c \in F \/ ~Valid(disk[c])
    BY <1>2 DEF Seen, Copies
  <2> QED BY <2>1, <2>2
<1> QED BY <1>1, <1>2

\* What a reader starts from lies in the sector its generation calls for, unless
\* it is the default record.
LEMMA StateInItsSector ==
  ASSUME TypeOK, CopyParity, NEW F \in SUBSET Copies,
         ToolState(F) # DefaultRecord
  PROVE  disk[CopyFor(ToolState(F))] = ToolState(F)
<1> DEFINE t == ToolState(F)
<1>1. PICK c \in Copies : disk[c] = t /\ Valid(disk[c])
  BY StateOrigin
<1>2. CASE c = "A"
  BY <1>1, <1>2 DEF CopyFor, CopyParity
<1>3. CASE c = "B"
  BY <1>1, <1>3 DEF CopyFor, CopyParity
<1> QED BY <1>2, <1>3 DEF Copies

\* A record that is on trial lies in the sector its generation calls for, so
\* that its successor goes to the other one.
LEMMA TrialInItsSector ==
  ASSUME TypeOK, CopyParity, NEW r \in HealthRecords, NEW n \in HealthRecords,
         Valid(r), r.pending_good, \E c \in Copies : disk[c] = r,
         n.generation = r.generation + 1
  PROVE  disk[OtherCopy(CopyFor(n))] = r
<1>0. r # DefaultRecord
  BY DEF DefaultRecord
<1>1. CASE disk["A"] = r
  <2>1. CopyFor(n) = "B"
    BY <1>1, NextParity DEF CopyParity
  <2> QED BY <1>1, <2>1 DEF OtherCopy
<1>2. CASE disk["B"] = r
  <2>1. CopyFor(n) = "A"
    BY <1>0, <1>2, NextParity DEF CopyParity
  <2> QED BY <1>2, <2>1 DEF OtherCopy
<1> QED BY <1>1, <1>2 DEF Copies

\* josh-healthctl attempt counts the start it announces like a boot does; when
\* nothing is on trial it rewrites what it read, or puts the default record in
\* place of copies it could not read, and those reads were faults.
LEMMA AttemptCharged ==
  ASSUME SafeInv, NEW F \in SUBSET Copies,
         \A c \in Copies : Charged(disk, faults, c, launched),
         NEW D, D = [disk EXCEPT ![CopyFor(PrepareAttempt(ToolState(F)))]
                       = PrepareAttempt(ToolState(F))]
  PROVE  \A c \in Copies : Charged(D, faults + Cardinality(F), c, launched)
<1> DEFINE t == ToolState(F)
           r == PrepareAttempt(ToolState(F))
           g == faults + Cardinality(F)
           o == disk[OtherCopy(CopyFor(r))]
<1>1. /\ TypeOK /\ CopyParity /\ faults \in Nat /\ launched \in Nat
      /\ Cardinality(F) \in Nat /\ g \in Nat /\ faults <= g
  <2>1. TypeOK /\ CopyParity /\ faults \in Nat /\ launched \in Nat
    BY BiosHealthAssumption DEF SafeInv, TypeOK
  <2> QED BY <2>1, FailedReadsTyped
<1>2. t \in HealthRecords /\ r \in HealthRecords /\ TrialSane(t) /\ Valid(t)
  BY <1>1, ToolStateTyped, PrepareAttemptTyped, ToolStateSane, ChooseIsCopy
     DEF SafeInv, ToolState
<1>3. /\ CopyFor(r) \in Copies /\ OtherCopy(CopyFor(r)) \in Copies
  BY <1>2, CopyForParity, OtherCopyIsOther
<1>4. /\ o \in HealthRecords /\ o.attempt_count \in Nat /\ o.generation \in Nat
      /\ r.attempt_count \in Nat /\ t.attempt_count \in Nat
  BY <1>1, <1>2, <1>3, MaxAttemptsAssumption DEF TypeOK, HealthRecords
<1>5. r.pending_good => launched <= r.attempt_count + g
  <2> SUFFICES ASSUME r.pending_good PROVE launched <= r.attempt_count + g
    OBVIOUS
  <2>1. t.pending_good /\ r.attempt_count = t.attempt_count + 1
    BY <1>2, AttemptCounted
  <2>2. launched <= t.attempt_count + faults + Cardinality(F)
    BY <1>1, <2>1, ChosenCharged
  <2> QED BY <1>1, <1>4, <2>1, <2>2
<1>6. CASE t.pending_good
  <2>1. r.generation = t.generation + 1
    BY <1>2, <1>6, PrepareAttemptResult, AttemptStarted
  <2>2. o = t
    <3>1. t # DefaultRecord
      BY <1>6 DEF DefaultRecord
    <3>2. \E c \in Copies : disk[c] = t
      BY <1>1, <3>1, StateOrigin
    <3> QED BY <1>1, <1>2, <1>6, <2>1, <3>2, TrialInItsSector
  <2>3. launched <= o.attempt_count + g
    <3>1. launched <= t.attempt_count + faults + Cardinality(F)
      BY <1>1, <1>6, ChosenCharged
    <3> QED BY <1>1, <1>4, <2>2, <3>1
  <2>4. launched <= o.attempt_count + g
                    + (IF Valid(r) /\ r.generation > o.generation THEN 1 ELSE 0)
    BY <1>1, <1>4, <2>3
  <2> QED BY <1>1, <1>2, <1>3, <1>5, <2>4, StoreCharged
<1>7. CASE ~t.pending_good
  <2>0. r = t
    BY <1>7 DEF PrepareAttempt
  <2>1. CASE disk[CopyFor(t)] = t
    <3>1. D = disk
      BY <1>1, <1>3, <2>0, <2>1 DEF TypeOK
    <3> QED BY <1>1, <3>1, ChargedLater
  <2>2. CASE disk[CopyFor(t)] # t
    <3>1. t = DefaultRecord /\ CopyFor(t) = "A"
      <4>1. t = DefaultRecord
        BY <1>1, <2>2, StateInItsSector
      <4> QED BY <4>1 DEF CopyFor, DefaultRecord
    <3>2. o = disk["B"] /\ "B" \in Copies
      BY <2>0, <3>1 DEF OtherCopy, Copies
    <3>3. Valid(o) /\ o.pending_good => "B" \in F
      <4>1. o # DefaultRecord \/ ~o.pending_good
        BY DEF DefaultRecord
      <4>2. disk["A"] # t
        BY <2>2, <3>1
      <4> QED BY <1>1, <3>1, <3>2, <4>1, <4>2, StateOrigin DEF Copies
    <3>4. "B" \in F => Cardinality(F) >= 1
      BY FailedReadsCounted
    <3>5. Valid(o) /\ o.pending_good =>
            launched <= o.attempt_count + faults + Slack(disk, "B")
      BY <3>2 DEF Charged
    <3>6. Slack(disk, "B") \in {0, 1}
      BY DEF Slack
    <3>7. Valid(o) /\ o.pending_good =>
            launched <= o.attempt_count + g
                        + (IF Valid(r) /\ r.generation > o.generation THEN 1 ELSE 0)
      BY <1>1, <1>4, <3>3, <3>4, <3>5, <3>6
    <3> QED BY <1>1, <1>2, <1>3, <1>5, <3>7, StoreCharged
  <2> QED BY <2>1, <2>2
<1> QED BY <1>6, <1>7

\* No start is within every bound.
LEMMA SumIsNatural ==
  ASSUME NEW m \in Nat, NEW f \in Nat
  PROVE  0 <= m + f
OBVIOUS

\* A bound that grows leaves what it bounds bounded.
LEMMA BoundGrows ==
  ASSUME NEW k \in Nat, NEW l \in Nat, NEW m \in Nat, NEW f \in Nat, NEW g \in Nat,
         f <= g
  PROVE  /\ l + f <= l + g
         /\ m <= l /\ l <= k + f => m <= k + g
OBVIOUS

\* Sectors and starts are left alone, no record on trial is in RAM, and the
\* faults are no fewer: the starts stay accounted for.
LEMMA IdleCharged ==
  ASSUME TypeOK, TypeOK', StartsCounted, pc # "init", pc' # "init",
         UNCHANGED <<disk, launched>>, faults <= faults',
         pc' \in {"prepare", "write", "verify", "load", "handoff"} => ~health'.pending_good
  PROVE  StartsCounted'
<1>1. /\ faults \in Nat /\ faults' \in Nat /\ launched \in Nat
  BY BiosHealthAssumption DEF TypeOK
<1>m. launched + faults <= launched + faults'
  BY <1>1, BoundGrows
<1>2. \A c \in Copies : Charged(disk, faults, c, launched)
  BY DEF StartsCounted
<1>3. \A c \in Copies : Charged(disk, faults', c, launched)
  BY <1>1, <1>m, <1>2, ChargedLater
<1> QED BY <1>3 DEF StartsCounted

\* Every step keeps the starts accounted for.
LEMMA NextTrialInv == TrialInv /\ [Next]_vars => TrialInv'
<1> SUFFICES ASSUME TrialInv, [Next]_vars PROVE TrialInv'
  OBVIOUS
<1>0. /\ SafeInv /\ TypeOK /\ TrialsBounded /\ StartsCounted /\ SafeInv' /\ TypeOK'
  BY NextSafe DEF TrialInv, SafeInv
<1>t. /\ faults \in Nat /\ faults' \in Nat /\ launched \in Nat /\ launched' \in Nat
      /\ MaxAttempts \in Nat
  BY <1>0, BiosHealthAssumption, MaxAttemptsAssumption DEF TypeOK
<1>h. /\ health \in HealthRecords /\ health.attempt_count \in 0 .. MaxAttempts
      /\ health.generation \in Nat /\ CopyFor(health) \in Copies
  BY <1>0, CopyForParity DEF TypeOK, HealthRecords
<1>b. ASSUME launched' <= launched, faults <= faults' PROVE TrialsBounded'
  BY <1>0, <1>t, <1>b, BoundGrows DEF TrialsBounded
<1>1. CASE PowerOn \/ LoadConfig \/ LoadConfigFails \/ CandidatesExhausted
           \/ LaunchFails \/ Reset
  <2>1. /\ UNCHANGED <<disk, launched, faults>> /\ pc # "init"
        /\ pc' \in {"off", "config", "health", "halted"}
    BY <1>1 DEF PowerOn, LoadConfig, LoadConfigFails, CandidatesExhausted,
                LaunchFails, Reset, Forget
  <2>2. StartsCounted'
    BY <1>0, <1>t, <2>1, IdleCharged
  <2> QED BY <1>0, <1>t, <1>b, <2>1, <2>2 DEF TrialInv
<1>2. ASSUME NEW F \in SUBSET Copies, HealthLoad(F) PROVE TrialInv'
  <2>1. /\ UNCHANGED <<disk, launched>> /\ pc = "health" /\ pc' = "prepare"
        /\ faults' = faults + Cardinality(F) /\ Cardinality(F) \in Nat
        /\ health' = ToolState(F)
        /\ persistent' = (Valid(Seen(F)["A"]) \/ Valid(Seen(F)["B"]))
    BY <1>2, FailedReadsTyped DEF HealthLoad, Fault, ToolState
  <2>2. \A c \in Copies : Charged(disk, faults, c, launched)
    BY <1>0, <2>1 DEF StartsCounted
  <2>3. faults <= faults' /\ launched + faults <= launched + faults'
    BY <1>t, <2>1
  <2>4. \A c \in Copies : Charged(disk, faults', c, launched)
    BY <1>0, <1>t, <2>2, <2>3, ChargedLater
  <2>5. health'.pending_good => persistent' /\ launched <= health'.attempt_count + faults'
    <3> SUFFICES ASSUME health'.pending_good
                 PROVE  persistent' /\ launched <= health'.attempt_count + faults'
      OBVIOUS
    <3>1. launched <= ToolState(F).attempt_count + faults + Cardinality(F)
      BY <1>0, <1>t, <2>1, <2>2, ChosenCharged
    <3>2. ToolState(F).attempt_count \in Nat
      BY <1>0, ToolStateTyped, MaxAttemptsAssumption DEF HealthRecords
    <3>3. persistent'
      BY <2>1 DEF ToolState, Choose, DefaultRecord
    <3> QED BY <1>t, <2>1, <3>1, <3>2, <3>3
  <2>6. StartsCounted'
    BY <2>1, <2>4, <2>5 DEF StartsCounted
  <2> QED BY <1>0, <1>t, <1>b, <2>1, <2>3, <2>6 DEF TrialInv
<1>3. CASE HealthVolatile
  <2>1. /\ UNCHANGED <<disk, launched>> /\ pc = "health" /\ pc' = "prepare"
        /\ ~health'.pending_good
    BY <1>3 DEF HealthVolatile, DefaultRecord
  <2>2. faults <= faults'
    BY <1>3, <1>t DEF HealthVolatile, Fault, NoFault
  <2>3. StartsCounted'
    BY <1>0, <2>1, <2>2, IdleCharged
  <2> QED BY <1>0, <1>t, <1>b, <2>1, <2>2, <2>3 DEF TrialInv
<1>4. CASE Prepare
  <2>1. /\ UNCHANGED <<disk, launched, faults, persistent>> /\ pc = "prepare"
        /\ health' = PrepareAttempt(health) /\ health' \in HealthRecords
        /\ pc' = AfterChange(health'.generation # health.generation)
        /\ pc' \in {"write", "load"}
    BY <1>0, <1>4 DEF Prepare, TypeOK, AfterChange
  <2>2. CASE ~health'.pending_good
    <3>1. StartsCounted'
      BY <1>0, <1>t, <2>1, <2>2, IdleCharged
    <3> QED BY <1>0, <1>t, <1>b, <2>1, <3>1 DEF TrialInv
  <2>3. CASE health'.pending_good
    <3>1. /\ health.pending_good /\ health'.attempt_count = health.attempt_count + 1
          /\ health'.generation = health.generation + 1
          /\ health'.generation # health.generation
      BY <1>h, <2>1, <2>3, AttemptCounted, AttemptStarted
    <3>2. persistent /\ launched <= health.attempt_count + faults
      BY <1>0, <2>1, <3>1 DEF StartsCounted
    <3>3. pc' = "write"
      BY <2>1, <3>1, <3>2 DEF AfterChange
    <3>4. launched + 1 <= health'.attempt_count + faults
      BY <1>t, <1>h, <3>1, <3>2
    <3>5. disk[OtherCopy(CopyFor(health'))] = health
      <4>1. Valid(health) /\ \E c \in Copies : disk[c] = health
        BY <1>0, <2>1, <3>2 DEF SafeInv, HealthInRam, OnDisk
      <4> QED BY <1>0, <1>h, <2>1, <3>1, <4>1, TrialInItsSector DEF SafeInv
    <3>6. \A c \in Copies : Charged(disk, faults, c, launched)
      BY <1>0, <2>1 DEF StartsCounted
    <3>7. StartsCounted'
      BY <2>1, <3>1, <3>2, <3>3, <3>4, <3>5, <3>6 DEF StartsCounted
    <3> QED BY <1>0, <1>t, <1>b, <2>1, <3>7 DEF TrialInv
  <2> QED BY <2>2, <2>3
<1>5. CASE Write
  <2>1. /\ pc = "write" /\ pc' = "verify" /\ UNCHANGED <<health, faults, launched>>
        /\ disk' = [disk EXCEPT ![CopyFor(health)] = health]
    BY <1>5 DEF Write, ram
  <2>2. /\ \A c \in Copies : Charged(disk', faults, c, launched)
        /\ health.pending_good => \A c \in Copies : Charged(disk', faults, c, launched + 1)
    BY <1>0, <2>1, OverwriteCharged
  <2>3. StartsCounted'
    BY <1>0, <2>1, <2>2 DEF StartsCounted
  <2> QED BY <1>0, <1>t, <1>b, <2>1, <2>3 DEF TrialInv
<1>6. CASE WriteRefused \/ WriteLost
  <2>1. /\ pc = "write" /\ pc' \in {"verify", "load"} /\ UNCHANGED <<health, launched>>
        /\ faults' = faults + 1
        /\ disk' = disk \/ disk' = [disk EXCEPT ![CopyFor(health)] = Corrupt]
    BY <1>6 DEF WriteRefused, WriteLost, Fault, ram
  <2>2. \A c \in Copies : Charged(disk, faults, c, launched)
    BY <1>0, <2>1 DEF StartsCounted
  <2>3. /\ launched + 1 \in Nat /\ faults <= faults' /\ faults + 1 <= faults'
        /\ launched + faults <= launched + faults'
        /\ launched + 1 + faults <= launched + faults'
    BY <1>t, <2>1
  <2>4. \A c \in Copies : Charged(disk', faults', c, launched)
    <3>1. CASE disk' = disk
      BY <1>0, <1>t, <2>2, <2>3, <3>1, ChargedLater
    <3>2. CASE disk' = [disk EXCEPT ![CopyFor(health)] = Corrupt]
      BY <1>0, <1>t, <1>h, <2>2, <2>3, <3>2, TornPaid
    <3> QED BY <2>1, <3>1, <3>2
  <2>5. ASSUME health.pending_good
        PROVE  \A c \in Copies : Charged(disk', faults', c, launched + 1)
    <3>1. CASE disk' = disk
      BY <1>0, <1>t, <2>2, <2>3, <3>1, ChargedLater
    <3>2. CASE disk' = [disk EXCEPT ![CopyFor(health)] = Corrupt]
      <4> DEFINE o == disk[OtherCopy(CopyFor(health))]
      <4>1. o.attempt_count \in Nat
        BY <1>0, <1>h, OtherCopyIsOther, MaxAttemptsAssumption DEF TypeOK, HealthRecords
      <4>2. Valid(o) /\ o.pending_good => launched <= o.attempt_count + faults
        BY <1>0, <2>1, <2>5 DEF StartsCounted
      <4>3. Valid(o) /\ o.pending_good => launched + 1 <= o.attempt_count + faults'
        BY <1>t, <2>1, <4>1, <4>2
      <4> QED BY <1>0, <1>t, <1>h, <2>3, <3>2, <4>3, TornCharged
    <3> QED BY <2>1, <3>1, <3>2
  <2>6. health.pending_good => launched + 1 <= health.attempt_count + faults'
    <3>1. health.pending_good => launched + 1 <= health.attempt_count + faults
      BY <1>0, <2>1 DEF StartsCounted
    <3> QED BY <1>t, <1>h, <2>1, <3>1
  <2>7. StartsCounted'
    BY <2>1, <2>4, <2>5, <2>6 DEF StartsCounted
  <2> QED BY <1>0, <1>t, <1>b, <2>1, <2>3, <2>7 DEF TrialInv
<1>7. CASE Verify \/ LoadKernel
  <2>1. /\ pc \in {"verify", "load"} /\ pc' \in {"load", "handoff"}
        /\ UNCHANGED <<disk, health, launched>>
    BY <1>7 DEF Verify, VerifyOf, LoadKernel, ram
  <2>2. faults <= faults'
    BY <1>t, <1>7 DEF Verify, VerifyOf, LoadKernel, Fault, NoFault
  <2>n. launched + 1 \in Nat
    BY <1>t
  <2>3. /\ launched + faults <= launched + faults'
        /\ launched + 1 + faults <= launched + 1 + faults'
    BY <1>t, <2>n, <2>2, BoundGrows
  <2>4. \A c \in Copies : Charged(disk, faults', c, launched)
    <3>1. \A c \in Copies : Charged(disk, faults, c, launched)
      BY <1>0, <2>1 DEF StartsCounted
    <3> QED BY <1>0, <1>t, <2>n, <2>2, <2>3, <3>1, ChargedLater
  <2>5. ASSUME health.pending_good
        PROVE  \A c \in Copies : Charged(disk, faults', c, launched + 1)
    <3>1. \A c \in Copies : Charged(disk, faults, c, launched + 1)
      BY <1>0, <2>1, <2>5 DEF StartsCounted
    <3> QED BY <1>0, <1>t, <2>n, <2>2, <2>3, <3>1, ChargedLater
  <2>6. health.pending_good => launched + 1 <= health.attempt_count + faults'
    <3>1. health.pending_good => launched + 1 <= health.attempt_count + faults
      BY <1>0, <2>1 DEF StartsCounted
    <3> QED BY <1>t, <1>h, <2>2, <3>1
  <2>7. StartsCounted'
    BY <2>1, <2>4, <2>5, <2>6 DEF StartsCounted
  <2> QED BY <1>0, <1>t, <1>b, <2>1, <2>2, <2>7 DEF TrialInv
<1>8. CASE Launch
  <2>1. /\ pc = "handoff" /\ pc' = "kernel" /\ UNCHANGED <<disk, health, faults>>
        /\ launched' = launched + (IF health.pending_good THEN 1 ELSE 0)
    BY <1>8 DEF Launch, ram
  <2>2. CASE health.pending_good
    <3>1. launched' = launched + 1
      BY <2>1, <2>2
    <3>2. /\ launched + 1 <= health.attempt_count + faults
          /\ \A c \in Copies : Charged(disk, faults, c, launched + 1)
      BY <1>0, <2>1, <2>2 DEF StartsCounted
    <3>3. TrialsBounded'
      BY <1>t, <1>h, <2>1, <3>1, <3>2 DEF TrialsBounded
    <3>4. StartsCounted'
      BY <2>1, <3>1, <3>2 DEF StartsCounted
    <3> QED BY <1>0, <3>3, <3>4 DEF TrialInv
  <2>3. CASE ~health.pending_good
    <3>1. launched' = launched
      BY <1>t, <2>1, <2>3
    <3>2. StartsCounted'
      BY <1>0, <1>t, <2>1, <3>1, IdleCharged
    <3> QED BY <1>0, <1>t, <1>b, <2>1, <3>1, <3>2 DEF TrialInv
  <2> QED BY <2>2, <2>3
<1>9. CASE Fallback
  <2>1. /\ UNCHANGED <<disk, launched, faults>> /\ pc = "load" /\ pc' \in {"write", "load"}
        /\ ~health'.pending_good
    BY <1>9, <1>h DEF Fallback, AfterChange, SelectFallback, HealthRecords
  <2>2. StartsCounted'
    BY <1>0, <1>t, <2>1, IdleCharged
  <2> QED BY <1>0, <1>t, <1>b, <2>1, <2>2 DEF TrialInv
<1>10. CASE PowerLoss
  <2>1. /\ pc \in LoaderSteps /\ pc' = "off" /\ UNCHANGED launched
        /\ faults' = faults + 1
        /\ disk' = disk \/ disk' = [disk EXCEPT ![CopyFor(health)] = Corrupt]
    BY <1>10 DEF PowerLoss, Fault, Forget
  <2>2. faults <= faults' /\ faults + 1 <= faults' /\ pc # "init"
    BY <1>t, <2>1 DEF LoaderSteps
  <2>3. CASE disk' = disk
    <3>1. StartsCounted'
      BY <1>0, <2>1, <2>2, <2>3, IdleCharged
    <3> QED BY <1>0, <1>t, <1>b, <2>1, <2>2, <3>1 DEF TrialInv
  <2>4. CASE disk' = [disk EXCEPT ![CopyFor(health)] = Corrupt]
    <3>1. \A c \in Copies : Charged(disk, faults, c, launched)
      BY <1>0, <2>2 DEF StartsCounted
    <3>2. \A c \in Copies : Charged(disk', faults', c, launched)
      BY <1>0, <1>t, <1>h, <2>2, <2>4, <3>1, TornPaid
    <3>3. StartsCounted'
      BY <2>1, <3>2 DEF StartsCounted
    <3> QED BY <1>0, <1>t, <1>b, <2>1, <2>2, <3>3 DEF TrialInv
  <2> QED BY <2>1, <2>3, <2>4
<1>11. CASE ToolInit
  <2>1. pc = "off" /\ UNCHANGED launched
    BY <1>11 DEF ToolInit, Command
  <2>2. CASE ToolWrites("A", DefaultRecord, 0) /\ pc' = "init"
    <3> DEFINE o == disk[OtherCopy("A")]
    <3>1. /\ faults' = faults /\ faults <= faults' /\ faults + 1 \in Nat /\ "A" \in Copies
          /\ disk' = [disk EXCEPT !["A"] = DefaultRecord]
      BY <1>t, <2>2 DEF ToolWrites, Fault, Copies
    <3>2. /\ DefaultRecord \in HealthRecords /\ ~DefaultRecord.pending_good
          /\ DefaultRecord.generation \in Nat
      BY DefaultTyped DEF DefaultRecord
    <3>3. /\ OtherCopy("A") \in Copies /\ o.attempt_count \in Nat
      BY <1>0, <3>1, OtherCopyIsOther, MaxAttemptsAssumption DEF TypeOK, HealthRecords
    <3>4. Valid(o) /\ o.pending_good
            => launched <= o.attempt_count + faults + Slack(disk, OtherCopy("A"))
      BY <1>0, <2>1, <3>3 DEF StartsCounted, Charged
    <3>5. Slack(disk, OtherCopy("A")) \in {0, 1}
      BY DEF Slack
    <3>6. Valid(o) /\ o.pending_good => launched <= o.attempt_count + (faults + 1)
      BY <1>t, <3>3, <3>4, <3>5
    <3>7. \A k \in {0, 1} : Valid(o) /\ o.pending_good
                            => launched <= o.attempt_count + (faults + 1) + k
      BY <1>t, <3>3, <3>6
    <3>8. \A c \in Copies : Charged(disk', faults + 1, c, launched)
      BY <1>0, <1>t, <3>1, <3>2, <3>7, StoreCharged
    <3>9. disk'["A"] = DefaultRecord
      BY <1>0, <3>1 DEF TypeOK
    <3>10. StartsCounted'
      BY <2>1, <2>2, <3>1, <3>8, <3>9 DEF StartsCounted
    <3> QED BY <1>0, <1>t, <1>b, <2>1, <3>1, <3>10 DEF TrialInv
  <2>3. CASE ToolTears("A", 0) /\ UNCHANGED pc
    <3>1. /\ faults <= faults' /\ faults + 1 <= faults' /\ "A" \in Copies
          /\ disk' = [disk EXCEPT !["A"] = Corrupt]
      BY <1>t, <2>3 DEF ToolTears, Fault, Copies
    <3>2. \A c \in Copies : Charged(disk, faults, c, launched)
      BY <1>0, <2>1 DEF StartsCounted
    <3>3. \A c \in Copies : Charged(disk', faults', c, launched)
      BY <1>0, <1>t, <3>1, <3>2, TornPaid
    <3>4. StartsCounted'
      BY <2>1, <2>3, <3>3 DEF StartsCounted
    <3> QED BY <1>0, <1>t, <1>b, <2>1, <3>1, <3>4 DEF TrialInv
  <2> QED BY <1>11, <2>2, <2>3 DEF ToolInit
<1>12. ASSUME launched' = 0, pc' = "off" PROVE TrialInv'
  <2>1. \A c \in Copies : Charged(disk', faults', c, 0)
    BY <1>0, <1>t, NoneCharged DEF TypeOK
  <2>2. \A c \in Copies : Charged(disk', faults', c, launched')
    BY <1>0, <1>12, <2>1
  <2>3. TrialsBounded'
    <3>1. 0 <= MaxAttempts + faults'
      BY <1>t, SumIsNatural, Zenon
    <3>2. QED
      BY <1>12, <3>1, Zenon DEF TrialsBounded
  <2>4. StartsCounted'
    BY <1>12, <2>2 DEF StartsCounted
  <2> QED BY <1>0, <2>3, <2>4 DEF TrialInv
<1>13. ASSUME NEW F \in SUBSET Copies, NEW r \in HealthRecords, pc = "off", pc' = "off",
              ToolTears(CopyFor(r), Cardinality(F)), UNCHANGED launched
       PROVE  TrialInv'
  <2>1. /\ faults' = faults + (Cardinality(F) + 1) /\ Cardinality(F) \in Nat
        /\ disk' = [disk EXCEPT ![CopyFor(r)] = Corrupt] /\ CopyFor(r) \in Copies
    BY <1>13, FailedReadsTyped, CopyForParity DEF ToolTears, Fault
  <2>2. faults <= faults' /\ faults + 1 <= faults'
    BY <1>t, <2>1
  <2>3. \A c \in Copies : Charged(disk, faults, c, launched)
    BY <1>0, <1>13 DEF StartsCounted
  <2>4. \A c \in Copies : Charged(disk', faults', c, launched)
    BY <1>0, <1>t, <2>1, <2>2, <2>3, TornPaid
  <2>5. StartsCounted'
    BY <1>13, <2>4 DEF StartsCounted
  <2> QED BY <1>0, <1>t, <1>b, <1>13, <2>2, <2>5 DEF TrialInv
<1>14. ASSUME NEW F \in SUBSET Copies, ToolAttempt(F) PROVE TrialInv'
  <2> DEFINE r == PrepareAttempt(ToolState(F))
  <2>1. /\ pc = "off" /\ pc' = "off" /\ ToolStores(F, r, launched)
        /\ Cardinality(F) \in Nat /\ r \in HealthRecords
    BY <1>0, <1>14, FailedReadsTyped, ToolStateTyped, PrepareAttemptTyped
       DEF ToolAttempt, Command
  <2>2. \A c \in Copies : Charged(disk, faults, c, launched)
    BY <1>0, <2>1 DEF StartsCounted
  <2>3. CASE ToolWrites(CopyFor(r), r, Cardinality(F)) /\ launched' = launched
    <3>1. /\ faults' = faults + Cardinality(F) /\ disk' = [disk EXCEPT ![CopyFor(r)] = r]
      BY <2>3 DEF ToolWrites, Fault
    <3>2. \A c \in Copies : Charged(disk', faults', c, launched)
      BY <1>0, <2>2, <3>1, AttemptCharged
    <3>3. StartsCounted'
      BY <2>1, <2>3, <3>2 DEF StartsCounted
    <3>4. faults <= faults'
      BY <1>t, <2>1, <3>1
    <3> QED BY <1>0, <1>t, <1>b, <2>1, <2>3, <3>3, <3>4 DEF TrialInv
  <2> QED BY <1>13, <2>1, <2>3 DEF ToolStores
<1>15. ASSUME NEW F \in SUBSET Copies, NEW s \in Slots, ToolGood(F, s) \/ ToolPending(F, s)
       PROVE  TrialInv'
  <2>1. PICK r \in HealthRecords : ToolStores(F, r, 0)
    <3>1. CASE ToolGood(F, s)
      BY <1>0, <3>1, ToolStateTyped, MarkGoodResult DEF ToolGood
    <3>2. CASE ToolPending(F, s)
      BY <1>0, <3>2, ToolStateTyped, BeginUpdateResult DEF ToolPending
    <3> QED BY <1>15, <3>1, <3>2
  <2>2. pc = "off" /\ pc' = "off"
    BY <1>15 DEF ToolGood, ToolPending, Command
  <2> QED BY <1>12, <1>13, <2>1, <2>2 DEF ToolStores
<1>16. CASE ToolInitB
  <2>1. pc = "init" /\ pc' = "off"
    BY <1>16 DEF ToolInitB
  <2>2. /\ disk["A"] = DefaultRecord
        /\ \A c \in Copies : Charged(disk, faults + 1, c, launched)
    BY <1>0, <2>1 DEF StartsCounted
  <2>3. CASE ToolTears("B", 0) /\ UNCHANGED launched
    <3>1. /\ faults <= faults' /\ "B" \in Copies /\ OtherCopy("B") = "A"
          /\ disk' = [disk EXCEPT !["B"] = Corrupt]
      BY <1>t, <2>3 DEF ToolTears, Fault, Copies, OtherCopy
    <3>2. ~disk["A"].pending_good
      BY <2>2 DEF DefaultRecord
    <3>3. \A c \in Copies : Charged(disk', faults', c, launched)
      BY <1>0, <1>t, <3>1, <3>2, TornCharged
    <3>4. StartsCounted'
      BY <2>1, <2>3, <3>3 DEF StartsCounted
    <3> QED BY <1>0, <1>t, <1>b, <2>3, <3>1, <3>4 DEF TrialInv
  <2>4. CASE UNCHANGED <<disk, launched>> /\ Fault(1)
    <3>1. faults' = faults + 1 /\ faults <= faults'
      BY <1>t, <2>4 DEF Fault
    <3>2. StartsCounted'
      BY <2>1, <2>2, <2>4, <3>1 DEF StartsCounted
    <3> QED BY <1>0, <1>t, <1>b, <2>4, <3>1, <3>2 DEF TrialInv
  <2> QED BY <1>12, <1>16, <2>1, <2>3, <2>4 DEF ToolInitB
<1>17. CASE UNCHANGED vars
  BY <1>0, <1>17 DEF vars, TrialInv, TrialsBounded, StartsCounted
<1> QED BY <1>1, <1>2, <1>3, <1>4, <1>5, <1>6, <1>7, <1>8, <1>9, <1>10, <1>11, <1>14,
           <1>15, <1>16, <1>17
        DEF Next, LoaderRuns, Tool

\* A kernel on trial is started no more than MaxAttempts times, plus once for
\* each disk or power fault, whatever order boots, faults and josh-healthctl
\* commands come in.
THEOREM TrialStartsBounded == Spec => []TrialsBounded
<1>1. Init => TrialInv
  <2> SUFFICES ASSUME Init PROVE TrialInv
    OBVIOUS
  <2>1. SafeInv /\ TypeOK
    BY InitSafe DEF SafeInv
  <2>2. launched = 0 /\ pc = "off" /\ faults \in Nat /\ MaxAttempts \in Nat
    BY <2>1, BiosHealthAssumption, MaxAttemptsAssumption DEF Init, TypeOK
  <2>3. \A c \in Copies : Charged(disk, faults, c, launched)
    BY <2>1, <2>2, NoneCharged DEF TypeOK
  <2>4. StartsCounted /\ TrialsBounded
    BY <2>2, <2>3 DEF StartsCounted, TrialsBounded
  <2> QED BY <2>1, <2>4 DEF TrialInv
<1>2. TrialInv => TrialsBounded
  BY DEF TrialInv
<1> QED BY <1>1, <1>2, NextTrialInv, PTL DEF Spec
=============================================================================
