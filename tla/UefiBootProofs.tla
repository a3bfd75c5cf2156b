--------------------------- MODULE UefiBootProofs ---------------------------
(***************************************************************************)
(* Proofs about the UEFI loader for every attempt limit, every number of   *)
(* failing variable services, of updates by the operating system and of    *)
(* changes of the memory map.                                              *)
(***************************************************************************)
EXTENDS UefiBoot, HealthRecordProofs

-----------------------------------------------------------------------------
(* Type correctness. *)

\* efi_main forgets everything when it returns.
LEMMA AbandonTyped ==
  ASSUME Abandon
  PROVE  /\ pc' \in LoaderSteps \cup {"firmware", "kernel"}
         /\ health' \in HealthRecords
         /\ slot' \in Slots
         /\ candidate' \in 0 .. 3
         /\ paths' \in SUBSET Slots
         /\ map_key' \in 0 .. MaxMapChanges
         /\ key' \in 0 .. MaxMapChanges
         /\ captured' \in 0 .. MaxMapChanges
         /\ descriptors_fit' = descriptors_fit
         /\ tries' \in 0 .. MaxExitTries - 1
<1>1. /\ candidate' \in 0 .. 3 /\ tries' \in 0 .. MaxExitTries - 1
      /\ map_key' \in 0 .. MaxMapChanges /\ captured' \in 0 .. MaxMapChanges
      /\ key' \in 0 .. MaxMapChanges
  BY UefiBootAssumption DEF Abandon, MaxExitTries
<1> QED BY <1>1, CorruptTyped DEF Abandon, Slots

\* A failing variable service stays within the budget of faults.
LEMMA FaultTyped ==
  ASSUME TypeOK, Fault
  PROVE  faults' \in 0 .. MaxFaults
BY UefiBootAssumption DEF TypeOK, Fault

\* The type invariant holds when the firmware starts.
LEMMA InitTypeOK == Init => TypeOK
<1> SUFFICES ASSUME Init PROVE TypeOK
  OBVIOUS
<1>1. /\ candidate \in 0 .. 3 /\ faults \in 0 .. MaxFaults
      /\ os_updates \in 0 .. MaxOsUpdates /\ launched \in Nat
      /\ map_key \in 0 .. MaxMapChanges /\ captured \in 0 .. MaxMapChanges
      /\ key \in 0 .. MaxMapChanges /\ tries \in 0 .. MaxExitTries - 1
  BY UefiBootAssumption DEF Init, MaxExitTries
<1> QED BY <1>1, CorruptTyped DEF Init, TypeOK, Slots

\* Every step of efi_main, the firmware and the operating system preserves the
\* type invariant.
LEMMA NextTypeOK == TypeOK /\ [Next]_vars => TypeOK'
<1> SUFFICES ASSUME TypeOK, [Next]_vars PROVE TypeOK'
  OBVIOUS
<1>1. CASE EfiMain \/ LoadKernel \/ Place
  BY <1>1 DEF EfiMain, LoadKernel, Place, TypeOK, LoaderSteps, load, map, tally
<1>2. CASE LoadConfig
  BY <1>2 DEF LoadConfig, TypeOK, LoaderSteps, map, tally
<1>3. CASE LoadConfigFails \/ CandidatesExhausted \/ PlaceFails \/ CaptureMapFails
           \/ ExitGivesUp \/ Reset
  <2>1. Abandon /\ UNCHANGED <<nv, tally>>
    BY <1>3 DEF LoadConfigFails, CandidatesExhausted, PlaceFails, CaptureMapFails,
                ExitGivesUp, Reset
  <2> QED BY <2>1, AbandonTyped DEF TypeOK, tally
<1>4. CASE HealthLoad
  BY <1>4 DEF HealthLoad, TypeOK, LoaderSteps, map, tally
<1>5. CASE HealthInitialise
  <2>1. /\ faults' \in 0 .. MaxFaults /\ UNCHANGED <<os_updates, launched>>
    BY <1>5, FaultTyped DEF HealthInitialise, Fault, tally, TypeOK
  <2> QED BY <1>5, <2>1, DefaultTyped DEF HealthInitialise, TypeOK, LoaderSteps, map
<1>6. CASE StoreDefault \/ Store
  <2>1. pc' \in {"prepare", "load"} /\ UNCHANGED <<load, map>>
    BY <1>6 DEF StoreDefault, Store, StoreThen
  <2>2. nv' \in HealthRecords
    BY <1>6 DEF StoreDefault, Store, StoreThen, TypeOK
  <2>3. faults' \in 0 .. MaxFaults /\ UNCHANGED <<os_updates, launched>>
    BY <1>6, FaultTyped DEF StoreDefault, Store, StoreThen, Fault, tally, TypeOK
  <2> QED BY <2>1, <2>2, <2>3 DEF TypeOK, LoaderSteps, load, map
<1>7. CASE Prepare
  <2>1. health' \in HealthRecords
    BY <1>7, PrepareAttemptTyped DEF Prepare, TypeOK
  <2>2. slot' \in Slots
    BY <1>7, <2>1 DEF Prepare, HealthRecords
  <2> QED BY <1>7, <2>1, <2>2 DEF Prepare, TypeOK, LoaderSteps, map, tally
<1>8. CASE Fallback
  <2>1. PICK s \in FallbackFrom(slot) :
          health' = SelectFallback(health, s, FAILURE_KERNEL_FILE) /\ slot' = s
    BY <1>8 DEF Fallback
  <2>2. s \in Slots
    BY DEF FallbackFrom, Slots
  <2>3. health' \in HealthRecords
    BY <2>1, <2>2, SelectFallbackResult DEF TypeOK
  <2>4. candidate' \in 0 .. 3
    BY <1>8 DEF Fallback, TypeOK
  <2> QED BY <1>8, <2>1, <2>2, <2>3, <2>4 DEF Fallback, TypeOK, LoaderSteps, map, tally
<1>9. CASE CaptureMap
  BY <1>9 DEF CaptureMap, TypeOK, LoaderSteps, load, tally
<1>10. CASE ExitBootServices
  BY <1>10 DEF ExitBootServices, TypeOK, load, map
<1>11. CASE ExitRetry
  BY <1>11 DEF ExitRetry, TypeOK, LoaderSteps, load, tally, MaxExitTries
<1>12. CASE MapChanges
  BY <1>12, UefiBootAssumption DEF MapChanges, TypeOK, load, tally
<1>13. CASE OsMarksGood
  <2>1. nv' \in HealthRecords
    BY <1>13, MarkGoodResult DEF OsMarksGood, TypeOK
  <2>2. os_updates' \in 0 .. MaxOsUpdates /\ launched' \in Nat
    BY <1>13, UefiBootAssumption DEF OsMarksGood, TypeOK
  <2> QED BY <1>13, <2>1, <2>2 DEF OsMarksGood, TypeOK, load, map
<1>14. CASE OsBeginsUpdate
  <2>1. nv' \in HealthRecords
    BY <1>14, BeginUpdateResult DEF OsBeginsUpdate, TypeOK
  <2>2. os_updates' \in 0 .. MaxOsUpdates /\ launched' \in Nat
    BY <1>14, UefiBootAssumption DEF OsBeginsUpdate, TypeOK
  <2> QED BY <1>14, <2>1, <2>2 DEF OsBeginsUpdate, TypeOK, load, map
<1>15. CASE UNCHANGED vars
  BY <1>15 DEF vars, TypeOK
<1> QED BY <1>1, <1>2, <1>3, <1>4, <1>5, <1>6, <1>7, <1>8, <1>9, <1>10, <1>11,
           <1>12, <1>13, <1>14, <1>15 DEF Next, Loader

\* The variable and the record in RAM are well formed, no attempt count exceeds
\* the limit, and ExitBootServices is never called a fourth time.
THEOREM TypeCorrect == Spec => []TypeOK
BY InitTypeOK, NextTypeOK, PTL DEF Spec

-----------------------------------------------------------------------------
(* Leaving boot services. *)

\* Each try after the first was paid for by a change of the map, and the key in
\* hand is never newer than the map; it is the key of the map in the metadata
\* page, because no map is read from firmware with entries too short.
TriesPaid ==
  /\ pc \in {"capture", "exit", "kernel"} \/ tries = 0
  /\ pc = "capture" => tries <= map_key
  /\ pc = "exit" => tries <= captured /\ captured <= map_key /\ key = captured
  /\ pc \in {"capture", "exit"} => descriptors_fit

MapInv == TypeOK /\ FinalMapHandedOver /\ TriesPaid

\* No step of anyone lets a try go unpaid or a kernel start on an old map.
LEMMA NextMapInv == MapInv /\ [Next]_vars => MapInv'
<1> SUFFICES ASSUME MapInv, [Next]_vars PROVE FinalMapHandedOver' /\ TriesPaid'
  BY NextTypeOK DEF MapInv
<1>0. TypeOK /\ FinalMapHandedOver /\ TriesPaid
  BY DEF MapInv
<1>1. CASE LoadConfigFails \/ CandidatesExhausted \/ PlaceFails \/ CaptureMapFails
           \/ ExitGivesUp \/ Reset
  <2>1. Abandon
    BY <1>1 DEF LoadConfigFails, CandidatesExhausted, PlaceFails, CaptureMapFails,
                ExitGivesUp, Reset
  <2> QED BY <2>1 DEF Abandon, FinalMapHandedOver, TriesPaid
<1>2. CASE EfiMain \/ LoadConfig \/ HealthLoad \/ HealthInitialise \/ StoreDefault \/ Store
           \/ Prepare \/ LoadKernel \/ Fallback
  <2>1. /\ UNCHANGED map
        /\ pc \notin {"capture", "exit", "kernel"}
        /\ pc' \notin {"capture", "exit", "kernel"}
    BY <1>2 DEF EfiMain, LoadConfig, HealthLoad, HealthInitialise, StoreDefault, Store,
                StoreThen, Prepare, LoadKernel, Fallback, map
  <2> QED BY <1>0, <2>1 DEF FinalMapHandedOver, TriesPaid, map
<1>3. CASE Place
  BY <1>0, <1>3 DEF Place, map, FinalMapHandedOver, TriesPaid, TypeOK
<1>4. CASE CaptureMap
  BY <1>0, <1>4 DEF CaptureMap, FinalMapHandedOver, TriesPaid, TypeOK
<1>5. CASE ExitBootServices
  BY <1>0, <1>5 DEF ExitBootServices, map, FinalMapHandedOver, TriesPaid
<1>6. CASE ExitRetry
  BY <1>0, <1>6 DEF ExitRetry, FinalMapHandedOver, TriesPaid, TypeOK
<1>7. CASE MapChanges
  BY <1>0, <1>7 DEF MapChanges, FinalMapHandedOver, TriesPaid, TypeOK
<1>8. CASE OsMarksGood \/ OsBeginsUpdate
  BY <1>0, <1>8 DEF OsMarksGood, OsBeginsUpdate, map, FinalMapHandedOver, TriesPaid
<1>9. CASE UNCHANGED vars
  BY <1>0, <1>9 DEF vars, FinalMapHandedOver, TriesPaid
<1> QED BY <1>1, <1>2, <1>3, <1>4, <1>5, <1>6, <1>7, <1>8, <1>9 DEF Next, Loader

\* The invariant holds in every reachable state.
LEMMA MapInvariant == Spec => []MapInv
<1>1. Init => MapInv
  BY InitTypeOK DEF Init, MapInv, FinalMapHandedOver, TriesPaid
<1> QED BY <1>1, NextMapInv, PTL DEF Spec

\* The kernel's memory map is the firmware's last one, however often and
\* wherever the map changes behind efi_main's back.
THEOREM KernelGetsFinalMap == Spec => []FinalMapHandedOver
<1>1. MapInv => FinalMapHandedOver
  BY DEF MapInv
<1> QED BY <1>1, MapInvariant, PTL

\* efi_main gives up on ExitBootServices only after three changes of the map.
THEOREM GivesUpJustly == Spec => GivesUpAfterThreeChanges
<1>1. MapInv /\ [Next]_vars
        => ((pc = "exit" /\ pc' = "firmware") => map_key >= MaxExitTries)
  <2> SUFFICES ASSUME MapInv, [Next]_vars, pc = "exit", pc' = "firmware"
               PROVE  map_key >= MaxExitTries
    OBVIOUS
  <2>1. ExitGivesUp
    BY DEF Next, Loader, EfiMain, LoadConfig, LoadConfigFails, HealthLoad,
           HealthInitialise, StoreDefault, Store, Prepare, LoadKernel, Fallback,
           CandidatesExhausted, Place, PlaceFails, CaptureMap, CaptureMapFails,
           ExitBootServices, ExitRetry, MapChanges, OsMarksGood, OsBeginsUpdate,
           Reset, vars
  <2> QED BY <2>1 DEF ExitGivesUp, MapInv, TriesPaid, TypeOK, MaxExitTries
<1>2. MapInv /\ [Next]_vars
        => [(pc = "exit" /\ pc' = "firmware") => map_key >= MaxExitTries]_vars
  BY <1>1
<1> QED BY <1>2, MapInvariant, PTL DEF Spec, GivesUpAfterThreeChanges

-----------------------------------------------------------------------------
(* The number of trial starts. *)

\* Every start on trial is counted in the variable or was paid for by a fault
\* of the variable services; from prepare_attempt to the start, so is the one
\* that is coming.
StartsCounted ==
  /\ nv.pending_good => launched <= nv.attempt_count + faults
  /\ pc = "prepare" /\ health.pending_good
       => launched <= health.attempt_count + faults
  /\ pc \in {"store", "load", "place", "capture", "exit"} /\ health.pending_good
       => launched + 1 <= health.attempt_count + faults
  /\ pc \in {"load", "place", "capture", "exit"} /\ health.pending_good
          /\ nv.pending_good
       => launched + 1 <= nv.attempt_count + faults
  /\ pc = "store_default" => ~health.pending_good

TrialInv == TypeOK /\ TrialsBounded /\ StartsCounted

\* A step counts the starts it causes.
LEMMA NextTrialInv == TrialInv /\ [Next]_vars => TrialInv'
<1> SUFFICES ASSUME TrialInv, [Next]_vars PROVE TrialsBounded' /\ StartsCounted'
  BY NextTypeOK DEF TrialInv
<1>0. /\ TypeOK /\ TrialsBounded /\ StartsCounted
      /\ MaxAttempts \in Nat /\ faults \in Nat /\ launched \in Nat
      /\ nv.attempt_count \in 0 .. MaxAttempts
      /\ health.attempt_count \in 0 .. MaxAttempts
  BY MaxAttemptsAssumption, UefiBootAssumption DEF TrialInv, TypeOK, HealthRecords
<1>1. CASE LoadConfigFails \/ CandidatesExhausted \/ PlaceFails \/ CaptureMapFails
           \/ ExitGivesUp \/ Reset
  <2>1. Abandon /\ UNCHANGED <<nv, tally>>
    BY <1>1 DEF LoadConfigFails, CandidatesExhausted, PlaceFails, CaptureMapFails,
                ExitGivesUp, Reset
  <2> QED BY <1>0, <2>1 DEF Abandon, tally, TrialsBounded, StartsCounted
<1>2. CASE EfiMain \/ LoadConfig
  BY <1>0, <1>2 DEF EfiMain, LoadConfig, load, tally, TrialsBounded, StartsCounted
<1>3. CASE LoadKernel \/ Place \/ CaptureMap \/ ExitRetry
  BY <1>0, <1>3 DEF LoadKernel, Place, CaptureMap, ExitRetry, load, tally, TrialsBounded,
                    StartsCounted
<1>4. CASE HealthLoad
  BY <1>0, <1>4 DEF HealthLoad, tally, TrialsBounded, StartsCounted
<1>5. CASE HealthInitialise
  <2>0. faults' = faults \/ faults' = faults + 1
    BY <1>5 DEF HealthInitialise, Fault, tally
  <2>1. ~health'.pending_good /\ pc' = "store_default" /\ UNCHANGED <<nv, launched>>
    BY <1>5 DEF HealthInitialise, Fault, tally, DefaultRecord
  <2>2. TrialsBounded'
    BY <1>0, <2>0, <2>1 DEF TrialsBounded
  <2>3. nv.pending_good => launched <= nv.attempt_count + faults'
    BY <1>0, <2>0, <2>1 DEF StartsCounted
  <2> QED BY <2>1, <2>2, <2>3 DEF StartsCounted
<1>6. CASE StoreDefault
  <2>1. /\ UNCHANGED <<health, launched>> /\ pc = "store_default" /\ pc' = "prepare"
        /\ \/ nv' = health /\ UNCHANGED faults
           \/ faults' = faults + 1 /\ UNCHANGED nv
    BY <1>6 DEF StoreDefault, StoreThen, load, tally, Fault
  <2> QED BY <1>0, <2>1 DEF TrialsBounded, StartsCounted
<1>7. CASE Store
  <2>1. /\ UNCHANGED <<health, launched>> /\ pc = "store" /\ pc' = "load"
        /\ \/ nv' = health /\ UNCHANGED faults
           \/ faults' = faults + 1 /\ UNCHANGED nv
    BY <1>7 DEF Store, StoreThen, load, tally, Fault
  <2> QED BY <1>0, <2>1 DEF TrialsBounded, StartsCounted
<1>8. CASE Prepare
  <2>1. /\ UNCHANGED <<nv, faults, launched>> /\ pc = "prepare"
        /\ health' = PrepareAttempt(health)
        /\ pc' = IF health'.generation # health.generation THEN "store" ELSE "load"
    BY <1>8 DEF Prepare, tally
  <2>2. health'.pending_good =>
          /\ health.pending_good
          /\ health'.attempt_count = health.attempt_count + 1
          /\ pc' = "store"
    BY <2>1, AttemptCounted DEF TypeOK, TrialInv
  <2> QED BY <1>0, <2>1, <2>2 DEF TrialsBounded, StartsCounted
<1>9. CASE Fallback
  <2>1. ~health'.pending_good /\ UNCHANGED <<nv, faults, launched>> /\ pc' = "store"
    BY <1>0, <1>9 DEF Fallback, SelectFallback, tally, TypeOK, HealthRecords
  <2> QED BY <1>0, <2>1 DEF TrialsBounded, StartsCounted
<1>10. CASE ExitBootServices
  <2>1. /\ UNCHANGED <<nv, health, faults>> /\ pc = "exit" /\ pc' = "kernel"
        /\ launched' = launched + (IF health.pending_good THEN 1 ELSE 0)
    BY <1>10 DEF ExitBootServices, load
  <2>2. CASE health.pending_good
    BY <1>0, <2>1, <2>2 DEF TrialsBounded, StartsCounted
  <2>3. CASE ~health.pending_good
    BY <1>0, <2>1, <2>3 DEF TrialsBounded, StartsCounted
  <2> QED BY <2>2, <2>3
<1>11. CASE MapChanges
  BY <1>0, <1>11 DEF MapChanges, load, tally, TrialsBounded, StartsCounted
<1>12. CASE OsMarksGood \/ OsBeginsUpdate
  <2>1. launched' = 0 /\ UNCHANGED <<pc, health, faults>> /\ pc = "kernel"
    BY <1>12 DEF OsMarksGood, OsBeginsUpdate, load
  <2>2. nv'.attempt_count \in Nat
    BY NextTypeOK, <1>0 DEF TypeOK, HealthRecords
  <2> QED BY <1>0, <2>1, <2>2 DEF TrialsBounded, StartsCounted
<1>13. CASE UNCHANGED vars
  BY <1>0, <1>13 DEF vars, TrialsBounded, StartsCounted
<1> QED BY <1>1, <1>2, <1>3, <1>4, <1>5, <1>6, <1>7, <1>8, <1>9, <1>10, <1>11,
           <1>12, <1>13 DEF Next, Loader

\* A candidate is started on trial at most MaxAttempts times, plus once for each
\* failing variable service, whatever order boots, faults, map changes and
\* updates by the operating system come in.
THEOREM TrialStartsBounded == Spec => []TrialsBounded
<1>1. Init => TrialInv
  BY InitTypeOK, CorruptTyped, MaxAttemptsAssumption
     DEF Init, TrialInv, TrialsBounded, StartsCounted
<1>2. TrialInv => TrialsBounded
  BY DEF TrialInv
<1> QED BY <1>1, <1>2, NextTrialInv, PTL DEF Spec
=============================================================================
