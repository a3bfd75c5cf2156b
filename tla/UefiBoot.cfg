\* Two faults of the variable services and two updates by the operating system.
\* Three map changes in a boot defeat all three tries at leaving boot services;
\* a fourth makes room for a change before the first of them.
CONSTANTS
  MaxAttempts = 2
  MaxFaults = 2
  MaxOsUpdates = 2
  MaxMapChanges = 4
SPECIFICATION FairSpec
INVARIANTS TypeOK TrialsBounded FinalMapHandedOver
PROPERTIES TrialResolved GivesUpAfterThreeChanges
