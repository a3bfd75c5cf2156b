\* Three healthctl commands (init, good and pending, or one that disturbs a
\* trial) and two faults, under the fairness of FairSpec.
CONSTANTS
  MaxAttempts = 2
  LayoutSafe = TRUE
  MaxFaults = 2
  MaxCommands = 3
SPECIFICATION FairSpec
INVARIANTS TypeOK CopyParity BaseCopySurvives LaunchAccounted TrialsBounded
PROPERTIES WritesOnlyProvisioned TrialNeverSelfConfirms TrialResolved ActsAsStore
