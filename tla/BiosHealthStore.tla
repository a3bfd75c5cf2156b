--------------------------- MODULE BiosHealthStore ---------------------------
(***************************************************************************)
(* BiosHealth implements HealthStore: the copy josh_boot_health_choose     *)
(* picks is the current record, the other copy is the spare.               *)
(***************************************************************************)
EXTENDS BiosHealth

\* Which sector wins; ties go to A, as in Choose.
ChosenCopy ==
  IF Valid(disk["A"]) /\ Choose(disk["A"], disk["B"]) = disk["A"] THEN "A"
  ELSE "B"

Store == INSTANCE HealthStore
           WITH current <- disk[ChosenCopy],
                spare   <- disk[OtherCopy(ChosenCopy)]

\* Every change of the two sectors by the loader (health_persist) or by
\* josh-healthctl, a torn write, a power loss and an unreadable copy included,
\* is one atomic step of a store with a spare: it goes one generation on from
\* a record that was there, falls back to the spare, or starts over.  No
\* interleaving of boots, faults and commands lets a reader see anything else.
ActsAsStore == Store!StoreSpec
=============================================================================
