----------------------------- MODULE HealthStore -----------------------------
(***************************************************************************)
(* What the two health sectors promise together, without sectors, parity   *)
(* or loader steps: a store of one record with one spare.  Whoever stores  *)
(* a record computed it from a record it saw; the step is atomic for every *)
(* later reader, although the sector write below it is not.                *)
(***************************************************************************)
EXTENDS HealthRecord

VARIABLES
  current,    \* the newest valid record, or Corrupt when there is none
  spare       \* the other one

storeVars == <<current, spare>>

\* What a reader of the store acts on.
Observed == IF Valid(current) THEN current ELSE DefaultRecord

Succeeds(r, base) == Valid(r) /\ r.generation = base.generation + 1

StoreInit == current = Corrupt /\ spare = Corrupt

\* The normal case: one generation on, and the record it was computed from is
\* kept as the spare.  Only over the default record is nothing kept: losing
\* it loses nothing.
Commit ==
  /\ Succeeds(current', Observed)
  /\ \/ spare' = current
     \/ Observed = DefaultRecord /\ spare' = spare

\* The writer could not read the current record and worked from the spare:
\* what the current one added is lost, the spare stays.
Redo ==
  /\ Valid(spare)
  /\ Succeeds(current', spare)
  /\ spare' = spare

\* A write was torn: the store is back at its spare, or has lost its spare.
Tear ==
  /\ spare' = Corrupt
  /\ current' \in {current, spare}

\* josh-healthctl starts over (init), or could read neither sector: one of
\* the two records is replaced by the default or by its successor.
StartOver ==
  \E kept \in {current, spare} :
    \E fresh \in {r \in {current', spare'} :
                    r = DefaultRecord \/ Succeeds(r, DefaultRecord)} :
      /\ {current', spare'} = {kept, fresh}
      /\ Choose(current', spare') = current'

StoreNext == Commit \/ Redo \/ Tear \/ StartOver

StoreSpec == StoreInit /\ [][StoreNext]_storeVars
=============================================================================
