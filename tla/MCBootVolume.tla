---------------------------- MODULE MCBootVolume ----------------------------
(* How the loader gets at its boot volume: one call of one of the functions  *)
(* it is made of, on any input.  `called' is the call of this behaviour; the *)
(* state of the others stays as it is before a call.                         *)
(*                                                                           *)
(* Volumes to walk: three clusters of one sector, of two sectors, one whose  *)
(* FAT is too short for its last clusters, which are numbered like the marks *)
(* of a FAT entry, and one that is not FAT32.                                *)
EXTENDS Partition, Fat32, BootConfig, BlockIO, Runtime32

VARIABLE called

Image(spc, total, root) ==
  [kind |-> "fat32", sectors_per_cluster |-> spc, reserved |-> 1, fat_count |-> 1,
   total |-> total, fat32 |-> 1, root_cluster |-> root]

SmallImages == {Image(1, 5, 2), Image(2, 8, 3), Image(1, 8, 2),
                [Image(1, 5, 2) EXCEPT !.kind = "fat16"]}

\* Boot sectors to mount: all FAT32 ones, and of the others, which mount tells
\* by one field each, those of the largest volume.
BootSectors == {b \in Bpbs : b.kind = "fat32" \/ b.total = PartitionSectors}

PowersOfTwo == [i \in 0..Width |-> 2 ^ i]

Calls == {"find_boot", "mount", "read", "parse", "block", "divide"}

Init ==
  /\ called \in Calls
  /\ IF called = "find_boot" THEN ScanInit
     ELSE mbr = <<>> /\ signature = FALSE /\ ScanStart
  /\ IF called = "read" THEN WalkInit
     ELSE /\ IF called = "mount" THEN bpb \in BootSectors ELSE bpb = Image(1, 5, 2)
          /\ VolumeStart /\ depth = 0 /\ WalkStart
  /\ ParseInit
  /\ IoInit
  /\ IF called = "divide" THEN DivideInit
     ELSE numerator = 0 /\ denominator = 0 /\ DivideStart

Next ==
  \/ /\ called = "find_boot" /\ ScanNext
     /\ UNCHANGED <<called, fatVars, parseVars, ioVars, divideVars>>
  \/ /\ called = "mount" /\ VolumeNext
     /\ UNCHANGED <<called, scanVars, walk, walkVars, faulted, outcome, parseVars, ioVars,
                    divideVars>>
  \/ /\ called = "read" /\ WalkNext
     /\ UNCHANGED <<called, scanVars, parseVars, ioVars, divideVars>>
  \/ /\ called = "parse" /\ ParseNext
     /\ UNCHANGED <<called, scanVars, fatVars, ioVars, divideVars>>
  \/ /\ called = "block" /\ IoNext
     /\ UNCHANGED <<called, scanVars, fatVars, parseVars, divideVars>>
  \/ /\ called = "divide" /\ DivideNext
     /\ UNCHANGED <<called, scanVars, fatVars, parseVars, ioVars>>

Spec == Init /\ [][Next]_<<called, scanVars, fatVars, parseVars, ioVars, divideVars>>
=============================================================================
