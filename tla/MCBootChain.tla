---------------------------- MODULE MCBootChain -----------------------------
(* Model-checking instances of BootChain; the values are in the cfg files.   *)
(* In a 3-bit address space: usable entries over the staging range, over its *)
(* first half, and with an end that wraps, and a reserved one.               *)
EXTENDS BootChain

SmallEntries ==
  {[base |-> 2, length |-> 4, usable |-> TRUE],
   [base |-> 3, length |-> 1, usable |-> TRUE],
   [base |-> 3, length |-> 7, usable |-> TRUE],
   [base |-> 0, length |-> 7, usable |-> FALSE]}

VbeModes == <<"0x144", "0x143", "0x142">>
=============================================================================
