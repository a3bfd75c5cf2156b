---------------------------- MODULE MCKernelLoad ----------------------------
(* Validating, placing and mapping a kernel, or (`called') building the page *)
(* tables of a kernel in the code's own sizes.                               *)
(*                                                                           *)
(* Program headers: all positions from below VirtBase to the end of the      *)
(* window and of the address space, file parts of up to two bytes with and   *)
(* without BSS; and at a few positions data, other types, alignments and an  *)
(* offset that wraps.                                                        *)
EXTENDS KernelLoad, UefiPaging

VARIABLE called

PlacedHeaders ==
  [load : {TRUE}, executable : {TRUE}, offset : 0..2, vaddr : 7..14,
   filesz : 0..2, memsz : {0, 1, 3}, align : {1}]
  \cup [load : BOOLEAN, executable : {FALSE}, offset : {1}, vaddr : {9, 10},
        filesz : {1}, memsz : {2}, align : {0}]
  \cup [load : {TRUE}, executable : {TRUE}, offset : {0, 1, 15}, vaddr : {9, 10},
        filesz : {1}, memsz : {2}, align : {2, 3, 4}]

Init ==
  /\ called \in {"load", "build_tables"}
  /\ LoadInit
  /\ called # "load" => /\ loader = CHOOSE l \in Loaders : TRUE
                        /\ phnum = 1 /\ entry = CHOOSE e \in EntryPoints : TRUE
  /\ IF called = "build_tables" THEN PagingInit
     ELSE first = 0 /\ pages = 1 /\ PagingStart

Next ==
  \/ called = "load" /\ LoadNext /\ UNCHANGED <<called, pagingVars>>
  \/ called = "build_tables" /\ PagingNext /\ UNCHANGED <<called, pc, elfVars, loadVars>>

Spec == Init /\ [][Next]_<<called, pc, elfVars, loadVars, pagingVars>>
=============================================================================
