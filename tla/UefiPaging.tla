----------------------------- MODULE UefiPaging -----------------------------
(***************************************************************************)
(* build_tables, map4k and pt_alloc of boot/uefi/main.c, in the code's own *)
(* sizes: the tables for the identity map and for the kernel come from one *)
(* pool of PoolPages pages.  Pages are numbered from KERNEL_VIRT_FLOOR,    *)
(* 2^19 of them up to the end of the address space.                        *)
(***************************************************************************)
EXTENDS Integers

CONSTANTS
  PoolPages,     \* PAGE_TABLE_POOL_PAGES
  IdentityGib,   \* IDENTITY_GIB
  MaxPages,      \* MAX_KERNEL_BYTES in pages
  FirstPages,    \* pages virtual_min may lie in
  PageCounts     \* pages_for(span)

TopPages == 2 ^ 19

ASSUME UefiPagingAssumption ==
  /\ {PoolPages, IdentityGib, MaxPages} \subseteq Nat \ {0}
  /\ FirstPages \subseteq 0 .. TopPages - 1
  /\ PageCounts \subseteq 1..MaxPages
  \* two tables and one per GiB for the identity map; a PDPT, two directories and
  \* the page tables for the kernel: 42 pages in the code, which has 48
  /\ PoolPages >= 2 + IdentityGib + 3 + (2 + (MaxPages - 1) \div 512)

VARIABLES
  mapping,
  first, pages,  \* the kernel's first page and number of pages
  i,             \* loop variable of build_tables
  used,          \* pool pages handed out
  directories,   \* present entries of the PDPT under PML4 entry 511
  page_tables    \* present entries of the page directories

pagingVars == <<mapping, first, pages, i, used, directories, page_tables>>

\* PML4, low PDPT and the page directories of the identity map; the pool cannot
\* end here, and PML4 entry 511 is still absent.
PagingStart ==
  /\ mapping = "map"
  /\ i = 0
  /\ used = 2 + IdentityGib
  /\ directories = {}
  /\ page_tables = {}

PagingInit ==
  /\ first \in FirstPages
  /\ pages \in {n \in PageCounts : first + n <= TopPages}
  /\ PagingStart

\* Indices of the directory and of the page table of a page.
DirectoryOf(p) == p \div 2 ^ 18

\* Mutant: the page-table index is taken one bit too low.
TableOfLow(p) == p \div 2 ^ 8

TableOf(p) == p \div 2 ^ 9

\* Tables map4k finds missing for a page: the kernel's PDPT, a page directory,
\* a page table.
Missing(p) ==
  (IF directories = {} THEN 1 ELSE 0)
  + (IF DirectoryOf(p) \notin directories THEN 1 ELSE 0)
  + (IF TableOf(p) \notin page_tables THEN 1 ELSE 0)

\* map4k for page i of the kernel.
Map4k ==
  /\ mapping = "map" /\ i < pages
  /\ IF used + Missing(first + i) > PoolPages
     THEN mapping' = "out_of_resources" /\ UNCHANGED <<i, used, directories, page_tables>>
     ELSE /\ used' = used + Missing(first + i)
          /\ directories' = directories \cup {DirectoryOf(first + i)}
          /\ page_tables' = page_tables \cup {TableOf(first + i)}
          /\ i' = i + 1
          /\ UNCHANGED mapping
  /\ UNCHANGED <<first, pages>>

BuildDone ==
  /\ mapping = "map" /\ i = pages
  /\ mapping' = "done"
  /\ UNCHANGED <<first, pages, i, used, directories, page_tables>>

PagingNext == Map4k \/ BuildDone

PagingSpec == PagingInit /\ [][PagingNext]_pagingVars
-----------------------------------------------------------------------------
\* The pool is large enough for every kernel that load_elf lets through,
\* wherever it lies against the 2 MiB and 1 GiB boundaries: a kernel of legal
\* size is never refused for want of page tables.
PoolSuffices == mapping # "out_of_resources"
=============================================================================
