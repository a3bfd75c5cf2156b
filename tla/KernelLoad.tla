----------------------------- MODULE KernelLoad -----------------------------
(***************************************************************************)
(* From a validated image to a mapped kernel: load_elf of the BIOS loader  *)
(* (boot/stage2_pm.c) with its fixed window and 2 MiB pages, and load_elf  *)
(* with build_tables of the UEFI loader (boot/uefi/main.c).                *)
(*                                                                         *)
(* Physical memory is a row of cells; a cell holds byte k of the image,    *)
(* Zero, or what was there before.  The BIOS loader has the image in the   *)
(* same memory, at Stage; byte 0 stands for the ELF header and the program *)
(* headers, which josh_elf64_load_segment reads anew for every segment.    *)
(***************************************************************************)
EXTENDS Elf64, FiniteSets

CONSTANTS
  Loaders,       \* the loaders to consider, of "bios" and "uefi"
  VirtBase,      \* KERNEL_VIRT_BASE, KERNEL_VIRT_FLOOR
  PhysBase,      \* KERNEL_PHYS_BASE
  PhysLimit,     \* KERNEL_PHYS_LIMIT
  Stage,         \* KERNEL_IMAGE_ADDR
  PageSize,      \* 4096
  MaxSpan,       \* MAX_KERNEL_BYTES
  Frames         \* page-aligned addresses alloc_low may return

Zero == -1
Old == -2
Fault == -1      \* the translation of an address that is not mapped

Cells == 0 .. PhysLimit + Stage + ImageSize + MaxSpan + PageSize

ASSUME KernelLoadAssumption ==
  /\ Loaders \subseteq {"bios", "uefi"}
  /\ {VirtBase, PhysBase, PhysLimit, Stage} \subseteq Words
  /\ PhysBase < PhysLimit
  /\ PageSize \in Nat \ {0} /\ MaxSpan \in Nat
  /\ Frames \subseteq {f \in Cells : f % PageSize = 0}
  /\ \A f \in Frames : f + MaxSpan + PageSize \in Cells    \* there is memory behind it

VARIABLES
  loader,
  mem,           \* physical memory
  phys,          \* UEFI: first address of the kernel's pages
  index,         \* loop variable of load_elf
  page_table     \* UEFI: page number to frame address

loadVars == <<loader, mem, phys, index, page_table>>

Window == PhysBase .. PhysLimit - 1

LoadInit ==
  /\ ElfInit
  /\ loader \in Loaders
  /\ mem = [c \in Cells |-> IF loader = "bios" /\ c \in Stage .. Stage + ImageSize - 1
                            THEN c - Stage ELSE Old]
  /\ phys = 0
  /\ index = 0
  /\ page_table = <<>>

Validate == ElfNext /\ UNCHANGED loadVars

Span == virtual_max - virtual_min

PagesFor(n) == (n + PageSize - 1) \div PageSize

\* memcopy goes upwards byte by byte, so a source below an overlapping
\* destination is repeated.
Copied(m, to, from, n) ==
  [c \in Cells |->
     IF c \in to .. to + n - 1
     THEN m[from + (IF to > from THEN (c - to) % (to - from) ELSE c - to)]
     ELSE m[c]]

Filled(m, to, n, value) == [c \in Cells |-> IF c \in to .. to + n - 1 THEN value ELSE m[c]]

Fail == pc' = "failed" /\ UNCHANGED <<mem, phys, index, page_table>>

\* load_elf of the BIOS loader up to its loop.
BiosBegin ==
  /\ pc = "valid" /\ loader = "bios"
  /\ IF \/ virtual_min < VirtBase
        \/ virtual_max <= virtual_min
        \/ virtual_max - VirtBase > PhysLimit - PhysBase
     THEN Fail
     ELSE pc' = "load" /\ UNCHANGED <<mem, phys, index, page_table>>
  /\ UNCHANGED <<loader, elfVars>>

\* load_elf of the UEFI loader up to its loop; frame is what alloc_low returns.
UefiBegin(frame) ==
  /\ pc = "valid" /\ loader = "uefi"
  /\ IF \/ virtual_min < VirtBase
        \/ virtual_max <= virtual_min
        \/ Span > MaxSpan
     THEN Fail
     ELSE /\ pc' = "load"
          /\ phys' = frame
          /\ mem' = Filled(mem, frame, PagesFor(Span) * PageSize, Zero)
          /\ UNCHANGED <<index, page_table>>
  /\ UNCHANGED <<loader, elfVars>>

\* alloc_low finds no memory.
AllocFails ==
  /\ pc \in {"valid", "map"} /\ loader = "uefi"
  /\ Fail
  /\ UNCHANGED <<loader, elfVars>>

\* Mutant: empty segments are counted and returned too.
IndexedSegmentAll ==
  {phdrs[k] : k \in {j \in 1..Len(phdrs) :
     phdrs[j].load /\ Cardinality({i \in 1..j - 1 : phdrs[i].load}) = index}}

\* The value `current' has in josh_elf64_load_segment when the loop is at header j.
LoadIndex(j) == Cardinality({i \in 1..j - 1 : Occupies(phdrs[i])})

\* The segment josh_elf64_load_segment returns for the index.
IndexedSegment ==
  {phdrs[k] : k \in {j \in 1..Len(phdrs) : Occupies(phdrs[j]) /\ LoadIndex(j) = index}}

HeaderIntact == loader = "uefi" \/ mem[Stage] = 0

\* The segments josh_elf64_load_segment may return: the next one of the image,
\* or, once other bytes of the image have been copied over the staged headers,
\* whatever these now spell.  Zeroed headers have no magic.
NextSegment ==
  IF HeaderIntact THEN IndexedSegment
  ELSE {p \in Headers : mem[Stage] # Zero /\ Occupies(p) /\ SegmentStatus(p) = "ok"}

Destination(p) ==
  IF loader = "bios" THEN PhysBase + (p.vaddr - VirtBase) ELSE phys + (p.vaddr - virtual_min)

\* Mutant: a segment is taken to fit because the whole image does.
SegmentFitsImage(p) == virtual_max - VirtBase <= PhysLimit - PhysBase

\* The checks on one segment inside the loop.
SegmentFits(p) ==
  IF loader = "bios"
  THEN /\ p.vaddr >= VirtBase
       /\ Destination(p) <= PhysLimit
       /\ p.memsz <= PhysLimit - Destination(p)
  ELSE /\ p.vaddr >= virtual_min
       /\ p.vaddr - virtual_min <= Span
       /\ p.memsz <= Span - (p.vaddr - virtual_min)

\* One turn of the loop of either load_elf.  The UEFI loader copies from a pool
\* buffer apart from the kernel's pages and has zeroed these before.
LoadSegment(p) ==
  /\ pc = "load" /\ index < load_count
  /\ IF ~SegmentFits(p) THEN Fail
     ELSE /\ mem' = LET d == Destination(p)
                    IN  IF loader = "bios"
                        THEN Filled(Copied(mem, d, Stage + p.offset, p.filesz),
                                    d + p.filesz, p.memsz - p.filesz, Zero)
                        ELSE [c \in Cells |-> IF c \in d .. d + p.filesz - 1
                                              THEN p.offset + (c - d) ELSE mem[c]]
          /\ index' = index + 1
          /\ UNCHANGED <<pc, phys, page_table>>
  /\ UNCHANGED <<loader, elfVars>>

\* The overwritten headers no longer pass header_if_basic_valid, or hold fewer
\* segments than before.
ReloadFails ==
  /\ pc = "load" /\ index < load_count
  /\ ~HeaderIntact
  /\ Fail
  /\ UNCHANGED <<loader, elfVars>>

LoadDone ==
  /\ pc = "load" /\ index = load_count
  /\ pc' = "map"
  /\ UNCHANGED <<loadVars, elfVars>>

\* build_page_tables, whose map of the kernel is linear, or the map4k loop of
\* build_tables, which takes the address down to its page.
MapKernel ==
  /\ pc = "map"
  /\ pc' = "entered"
  /\ page_table' = IF loader = "bios" THEN page_table
                   ELSE LET first == virtual_min \div PageSize
                        IN  [n \in first .. first + PagesFor(Span) - 1 |->
                               phys + (n - first) * PageSize]
  /\ UNCHANGED <<loader, mem, phys, index, elfVars>>

LoadNext ==
  \/ Validate
  \/ BiosBegin
  \/ \E frame \in Frames : UefiBegin(frame)
  \/ AllocFails
  \/ pc = "load" /\ index < load_count /\ \E p \in NextSegment : LoadSegment(p)
  \/ ReloadFails
  \/ LoadDone
  \/ MapKernel

LoadSpec == LoadInit /\ [][LoadNext]_<<pc, elfVars, loadVars>>
-----------------------------------------------------------------------------
\* What the kernel reads at a virtual address.
Translate(a) ==
  IF loader = "bios" THEN PhysBase + (a - VirtBase)
  ELSE IF a \div PageSize \in DOMAIN page_table
       THEN page_table[a \div PageSize] + (a % PageSize)
       ELSE Fault

SegmentReadable(p) ==
  \A a \in Addresses(p) :
    /\ Translate(a) # Fault
    /\ mem[Translate(a)] = IF a - p.vaddr < p.filesz THEN p.offset + (a - p.vaddr) ELSE Zero

KernelReadable == pc = "entered" => \A j \in 1..phnum : SegmentReadable(phdrs[j])

EndsBelowStage == PhysBase + (virtual_max - VirtBase) <= Stage

\* The kernel that is entered reads every byte of every segment as the file has
\* it, and zero after the file's part: through the BIOS tables if the kernel
\* ends below the staged image, through the UEFI ones if it starts on a page.
LoadedAsFiled ==
  IF loader = "bios" THEN EndsBelowStage => KernelReadable
  ELSE virtual_min % PageSize = 0 => KernelReadable

\* Whatever the image, and even if a segment has been copied over the headers
\* that the next turn of the loop reads, nothing outside the kernel's window
\* (BIOS) or its own pages (UEFI) is written.
WritesConfined ==
  \A c \in Cells :
    \/ mem[c] = Old
    \/ loader = "bios" /\ (c \in Window \/ mem[c] = c - Stage)
    \/ loader = "uefi" /\ c \in phys .. phys + PagesFor(Span) * PageSize - 1

\* docs/JOSH_BOOT_PROTOCOL.md: before the jump "every loaded segment within
\* allowed physical ranges" and "no critical segment overlap".  No segment was
\* copied over the staged image while a later one still had to come from there.
NoCriticalOverlap == (loader = "bios" /\ HeaderIntact) => KernelReadable

\* docs/JOSH_BOOT_PROTOCOL.md: before the jump "page tables valid".
PageTablesValid == loader = "uefi" => KernelReadable
=============================================================================
