-------------------------------- MODULE Elf64 --------------------------------
(***************************************************************************)
(* josh_elf64_validate (boot/elf64.c): the checks on an ELF64 image before *)
(* anything of it is loaded.  Program headers are invented as the loop     *)
(* reads them.  Addresses and sizes are words below AddrLimit (2^64) and   *)
(* additions wrap; what identifies the file as ELF64 is one verdict.       *)
(***************************************************************************)
EXTENDS Integers, Sequences

CONSTANTS
  AddrLimit,     \* 2^64 in the code
  ImageSize,     \* bytes of the image in memory
  Headers,       \* program headers an image may contain
  EntryPoints,   \* values of e_entry
  MaxHeaders     \* JOSH_ELF64_MAX_PHDRS, 128 in the code

Words == 0 .. AddrLimit - 1

ProgramHeaders == [load : BOOLEAN, executable : BOOLEAN, offset : Words,
                   vaddr : Words, filesz : Words, memsz : Words, align : Words]

ASSUME Elf64Assumption ==
  /\ AddrLimit \in Nat \ {0}
  /\ ImageSize \in Words \ {0}    \* at least a header, or it is refused as truncated
  /\ Headers \subseteq ProgramHeaders
  /\ EntryPoints \subseteq Words
  /\ MaxHeaders \in Nat \ {0}

VARIABLES
  pc,
  phnum,         \* e_phnum
  entry,         \* e_entry
  phdrs,         \* the program headers read so far
  virtual_min, virtual_max, load_count, executable,   \* locals of the loop
  status

elfVars == <<phnum, entry, phdrs, virtual_min, virtual_max, load_count,
             executable, status>>

ElfInit ==
  /\ pc = "header"
  /\ phnum \in 1..MaxHeaders
  /\ entry \in EntryPoints
  /\ phdrs = <<>>
  /\ virtual_min = AddrLimit - 1
  /\ virtual_max = 0
  /\ load_count = 0
  /\ executable = FALSE
  /\ status = "none"

\* Mutant: no sum overflows.
AddOverflowsNever(a, b) == FALSE

AddOverflows(a, b) == AddrLimit - 1 - a < b

RangeInside(offset, length, total) ==
  ~AddOverflows(offset, length) /\ (offset + length) % AddrLimit <= total

PowerOfTwo(n) == \E k \in 0..n : 2 ^ k = n

\* validate_load_segment.
SegmentStatus(p) ==
  IF p.filesz > p.memsz THEN "segment"
  ELSE IF ~RangeInside(p.offset, p.filesz, ImageSize) THEN "truncated"
  ELSE IF p.memsz # 0 /\ AddOverflows(p.vaddr, p.memsz) THEN "segment"
  ELSE IF p.align > 1 /\ ~(/\ PowerOfTwo(p.align)
                           /\ p.vaddr % p.align = p.offset % p.align)
       THEN "segment"
  ELSE "ok"

End(p) == (p.vaddr + p.memsz) % AddrLimit

Collides(p, q) == p.vaddr < End(q) /\ q.vaddr < End(p)

Occupies(p) == p.load /\ p.memsz # 0

Reject(s) ==
  /\ pc' = "rejected"
  /\ status' = s
  /\ UNCHANGED <<virtual_min, virtual_max, load_count, executable>>

\* header_if_basic_valid: magic, class, type, machine, sizes, table range.
HeaderRejected ==
  /\ pc = "header"
  /\ Reject("header")
  /\ UNCHANGED <<phnum, entry, phdrs>>

HeaderAccepted ==
  /\ pc = "header"
  /\ pc' = "segments"
  /\ UNCHANGED elfVars

\* One turn of the loop of josh_elf64_validate.
CheckHeader(p) ==
  /\ pc = "segments"
  /\ Len(phdrs) < phnum
  /\ phdrs' = Append(phdrs, p)
  /\ IF p.load /\ SegmentStatus(p) # "ok" THEN Reject(SegmentStatus(p))
     ELSE IF ~Occupies(p)
     THEN UNCHANGED <<pc, status, virtual_min, virtual_max, load_count, executable>>
     ELSE IF \E j \in 1..Len(phdrs) : Occupies(phdrs[j]) /\ Collides(p, phdrs[j])
     THEN Reject("overlap")
     ELSE /\ virtual_min' = IF p.vaddr < virtual_min THEN p.vaddr ELSE virtual_min
          /\ virtual_max' = IF End(p) > virtual_max THEN End(p) ELSE virtual_max
          /\ load_count' = load_count + 1
          /\ executable' = (executable \/ (/\ p.executable
                                           /\ entry >= p.vaddr
                                           /\ entry < End(p)))
          /\ UNCHANGED <<pc, status>>
  /\ UNCHANGED <<phnum, entry>>

Conclude ==
  /\ pc = "segments"
  /\ Len(phdrs) = phnum
  /\ IF load_count = 0 THEN Reject("segment")
     ELSE IF ~executable THEN Reject("entry")
     ELSE /\ pc' = "valid"
          /\ status' = "ok"
          /\ UNCHANGED <<virtual_min, virtual_max, load_count, executable>>
  /\ UNCHANGED <<phnum, entry, phdrs>>

ElfNext ==
  \/ HeaderRejected
  \/ HeaderAccepted
  \/ \E p \in Headers : CheckHeader(p)
  \/ Conclude

ElfSpec == ElfInit /\ [][ElfNext]_<<pc, elfVars>>
-----------------------------------------------------------------------------
\* Addresses a segment occupies, without any wrap.
Addresses(p) == {a \in p.vaddr .. p.vaddr + p.memsz - 1 : p.load}

SegmentSound(p) ==
  p.load => /\ p.filesz <= p.memsz
            /\ p.offset + p.filesz <= ImageSize
            /\ p.memsz # 0 => p.vaddr + p.memsz < AddrLimit
            /\ p.align > 1 => /\ PowerOfTwo(p.align)
                              /\ (p.vaddr - p.offset) % p.align = 0

Disjoint(I) == \A j, k \in I : j # k => Addresses(phdrs[j]) \cap Addresses(phdrs[k]) = {}

\* An image that passes is what both loaders take it for: every segment lies in
\* the file and in the address space, no two share an address although each is
\* only compared with the ones before it, the entry is executable code, and the
\* summary's bounds are the least and the last address in use.
AcceptsOnlySound ==
  status = "ok" =>
    LET all == UNION {Addresses(phdrs[j]) : j \in 1..phnum}
    IN  /\ \A j \in 1..phnum : SegmentSound(phdrs[j])
        /\ Disjoint(1..phnum)
        /\ \E j \in 1..phnum : phdrs[j].executable /\ entry \in Addresses(phdrs[j])
        /\ virtual_min \in all /\ virtual_max - 1 \in all
        /\ all \subseteq virtual_min .. virtual_max - 1

\* And nothing sound is refused once the header is accepted: a rejected image
\* has an unsound segment, two that share an address, or no executable entry.
RejectsOnlyUnsound ==
  (pc = "rejected" /\ status # "header") =>
    \/ \E j \in 1..Len(phdrs) : ~SegmentSound(phdrs[j])
    \/ ~Disjoint(1..Len(phdrs))
    \/ \A j \in 1..Len(phdrs) : ~(phdrs[j].executable /\ entry \in Addresses(phdrs[j]))

\* josh_elf64_validate draws the line between sound and unsound images exactly.
ValidatesExactly == AcceptsOnlySound /\ RejectsOnlyUnsound
=============================================================================
