-------------------------- MODULE KernelLoadProofs --------------------------
(***************************************************************************)
(* Loading a kernel, for every image: the page-table pool (UefiPaging),    *)
(* the ELF validator (Elf64), and where and what both loaders write        *)
(* (KernelLoad).                                                           *)
(***************************************************************************)
EXTENDS KernelLoad, UefiPaging, FiniteSetTheorems, SequenceTheorems, TLAPS

-----------------------------------------------------------------------------
(* The page-table pool. *)

\* The tables present after i pages are those of the pages from the first to
\* the last one mapped, and the pool has handed out one page for each.
TablesPaid ==
  LET last == first + i - 1
  IN  IF i = 0
      THEN used = 2 + IdentityGib /\ directories = {} /\ page_tables = {}
      ELSE /\ directories = DirectoryOf(first) .. DirectoryOf(last)
           /\ page_tables = TableOf(first) .. TableOf(last)
           /\ used = 2 + IdentityGib + 1 + (DirectoryOf(last) - DirectoryOf(first) + 1)
                       + (TableOf(last) - TableOf(first) + 1)

PagingInv ==
  /\ first \in Nat /\ pages \in 1..MaxPages /\ first + pages <= TopPages
  /\ i \in 0..pages
  /\ TablesPaid
  /\ PoolSuffices

LEMMA PagingConstants ==
  /\ IdentityGib \in Nat /\ PoolPages \in Nat /\ MaxPages \in Nat \ {0}
  /\ PoolPages >= 2 + IdentityGib + 3 + (2 + (MaxPages - 1) \div 512)
BY UefiPagingAssumption

\* Directory and page table of a page, and of the one after it.
LEMMA TableIndex ==
  ASSUME NEW p \in Nat
  PROVE  /\ DirectoryOf(p) \in Nat /\ TableOf(p) \in Nat
         /\ DirectoryOf(p + 1) \in {DirectoryOf(p), DirectoryOf(p) + 1}
         /\ TableOf(p + 1) \in {TableOf(p), TableOf(p) + 1}
<1>1. DirectoryOf(p) = p \div 262144 /\ DirectoryOf(p + 1) = (p + 1) \div 262144
  BY DEF DirectoryOf
<1>2. TableOf(p) = p \div 512 /\ TableOf(p + 1) = (p + 1) \div 512
  BY DEF TableOf
<1>3. QED
  BY <1>1, <1>2

\* A run of n + 1 pages needs at most two directories and n / 512 + 2 tables.
LEMMA TablesOfRun ==
  ASSUME NEW p \in Nat, NEW n \in Nat, p + n < TopPages
  PROVE  /\ DirectoryOf(p) <= DirectoryOf(p + n) /\ DirectoryOf(p + n) <= DirectoryOf(p) + 1
         /\ TableOf(p) <= TableOf(p + n) /\ TableOf(p + n) <= TableOf(p) + n \div 512 + 1
<1>1. DirectoryOf(p) = p \div 262144 /\ DirectoryOf(p + n) = (p + n) \div 262144
  BY DEF DirectoryOf
<1>2. TableOf(p) = p \div 512 /\ TableOf(p + n) = (p + n) \div 512
  BY DEF TableOf
<1>3. p + n < 524288
  BY DEF TopPages
<1>4. QED
  BY <1>1, <1>2, <1>3

LEMMA Map4kInv ==
  ASSUME PagingInv, Map4k
  PROVE  PagingInv'
<1> DEFINE page == first + i
<1>1. /\ first \in Nat /\ i \in Nat /\ page \in Nat /\ i < pages /\ page < TopPages
      /\ pages \in 1..MaxPages
  BY DEF PagingInv, Map4k, TopPages
<1>2. /\ DirectoryOf(first) \in Nat /\ DirectoryOf(page) \in Nat
      /\ TableOf(first) \in Nat /\ TableOf(page) \in Nat
  BY <1>1, TableIndex
<1>3. /\ DirectoryOf(first) <= DirectoryOf(page) /\ DirectoryOf(page) <= DirectoryOf(first) + 1
      /\ TableOf(first) <= TableOf(page) /\ TableOf(page) <= TableOf(first) + i \div 512 + 1
  BY <1>1, TablesOfRun
<1> DEFINE paid == 2 + IdentityGib + 1 + (DirectoryOf(page) - DirectoryOf(first) + 1)
                     + (TableOf(page) - TableOf(first) + 1)
<1>4. /\ used + Missing(page) = paid
      /\ directories \cup {DirectoryOf(page)} = DirectoryOf(first) .. DirectoryOf(page)
      /\ page_tables \cup {TableOf(page)} = TableOf(first) .. TableOf(page)
  <2>1. CASE i = 0
    BY <1>1, <1>2, <2>1, PagingConstants DEF PagingInv, TablesPaid, Missing
  <2>2. CASE i # 0
    <3> DEFINE before == first + i - 1
    <3>1. before \in Nat /\ page = before + 1
      BY <1>1, <2>2
    <3>2. /\ DirectoryOf(before) \in Nat /\ TableOf(before) \in Nat
          /\ DirectoryOf(page) \in {DirectoryOf(before), DirectoryOf(before) + 1}
          /\ TableOf(page) \in {TableOf(before), TableOf(before) + 1}
      BY <3>1, TableIndex
    <3>3. /\ DirectoryOf(first) <= DirectoryOf(before) /\ TableOf(first) <= TableOf(before)
      <4>1. i - 1 \in Nat /\ first + (i - 1) = before /\ first + (i - 1) < TopPages
        BY <1>1, <2>2 DEF TopPages
      <4>2. first \in Nat
        BY <1>1
      <4>3. /\ DirectoryOf(first) <= DirectoryOf(first + (i - 1))
            /\ TableOf(first) <= TableOf(first + (i - 1))
        BY <4>1, <4>2, TablesOfRun
      <4>4. QED
        BY <4>1, <4>3, Zenon
    <3>4. /\ directories = DirectoryOf(first) .. DirectoryOf(before)
          /\ page_tables = TableOf(first) .. TableOf(before)
          /\ used = 2 + IdentityGib + 1 + (DirectoryOf(before) - DirectoryOf(first) + 1)
                      + (TableOf(before) - TableOf(first) + 1)
      BY <2>2 DEF PagingInv, TablesPaid
    <3> HIDE DEF before, page
    <3>5. directories # {}
      BY <1>2, <3>2, <3>3, <3>4
    <3>6. /\ directories \cup {DirectoryOf(page)} = DirectoryOf(first) .. DirectoryOf(page)
          /\ (IF DirectoryOf(page) \notin directories THEN 1 ELSE 0)
               = DirectoryOf(page) - DirectoryOf(before)
      BY <1>2, <3>2, <3>3, <3>4
    <3>7. /\ page_tables \cup {TableOf(page)} = TableOf(first) .. TableOf(page)
          /\ (IF TableOf(page) \notin page_tables THEN 1 ELSE 0)
               = TableOf(page) - TableOf(before)
      BY <1>2, <3>2, <3>3, <3>4
    <3>8. Missing(page) = (DirectoryOf(page) - DirectoryOf(before))
                            + (TableOf(page) - TableOf(before))
      BY <1>2, <3>2, <3>5, <3>6, <3>7 DEF Missing
    <3>9. used + Missing(page) = paid
      <4>1. IdentityGib \in Nat
        BY PagingConstants
      <4>2. (2 + IdentityGib + 1 + (DirectoryOf(before) - DirectoryOf(first) + 1)
               + (TableOf(before) - TableOf(first) + 1))
              + ((DirectoryOf(page) - DirectoryOf(before)) + (TableOf(page) - TableOf(before)))
            = paid
        BY <1>2, <3>2, <4>1
      <4>3. QED
        BY <3>4, <3>8, <4>2, Zenon
    <3>10. QED
      BY <3>6, <3>7, <3>9
  <2>3. QED
    BY <2>1, <2>2
<1>5. paid <= PoolPages
  <2>1. i \div 512 <= (MaxPages - 1) \div 512 /\ i \div 512 \in Nat
        /\ (MaxPages - 1) \div 512 \in Nat
    BY <1>1, PagingConstants
  <2>2. QED
    BY <1>2, <1>3, <2>1, PagingConstants
<1>6. /\ used' = paid
      /\ directories' = DirectoryOf(first) .. DirectoryOf(page)
      /\ page_tables' = TableOf(first) .. TableOf(page)
      /\ i' = i + 1 /\ UNCHANGED <<mapping, first, pages>>
  <2>1. ~(used + Missing(page) > PoolPages)
    BY <1>2, <1>4, <1>5, PagingConstants
  <2>2. QED
    BY <1>4, <2>1 DEF Map4k
<1>7. i + 1 # 0 /\ first + (i + 1) - 1 = page
  BY <1>1
<1>8. TablesPaid'
  BY <1>6, <1>7 DEF TablesPaid, DirectoryOf, TableOf
<1>9. QED
  BY <1>1, <1>6, <1>8 DEF PagingInv, PoolSuffices

\* build_tables never runs out of its pool: whatever the size of the kernel, up
\* to MAX_KERNEL_BYTES, and wherever it lies against the boundaries of page
\* tables and directories.
THEOREM PoolAlwaysSuffices ==
  PagingSpec => []PoolSuffices
<1>1. PagingInit => PagingInv
  <2>1. /\ FirstPages \subseteq Nat /\ PageCounts \subseteq 1..MaxPages
        /\ MaxPages \in Nat
    <3>1. MaxPages \in Nat /\ PageCounts \subseteq 1..MaxPages
      BY UefiPagingAssumption
    <3>2. FirstPages \subseteq 0 .. TopPages - 1
      BY UefiPagingAssumption
    <3>3. TopPages \in Nat
      BY DEF TopPages
    <3>4. QED
      BY <3>1, <3>2, <3>3
  <2>2. QED
    BY <2>1 DEF PagingInit, PagingStart, PagingInv, TablesPaid, PoolSuffices
<1>2. ASSUME PagingInv, [PagingNext]_pagingVars
      PROVE  PagingInv'
  <2>1. CASE Map4k
    BY <1>2, <2>1, Map4kInv
  <2>2. CASE BuildDone
    BY <1>2, <2>2 DEF BuildDone, PagingInv, TablesPaid, PoolSuffices
  <2>3. CASE UNCHANGED pagingVars
    BY <1>2, <2>3 DEF pagingVars, PagingInv, TablesPaid, PoolSuffices
  <2>4. QED
    BY <1>2, <2>1, <2>2, <2>3 DEF PagingNext
<1>3. PagingInv => PoolSuffices
  BY DEF PagingInv
<1>4. QED
  BY <1>1, <1>2, <1>3, PTL DEF PagingSpec

-----------------------------------------------------------------------------
(* Arithmetic of words and pages. *)

LEMMA DivMod ==
  ASSUME NEW a \in Int, NEW n \in Nat \ {0}
  PROVE  /\ a \div n \in Int /\ a % n \in 0 .. n - 1
         /\ n * (a \div n) \in Int
         /\ a = n * (a \div n) + (a % n)
BY SMT

LEMMA DivModUnique ==
  ASSUME NEW a \in Int, NEW n \in Nat \ {0}, NEW q \in Int, NEW r \in 0 .. n - 1, a = n * q + r
  PROVE  a \div n = q /\ a % n = r
BY SMT

\* A multiple of n below n and above -n is zero.
LEMMA SmallMultiple ==
  ASSUME NEW n \in Nat \ {0}, NEW m \in Int, n * m < n, n * m > -n
  PROVE  m = 0
<1>1. m >= 1 => n * m >= n
  BY SMT
<1>2. m <= -1 => n * m <= -n
  BY SMT
<1>3. QED
  BY <1>1, <1>2

\* Congruent numbers have the same remainder.
LEMMA Congruent ==
  ASSUME NEW a \in Nat, NEW b \in Nat, NEW n \in Nat \ {0}
  PROVE  (a - b) % n = 0 <=> a % n = b % n
<1> DEFINE qa == a \div n
           ra == a % n
           qb == b \div n
           rb == b % n
<1>1. /\ qa \in Int /\ ra \in 0 .. n - 1 /\ a = n * qa + ra
      /\ qb \in Int /\ rb \in 0 .. n - 1 /\ b = n * qb + rb
  BY DivMod
<1> HIDE DEF qa, ra, qb, rb
<1>2. n * qa \in Int /\ n * qb \in Int /\ n * (qa - qb) = n * qa - n * qb
  BY <1>1
<1>3. ASSUME ra = rb PROVE (a - b) % n = 0
  <2>1. a - b = n * (qa - qb) + 0
    BY <1>1, <1>2, <1>3
  <2>2. QED
    BY <1>1, <2>1, DivModUnique
<1>4. ASSUME (a - b) % n = 0 PROVE ra = rb
  <2> DEFINE k == (a - b) \div n
  <2>1. k \in Int /\ a - b = n * k /\ n * k \in Int
    BY <1>4, DivMod
  <2> HIDE DEF k
  <2>2. n * (k - (qa - qb)) = n * k - n * (qa - qb)
    BY <1>1, <2>1
  <2>3. n * (k - (qa - qb)) = ra - rb
    BY <1>1, <1>2, <2>1, <2>2
  <2>4. k - (qa - qb) = 0
    BY <1>1, <2>1, <2>3, SmallMultiple
  <2>5. QED
    BY <1>1, <2>3, <2>4
<1>5. QED
  BY <1>3, <1>4 DEF ra, rb

-----------------------------------------------------------------------------
(* The ELF validator. *)

\* Headers seen so far that take up memory.
Occupying == {j \in 1..Len(phdrs) : Occupies(phdrs[j])}

\* virtual_min and virtual_max are the least and the last address in use.
BoundsExact ==
  /\ \A j \in Occupying : /\ virtual_min <= phdrs[j].vaddr
                          /\ phdrs[j].vaddr + phdrs[j].memsz <= virtual_max
  /\ IF load_count = 0 THEN virtual_min = AddrLimit - 1 /\ virtual_max = 0
     ELSE /\ \E j \in Occupying : virtual_min = phdrs[j].vaddr
          /\ \E j \in Occupying : virtual_max = phdrs[j].vaddr + phdrs[j].memsz

\* What the loop of josh_elf64_validate has established of the headers it has
\* passed.
HeadersChecked ==
  /\ \A j \in 1..Len(phdrs) : SegmentSound(phdrs[j])
  /\ Disjoint(1..Len(phdrs))
  /\ load_count = Cardinality(Occupying)
  /\ executable <=> \E j \in 1..Len(phdrs) : phdrs[j].executable /\ entry \in Addresses(phdrs[j])
  /\ BoundsExact

ElfTypeOK ==
  /\ pc \in {"header", "segments", "rejected", "valid", "load", "failed", "map", "entered"}
  /\ phnum \in Nat /\ entry \in Words
  /\ phdrs \in Seq(ProgramHeaders) /\ Len(phdrs) <= phnum
  /\ virtual_min \in Words /\ virtual_max \in Words
  /\ load_count \in Nat
  /\ executable \in BOOLEAN

ElfInv ==
  /\ ElfTypeOK
  /\ pc # "rejected" => HeadersChecked
  /\ pc \in {"header", "segments"} => status = "none"
  /\ pc \in {"valid", "load", "failed", "map", "entered"} =>
       status = "ok" /\ Len(phdrs) = phnum /\ load_count # 0 /\ executable
  /\ pc = "rejected" => status # "ok" /\ RejectsOnlyUnsound

LEMMA HeaderType ==
  ASSUME NEW p \in ProgramHeaders
  PROVE  /\ p.offset \in Nat /\ p.vaddr \in Nat /\ p.filesz \in Nat /\ p.memsz \in Nat
         /\ p.align \in Nat /\ p.load \in BOOLEAN /\ p.executable \in BOOLEAN
         /\ p.offset < AddrLimit /\ p.vaddr < AddrLimit /\ p.filesz < AddrLimit
         /\ p.memsz < AddrLimit
BY Elf64Assumption DEF ProgramHeaders, Words

\* validate_load_segment accepts the sound segments and no others: its tests
\* for overflow make its sums exact.
LEMMA SegmentStatusExact ==
  ASSUME NEW p \in ProgramHeaders, p.load
  PROVE  SegmentStatus(p) = "ok" <=> SegmentSound(p)
<1>1. RangeInside(p.offset, p.filesz, ImageSize) <=> p.offset + p.filesz <= ImageSize
  BY HeaderType, Elf64Assumption DEF RangeInside, AddOverflows, Words
<1>2. AddOverflows(p.vaddr, p.memsz) <=> ~(p.vaddr + p.memsz < AddrLimit)
  BY HeaderType, Elf64Assumption DEF AddOverflows
<1>3. p.align > 1 => (p.vaddr % p.align = p.offset % p.align
                        <=> (p.vaddr - p.offset) % p.align = 0)
  BY HeaderType, Congruent
<1>4. p.filesz > p.memsz <=> ~(p.filesz <= p.memsz)
  BY HeaderType
<1>5. QED
  BY <1>1, <1>2, <1>3, <1>4 DEF SegmentStatus, SegmentSound

LEMMA SoundEnd ==
  ASSUME NEW p \in ProgramHeaders, Occupies(p), SegmentSound(p)
  PROVE  /\ End(p) = p.vaddr + p.memsz /\ End(p) \in Words
         /\ p.vaddr < End(p) /\ p.vaddr < AddrLimit - 1
         /\ Addresses(p) = p.vaddr .. End(p) - 1
<1>1. /\ p.vaddr \in Nat /\ p.memsz \in Nat \ {0} /\ p.vaddr + p.memsz < AddrLimit
      /\ p.load /\ AddrLimit \in Nat \ {0}
  BY HeaderType, Elf64Assumption DEF Occupies, SegmentSound
<1>2. End(p) = p.vaddr + p.memsz
  BY <1>1 DEF End
<1>3. Addresses(p) = p.vaddr .. End(p) - 1
  BY <1>1, <1>2 DEF Addresses
<1>4. QED
  BY <1>1, <1>2, <1>3 DEF Words

LEMMA NotOccupying ==
  ASSUME NEW p \in ProgramHeaders, ~Occupies(p)
  PROVE  Addresses(p) = {}
BY HeaderType DEF Occupies, Addresses

\* The comparison of two segments is exact as well.
LEMMA CollidesExact ==
  ASSUME NEW p \in ProgramHeaders, NEW q \in ProgramHeaders, Occupies(p), Occupies(q),
         SegmentSound(p), SegmentSound(q)
  PROVE  Collides(p, q) <=> Addresses(p) \cap Addresses(q) # {}
<1>1. /\ p.vaddr \in Int /\ q.vaddr \in Int /\ End(p) \in Int /\ End(q) \in Int
      /\ p.vaddr < End(p) /\ q.vaddr < End(q)
      /\ Addresses(p) = p.vaddr .. End(p) - 1 /\ Addresses(q) = q.vaddr .. End(q) - 1
  BY SoundEnd, HeaderType DEF Words
<1>2. ASSUME Collides(p, q)
      PROVE  Addresses(p) \cap Addresses(q) # {}
  <2>1. (IF p.vaddr < q.vaddr THEN q.vaddr ELSE p.vaddr) \in Addresses(p) \cap Addresses(q)
    BY <1>1, <1>2 DEF Collides
  <2>2. QED
    BY <2>1
<1>3. ASSUME NEW a \in Addresses(p) \cap Addresses(q)
      PROVE  Collides(p, q)
  BY <1>1, <1>3 DEF Collides
<1>4. QED
  BY <1>2, <1>3

LEMMA OccupyingFinite ==
  ASSUME phdrs \in Seq(ProgramHeaders)
  PROVE  IsFiniteSet(Occupying)
<1>1. IsFiniteSet(1..Len(phdrs)) /\ Occupying \subseteq 1..Len(phdrs)
  BY FS_Interval DEF Occupying
<1>2. QED
  BY <1>1, FS_Subset

\* The header read last, and those before it.
LEMMA AppendHeader ==
  ASSUME phdrs \in Seq(ProgramHeaders), NEW p \in ProgramHeaders, phdrs' = Append(phdrs, p)
  PROVE  /\ phdrs' \in Seq(ProgramHeaders) /\ Len(phdrs) \in Nat
         /\ Len(phdrs') = Len(phdrs) + 1
         /\ phdrs'[Len(phdrs) + 1] = p
         /\ \A j \in 1..Len(phdrs) : phdrs'[j] = phdrs[j] /\ phdrs[j] \in ProgramHeaders
         /\ 1..Len(phdrs') = 1..Len(phdrs) \cup {Len(phdrs) + 1}
         /\ Len(phdrs) + 1 \notin 1..Len(phdrs)
         /\ Occupying' = Occupying \cup {j \in {Len(phdrs) + 1} : Occupies(p)}
         /\ IsFiniteSet(Occupying)
<1>1. /\ phdrs' \in Seq(ProgramHeaders) /\ Len(phdrs) \in Nat
      /\ Len(phdrs') = Len(phdrs) + 1
      /\ phdrs'[Len(phdrs) + 1] = p
      /\ \A j \in 1..Len(phdrs) : phdrs'[j] = phdrs[j] /\ phdrs[j] \in ProgramHeaders
  OBVIOUS
<1>2. /\ 1..Len(phdrs') = 1..Len(phdrs) \cup {Len(phdrs) + 1}
      /\ Len(phdrs) + 1 \notin 1..Len(phdrs)
  BY <1>1
<1>3. Occupying' = Occupying \cup {j \in {Len(phdrs) + 1} : Occupies(p)}
  BY <1>1, <1>2 DEF Occupying, Occupies
<1>4. QED
  BY <1>1, <1>2, <1>3, OccupyingFinite

\* Each header is only compared with those before it: that is enough.
LEMMA DisjointAppend ==
  ASSUME phdrs \in Seq(ProgramHeaders), NEW p \in ProgramHeaders, phdrs' = Append(phdrs, p),
         Disjoint(1..Len(phdrs)),
         \A j \in 1..Len(phdrs) : Addresses(p) \cap Addresses(phdrs[j]) = {}
  PROVE  Disjoint(1..Len(phdrs))'
<1>1. SUFFICES ASSUME NEW j \in 1..Len(phdrs'), NEW k \in 1..Len(phdrs'), j # k
               PROVE  Addresses(phdrs'[j]) \cap Addresses(phdrs'[k]) = {}
  BY DEF Disjoint
<1>2. /\ j \in 1..Len(phdrs) => phdrs'[j] = phdrs[j]
      /\ k \in 1..Len(phdrs) => phdrs'[k] = phdrs[k]
      /\ j \notin 1..Len(phdrs) => j = Len(phdrs) + 1 /\ phdrs'[j] = p
      /\ k \notin 1..Len(phdrs) => k = Len(phdrs) + 1 /\ phdrs'[k] = p
  BY AppendHeader
<1>3. CASE j \in 1..Len(phdrs) /\ k \in 1..Len(phdrs)
  BY <1>1, <1>2, <1>3 DEF Disjoint
<1>4. CASE j \in 1..Len(phdrs) /\ k \notin 1..Len(phdrs)
  <2>1. Addresses(p) \cap Addresses(phdrs[j]) = {}
    BY <1>4
  <2>2. QED
    BY <1>2, <1>4, <2>1
<1>5. CASE j \notin 1..Len(phdrs) /\ k \in 1..Len(phdrs)
  <2>1. Addresses(p) \cap Addresses(phdrs[k]) = {}
    BY <1>5
  <2>2. QED
    BY <1>2, <1>5, <2>1
<1>6. QED
  BY <1>1, <1>2, <1>3, <1>4, <1>5

\* A header that takes up no memory.
LEMMA CheckHeaderSkips ==
  ASSUME ElfInv, NEW p \in Headers, CheckHeader(p), SegmentSound(p), ~Occupies(p)
  PROVE  ElfInv'
<1>1. p \in ProgramHeaders /\ phdrs \in Seq(ProgramHeaders) /\ phdrs' = Append(phdrs, p)
  BY Elf64Assumption DEF CheckHeader, ElfInv, ElfTypeOK
<1>2. /\ pc = "segments" /\ Len(phdrs) < phnum
      /\ UNCHANGED <<pc, phnum, entry, status, virtual_min, virtual_max, load_count, executable>>
  BY <1>1, SegmentStatusExact DEF CheckHeader
<1>3. HeadersChecked /\ ElfTypeOK
  BY <1>2 DEF ElfInv
<1>4. Addresses(p) = {}
  BY <1>1, NotOccupying
<1>5. Occupying' = Occupying
  BY <1>1, AppendHeader
<1>6. \A j \in 1..Len(phdrs') : SegmentSound(phdrs'[j])
  BY <1>1, <1>3, AppendHeader DEF HeadersChecked
<1>7. Disjoint(1..Len(phdrs))'
  BY <1>1, <1>3, <1>4, DisjointAppend DEF HeadersChecked
<1>8. (\E j \in 1..Len(phdrs) : phdrs[j].executable /\ entry \in Addresses(phdrs[j]))'
        <=> \E j \in 1..Len(phdrs) : phdrs[j].executable /\ entry \in Addresses(phdrs[j])
  BY <1>1, <1>2, <1>4, AppendHeader
<1>9. BoundsExact'
  <2>1. \A j \in Occupying : phdrs'[j] = phdrs[j]
    BY <1>1, AppendHeader DEF Occupying
  <2>2. QED
    BY <1>2, <1>3, <1>5, <2>1 DEF HeadersChecked, BoundsExact
<1>10. HeadersChecked'
  BY <1>2, <1>3, <1>5, <1>6, <1>7, <1>8, <1>9 DEF HeadersChecked, SegmentSound
<1>11. ElfTypeOK'
  BY <1>1, <1>2, <1>3, AppendHeader DEF ElfTypeOK
<1>12. QED
  BY <1>2, <1>10, <1>11 DEF ElfInv

\* Rejections inside the loop.
LEMMA CheckHeaderRejects ==
  ASSUME ElfInv, NEW p \in Headers, CheckHeader(p), pc' = "rejected"
  PROVE  ElfInv'
<1>1. p \in ProgramHeaders /\ phdrs \in Seq(ProgramHeaders) /\ phdrs' = Append(phdrs, p)
  BY Elf64Assumption DEF CheckHeader, ElfInv, ElfTypeOK
<1>2. /\ pc = "segments" /\ Len(phdrs) < phnum /\ HeadersChecked /\ ElfTypeOK
      /\ UNCHANGED <<phnum, entry, virtual_min, virtual_max, load_count, executable>>
  BY DEF CheckHeader, Reject, ElfInv
<1>3. ElfTypeOK'
  BY <1>1, <1>2, AppendHeader DEF ElfTypeOK
<1>4. CASE p.load /\ SegmentStatus(p) # "ok"
  <2>1. status' # "ok"
    BY <1>4 DEF CheckHeader, Reject
  <2>2. ~SegmentSound(phdrs'[Len(phdrs) + 1]) /\ Len(phdrs) + 1 \in 1..Len(phdrs')
    BY <1>1, <1>4, AppendHeader, SegmentStatusExact
  <2>3. RejectsOnlyUnsound'
    BY <2>2 DEF RejectsOnlyUnsound, SegmentSound
  <2>4. QED
    BY <1>3, <2>1, <2>3 DEF ElfInv
<1>5. CASE ~(p.load /\ SegmentStatus(p) # "ok")
  <2>1. /\ Occupies(p) /\ status' = "overlap"
        /\ \E j \in 1..Len(phdrs) : Occupies(phdrs[j]) /\ Collides(p, phdrs[j])
    BY <1>2, <1>5 DEF CheckHeader, Reject
  <2>2. PICK j \in 1..Len(phdrs) : Occupies(phdrs[j]) /\ Collides(p, phdrs[j])
    BY <2>1
  <2>3. SegmentSound(p) /\ SegmentSound(phdrs[j]) /\ phdrs[j] \in ProgramHeaders
    BY <1>1, <1>2, <1>5, <2>1, AppendHeader, SegmentStatusExact DEF Occupies, HeadersChecked
  <2>4. Addresses(p) \cap Addresses(phdrs[j]) # {}
    BY <1>1, <2>1, <2>2, <2>3, CollidesExact
  <2>5. /\ phdrs'[Len(phdrs) + 1] = p /\ phdrs'[j] = phdrs[j] /\ Len(phdrs) + 1 # j
        /\ Len(phdrs) + 1 \in 1..Len(phdrs') /\ j \in 1..Len(phdrs')
    BY <1>1, AppendHeader
  <2>6. ~Disjoint(1..Len(phdrs))'
    BY <2>4, <2>5 DEF Disjoint
  <2>7. QED
    BY <1>3, <2>1, <2>6 DEF ElfInv, RejectsOnlyUnsound
<1>6. QED
  BY <1>4, <1>5

\* A segment that is taken.
LEMMA CheckHeaderTakes ==
  ASSUME ElfInv, NEW p \in Headers, CheckHeader(p), SegmentSound(p), Occupies(p),
         pc' # "rejected"
  PROVE  ElfInv'
<1> DEFINE n == Len(phdrs) + 1
<1>1. p \in ProgramHeaders /\ phdrs \in Seq(ProgramHeaders) /\ phdrs' = Append(phdrs, p)
  BY Elf64Assumption DEF CheckHeader, ElfInv, ElfTypeOK
<1>2. pc = "segments" /\ Len(phdrs) < phnum /\ HeadersChecked /\ ElfTypeOK
  BY DEF CheckHeader, ElfInv
<1>3. /\ ~\E j \in 1..Len(phdrs) : Occupies(phdrs[j]) /\ Collides(p, phdrs[j])
      /\ virtual_min' = IF p.vaddr < virtual_min THEN p.vaddr ELSE virtual_min
      /\ virtual_max' = IF End(p) > virtual_max THEN End(p) ELSE virtual_max
      /\ load_count' = load_count + 1
      /\ executable' = (executable \/ (p.executable /\ entry >= p.vaddr /\ entry < End(p)))
      /\ UNCHANGED <<pc, status, phnum, entry>>
  BY <1>1, <1>2, SegmentStatusExact DEF CheckHeader, Reject
<1>4. /\ p.vaddr \in Words /\ End(p) \in Words /\ p.vaddr < End(p) /\ p.vaddr < AddrLimit - 1
      /\ End(p) = p.vaddr + p.memsz /\ Addresses(p) = p.vaddr .. End(p) - 1
  BY <1>1, SoundEnd DEF ProgramHeaders
<1>5. /\ phdrs'[n] = p /\ Len(phdrs') = n /\ n \notin 1..Len(phdrs)
      /\ 1..Len(phdrs') = 1..Len(phdrs) \cup {n}
      /\ \A j \in 1..Len(phdrs) : phdrs'[j] = phdrs[j] /\ phdrs[j] \in ProgramHeaders
      /\ phdrs' \in Seq(ProgramHeaders)
      /\ Occupying' = Occupying \cup {n} /\ IsFiniteSet(Occupying) /\ n \notin Occupying
  BY <1>1, AppendHeader DEF Occupying
<1> HIDE DEF n
<1>6. \A j \in 1..Len(phdrs') : SegmentSound(phdrs'[j])
  BY <1>2, <1>5 DEF HeadersChecked
<1>7. Disjoint(1..Len(phdrs))'
  <2>1. ASSUME NEW j \in 1..Len(phdrs)
        PROVE  Addresses(p) \cap Addresses(phdrs[j]) = {}
    <3>1. CASE Occupies(phdrs[j])
      BY <1>1, <1>2, <1>3, <1>5, <3>1, CollidesExact DEF HeadersChecked
    <3>2. CASE ~Occupies(phdrs[j])
      BY <1>5, <3>2, NotOccupying
    <3>3. QED
      BY <3>1, <3>2
  <2>2. QED
    BY <1>1, <1>2, <2>1, DisjointAppend DEF HeadersChecked
<1>8. load_count' = Cardinality(Occupying')
  BY <1>2, <1>3, <1>5, FS_AddElement DEF HeadersChecked
<1>9. executable' <=> \E j \in 1..Len(phdrs') :
                        phdrs'[j].executable /\ entry' \in Addresses(phdrs'[j])
  <2>1. p.executable /\ entry >= p.vaddr /\ entry < End(p)
          <=> p.executable /\ entry \in Addresses(p)
    BY <1>2, <1>4 DEF ElfTypeOK, Words
  <2>2. executable <=> \E j \in 1..Len(phdrs) :
                         phdrs[j].executable /\ entry \in Addresses(phdrs[j])
    BY <1>2 DEF HeadersChecked
  <2>3. QED
    BY <1>3, <1>5, <2>1, <2>2
<1>10. BoundsExact'
  <2>1. /\ virtual_min \in Int /\ virtual_max \in Int /\ p.vaddr \in Int /\ p.memsz \in Int
        /\ End(p) \in Int /\ load_count \in Nat /\ AddrLimit \in Int
        /\ \A j \in Occupying : phdrs'[j] = phdrs[j] /\ phdrs[j].vaddr \in Int
                                  /\ phdrs[j].memsz \in Int
    <3>1. /\ AddrLimit \in Int /\ p.vaddr \in Int /\ End(p) \in Int
          /\ virtual_min \in Int /\ virtual_max \in Int /\ load_count \in Nat
      BY <1>2, <1>4, Elf64Assumption DEF ElfTypeOK, Words
    <3>2. p.memsz \in Int
      BY <1>1, HeaderType
    <3>3. ASSUME NEW j \in Occupying
          PROVE  /\ phdrs'[j] = phdrs[j] /\ phdrs[j].vaddr \in Int
                 /\ phdrs[j].memsz \in Int
      <4>1. phdrs'[j] = phdrs[j] /\ phdrs[j] \in ProgramHeaders
        BY <1>5 DEF Occupying
      <4>2. QED
        BY <4>1, HeaderType
    <3>4. QED
      BY <3>1, <3>2, <3>3
  <2>2. BoundsExact
    BY <1>2 DEF HeadersChecked
  <2>3. \A j \in Occupying' : /\ virtual_min' <= phdrs'[j].vaddr
                              /\ phdrs'[j].vaddr + phdrs'[j].memsz <= virtual_max'
    <3>1. /\ virtual_min' <= virtual_min /\ virtual_min' <= p.vaddr /\ virtual_min' \in Int
          /\ virtual_max <= virtual_max' /\ p.vaddr + p.memsz <= virtual_max'
          /\ virtual_max' \in Int
      BY <1>3, <1>4, <2>1
    <3>2. ASSUME NEW j \in Occupying
          PROVE  /\ virtual_min' <= phdrs'[j].vaddr
                 /\ phdrs'[j].vaddr + phdrs'[j].memsz <= virtual_max'
      BY <2>1, <2>2, <3>1 DEF BoundsExact
    <3>3. QED
      BY <1>5, <3>1, <3>2
  <2>4. \E j \in Occupying' : virtual_min' = phdrs'[j].vaddr
    <3>1. CASE virtual_min' = p.vaddr
      BY <1>5, <3>1
    <3>2. CASE virtual_min' # p.vaddr
      <4>1. virtual_min' = virtual_min /\ load_count # 0
        BY <1>3, <1>4, <2>1, <2>2, <3>2 DEF BoundsExact
      <4>2. QED
        BY <1>5, <2>1, <2>2, <4>1 DEF BoundsExact
    <3>3. QED
      BY <3>1, <3>2
  <2>5. \E j \in Occupying' : virtual_max' = phdrs'[j].vaddr + phdrs'[j].memsz
    <3>1. CASE virtual_max' = End(p)
      BY <1>4, <1>5, <3>1
    <3>2. CASE virtual_max' # End(p)
      <4>1. virtual_max' = virtual_max /\ load_count # 0
        BY <1>3, <1>4, <2>1, <2>2, <3>2 DEF BoundsExact, Words
      <4>2. QED
        BY <1>5, <2>1, <2>2, <4>1 DEF BoundsExact
    <3>3. QED
      BY <3>1, <3>2
  <2>6. load_count' # 0
    BY <1>3, <2>1
  <2>7. QED
    BY <2>3, <2>4, <2>5, <2>6 DEF BoundsExact
<1>11. HeadersChecked'
  BY <1>6, <1>7, <1>8, <1>9, <1>10 DEF HeadersChecked, SegmentSound
<1>12. ElfTypeOK'
  <2>1. Len(phdrs') <= phnum
    BY <1>1, <1>2, <1>5 DEF n, ElfTypeOK
  <2>2. executable' \in BOOLEAN
    BY <1>3, Zenon
  <2>3. virtual_min' \in Words /\ virtual_max' \in Words /\ load_count' \in Nat
    BY <1>2, <1>3, <1>4 DEF ElfTypeOK
  <2>4. QED
    BY <1>2, <1>3, <1>5, <2>1, <2>2, <2>3 DEF ElfTypeOK
<1>13. QED
  BY <1>2, <1>3, <1>11, <1>12 DEF ElfInv

LEMMA CheckHeaderInv ==
  ASSUME ElfInv, NEW p \in Headers, CheckHeader(p)
  PROVE  ElfInv'
<1>1. CASE pc' = "rejected"
  BY <1>1, CheckHeaderRejects
<1>2. CASE pc' # "rejected"
  <2>1. p \in ProgramHeaders
    BY Elf64Assumption
  <2>2. p.load => SegmentStatus(p) = "ok"
    BY <1>2 DEF CheckHeader, Reject
  <2>3. SegmentSound(p)
    <3>1. CASE p.load
      BY <2>1, <2>2, <3>1, SegmentStatusExact
    <3>2. CASE ~p.load
      BY <3>2 DEF SegmentSound
    <3>3. QED
      BY <3>1, <3>2
  <2>4. QED
    BY <1>2, <2>3, CheckHeaderSkips, CheckHeaderTakes
<1>3. QED
  BY <1>1, <1>2

\* Steps that leave the validator's variables alone.
LEMMA ElfUnchanged ==
  ASSUME ElfInv, UNCHANGED elfVars,
         \/ pc' = pc
         \/ /\ pc \in {"valid", "load", "map"}
            /\ pc' \in {"load", "failed", "map", "entered"}
         \/ pc = "header" /\ pc' = "segments"
  PROVE  ElfInv'
<1>1. UNCHANGED <<phnum, entry, phdrs, virtual_min, virtual_max, load_count, executable, status>>
  BY DEF elfVars
<1>2. /\ Occupying' = Occupying
      /\ \A j : /\ SegmentSound(phdrs[j])' = SegmentSound(phdrs[j])
                /\ Addresses(phdrs[j])' = Addresses(phdrs[j])
  BY <1>1 DEF Occupying, Occupies, SegmentSound, Addresses
<1>3. Disjoint(1..Len(phdrs))' = Disjoint(1..Len(phdrs))
  BY <1>1, <1>2 DEF Disjoint
<1>4. BoundsExact' = BoundsExact
  BY <1>1, <1>2 DEF BoundsExact
<1>5. HeadersChecked => HeadersChecked'
  BY <1>1, <1>2, <1>3, <1>4 DEF HeadersChecked
<1>6. pc' \in {"header", "segments", "rejected", "valid", "load", "failed", "map", "entered"}
  BY DEF ElfInv, ElfTypeOK
<1>7. ElfTypeOK'
  BY <1>1, <1>6 DEF ElfInv, ElfTypeOK
<1>8. pc' = "rejected" => pc = "rejected" /\ RejectsOnlyUnsound'
  <2>1. SUFFICES ASSUME pc' = "rejected" PROVE pc = "rejected" /\ RejectsOnlyUnsound'
    OBVIOUS
  <2>2. pc = "rejected" /\ RejectsOnlyUnsound
    BY <2>1 DEF ElfInv
  <2>3. QED
    BY <1>1, <1>2, <1>3, <2>1, <2>2 DEF RejectsOnlyUnsound
<1>9. QED
  BY <1>1, <1>5, <1>7, <1>8 DEF ElfInv

LEMMA ConcludeInv ==
  ASSUME ElfInv, Conclude
  PROVE  ElfInv'
<1>1. /\ pc = "segments" /\ HeadersChecked /\ ElfTypeOK /\ Len(phdrs) = phnum
      /\ UNCHANGED <<phnum, entry, phdrs, virtual_min, virtual_max, load_count, executable>>
  BY DEF Conclude, Reject, ElfInv
<1>2. ElfTypeOK' /\ HeadersChecked'
  BY <1>1 DEF Conclude, Reject, ElfTypeOK, HeadersChecked, Disjoint, SegmentSound, BoundsExact,
     Occupying, Addresses
<1>3. CASE load_count # 0 /\ executable
  BY <1>1, <1>2, <1>3 DEF Conclude, ElfInv
<1>4. CASE ~(load_count # 0 /\ executable)
  <2>1. ~executable
    <3>1. ASSUME load_count = 0, NEW j \in 1..Len(phdrs), entry \in Addresses(phdrs[j])
          PROVE  FALSE
      <4>1. IsFiniteSet(Occupying)
        BY <1>1, OccupyingFinite DEF ElfTypeOK
      <4>2. Occupying = {}
        BY <1>1, <3>1, <4>1, FS_EmptySet DEF HeadersChecked
      <4>3. phdrs[j] \in ProgramHeaders
        BY <1>1 DEF ElfTypeOK
      <4>4. ~Occupies(phdrs[j])
        BY <4>2 DEF Occupying
      <4>5. QED
        BY <3>1, <4>3, <4>4, NotOccupying
    <3>2. QED
      BY <1>1, <1>4, <3>1 DEF HeadersChecked
  <2>2. pc' = "rejected" /\ status' # "ok"
    BY <1>4 DEF Conclude, Reject
  <2>3. RejectsOnlyUnsound'
    BY <1>1, <1>2, <2>1 DEF HeadersChecked, RejectsOnlyUnsound
  <2>4. QED
    BY <1>2, <2>2, <2>3 DEF ElfInv
<1>5. QED
  BY <1>3, <1>4

LEMMA ElfInitInv ==
  LoadInit => ElfInv
<1>1. Cardinality({}) = 0
  BY FS_EmptySet
<1>2. SUFFICES ASSUME ElfInit PROVE ElfInv
  BY DEF LoadInit
<1>3. Occupying = {} /\ Len(phdrs) = 0
  BY <1>2 DEF ElfInit, Occupying
<1>4. HeadersChecked
  <2>1. 1..Len(phdrs) = {} /\ load_count = 0 /\ executable = FALSE
    BY <1>2, <1>3 DEF ElfInit
  <2>2. BoundsExact
    BY <1>2, <1>3, <2>1 DEF ElfInit, BoundsExact
  <2>3. QED
    BY <1>1, <1>3, <2>1, <2>2 DEF HeadersChecked, Disjoint
<1>5. ElfTypeOK
  <2>1. entry \in Words /\ phnum \in Nat
    BY <1>2, Elf64Assumption DEF ElfInit
  <2>2. virtual_min \in Words /\ virtual_max \in Words
    BY <1>2, Elf64Assumption DEF ElfInit, Words
  <2>3. phdrs \in Seq(ProgramHeaders) /\ Len(phdrs) <= phnum
    BY <1>2, <1>3, <2>1 DEF ElfInit
  <2>4. QED
    BY <1>2, <2>1, <2>2, <2>3 DEF ElfInit, ElfTypeOK
<1>6. QED
  BY <1>2, <1>4, <1>5 DEF ElfInit, ElfInv

LEMMA ElfNextInv ==
  ASSUME ElfInv, [LoadNext]_<<pc, elfVars, loadVars>>
  PROVE  ElfInv'
<1>1. CASE HeaderRejected
  BY <1>1 DEF HeaderRejected, Reject, ElfInv, ElfTypeOK, RejectsOnlyUnsound
<1>2. CASE HeaderAccepted
  BY <1>2, ElfUnchanged DEF HeaderAccepted
<1>3. CASE BiosBegin
  BY <1>3, ElfUnchanged DEF BiosBegin, Fail
<1>4. ASSUME NEW frame \in Frames, UefiBegin(frame)
      PROVE  ElfInv'
  BY <1>4, ElfUnchanged DEF UefiBegin, Fail
<1>5. CASE AllocFails
  BY <1>5, ElfUnchanged DEF AllocFails, Fail
<1>6. ASSUME NEW p \in NextSegment, LoadSegment(p)
      PROVE  ElfInv'
  BY <1>6, ElfUnchanged DEF LoadSegment, Fail
<1>7. CASE ReloadFails
  BY <1>7, ElfUnchanged DEF ReloadFails, Fail
<1>8. CASE LoadDone
  BY <1>8, ElfUnchanged DEF LoadDone
<1>9. CASE MapKernel
  BY <1>9, ElfUnchanged DEF MapKernel
<1>10. CASE UNCHANGED <<pc, elfVars, loadVars>>
  BY <1>10, ElfUnchanged
<1>11. QED
  BY <1>1, <1>2, <1>3, <1>4, <1>5, <1>6, <1>7, <1>8, <1>9, <1>10, CheckHeaderInv, ConcludeInv
     DEF LoadNext, Validate, ElfNext

LEMMA ElfInvariant ==
  LoadSpec => []ElfInv
BY ElfInitInv, ElfNextInv, PTL DEF LoadSpec

\* josh_elf64_validate, on every image: it passes only images whose segments lie
\* in the file and the address space, are apart from each other, and hold an
\* executable entry, with exact bounds; and it refuses no such image.
THEOREM ValidatorIsExact ==
  LoadSpec => []ValidatesExactly
<1>1. ASSUME ElfInv PROVE AcceptsOnlySound
  <2>1. SUFFICES ASSUME status = "ok"
                 PROVE  LET all == UNION {Addresses(phdrs[j]) : j \in 1..phnum}
                        IN  /\ \A j \in 1..phnum : SegmentSound(phdrs[j])
                            /\ Disjoint(1..phnum)
                            /\ \E j \in 1..phnum :
                                 phdrs[j].executable /\ entry \in Addresses(phdrs[j])
                            /\ virtual_min \in all /\ virtual_max - 1 \in all
                            /\ all \subseteq virtual_min .. virtual_max - 1
    BY DEF AcceptsOnlySound
  <2> DEFINE all == UNION {Addresses(phdrs[j]) : j \in 1..phnum}
  <2>2. HeadersChecked /\ Len(phdrs) = phnum /\ load_count # 0 /\ executable /\ ElfTypeOK
    BY <1>1, <2>1 DEF ElfInv, ElfTypeOK
  <2>3. \A j \in 1..phnum : SegmentSound(phdrs[j]) /\ phdrs[j] \in ProgramHeaders
    BY <2>2 DEF HeadersChecked, ElfTypeOK
  <2>4. ASSUME NEW j \in Occupying
        PROVE  /\ j \in 1..phnum /\ phdrs[j].vaddr \in Int /\ phdrs[j].memsz \in Int
               /\ phdrs[j].vaddr \in Addresses(phdrs[j])
               /\ phdrs[j].vaddr + phdrs[j].memsz - 1 \in Addresses(phdrs[j])
               /\ Addresses(phdrs[j]) = phdrs[j].vaddr .. phdrs[j].vaddr + phdrs[j].memsz - 1
    <3>1. j \in 1..phnum /\ Occupies(phdrs[j])
      BY <2>2 DEF Occupying
    <3>2. phdrs[j] \in ProgramHeaders /\ SegmentSound(phdrs[j])
      BY <2>3, <3>1
    <3>3. phdrs[j].vaddr \in Nat /\ phdrs[j].memsz \in Nat
      BY <3>2, HeaderType
    <3>4. /\ End(phdrs[j]) = phdrs[j].vaddr + phdrs[j].memsz /\ phdrs[j].vaddr < End(phdrs[j])
          /\ Addresses(phdrs[j]) = phdrs[j].vaddr .. End(phdrs[j]) - 1
      BY <3>1, <3>2, SoundEnd
    <3>5. QED
      BY <3>1, <3>3, <3>4
  <2>5. virtual_min \in all
    BY <2>2, <2>4 DEF HeadersChecked, BoundsExact
  <2>6. virtual_max - 1 \in all
    BY <2>2, <2>4 DEF HeadersChecked, BoundsExact
  <2>7. ASSUME NEW j \in 1..phnum, NEW a \in Addresses(phdrs[j])
        PROVE  a \in virtual_min .. virtual_max - 1
    <3>1. j \in Occupying
      BY <2>2, <2>3, <2>7, NotOccupying DEF Occupying
    <3>2. /\ virtual_min <= phdrs[j].vaddr /\ phdrs[j].vaddr + phdrs[j].memsz <= virtual_max
          /\ virtual_min \in Int /\ virtual_max \in Int
      BY <2>2, <3>1 DEF HeadersChecked, BoundsExact, ElfTypeOK, Words
    <3>3. /\ a \in phdrs[j].vaddr .. phdrs[j].vaddr + phdrs[j].memsz - 1
          /\ phdrs[j].vaddr \in Int /\ phdrs[j].memsz \in Int
      BY <2>4, <2>7, <3>1
    <3>4. QED
      BY <3>2, <3>3
  <2>8. QED
    BY <2>2, <2>3, <2>5, <2>6, <2>7 DEF HeadersChecked
<1>2. ElfInv => RejectsOnlyUnsound
  BY DEF ElfInv, RejectsOnlyUnsound
<1>3. QED
  BY <1>1, <1>2, ElfInvariant, PTL DEF ValidatesExactly

-----------------------------------------------------------------------------
(* Where the loaders write. *)

LEMMA LoadConstants ==
  /\ VirtBase \in Nat /\ PhysBase \in Nat /\ PhysLimit \in Nat /\ Stage \in Nat
  /\ PhysBase < PhysLimit /\ PageSize \in Nat \ {0} /\ MaxSpan \in Nat
  /\ ImageSize \in Nat \ {0}
  /\ Cells = 0 .. PhysLimit + Stage + ImageSize + MaxSpan + PageSize
<1>1. AddrLimit \in Nat \ {0} /\ ImageSize \in Nat \ {0}
  BY Elf64Assumption DEF Words
<1>2. {VirtBase, PhysBase, PhysLimit, Stage} \subseteq Nat
  BY <1>1, KernelLoadAssumption DEF Words
<1>3. QED
  BY <1>1, <1>2, KernelLoadAssumption DEF Cells

\* The pages allocated for n bytes hold them.
LEMMA PagesHold ==
  ASSUME NEW n \in Nat
  PROVE  /\ PagesFor(n) \in Nat /\ PagesFor(n) * PageSize \in Nat
         /\ n <= PagesFor(n) * PageSize /\ PagesFor(n) * PageSize < n + PageSize
<1> DEFINE x == n + PageSize - 1
<1>1. x \in Nat /\ PageSize \in Nat \ {0}
  BY LoadConstants
<1>2. /\ x \div PageSize \in Int /\ x % PageSize \in 0 .. PageSize - 1
      /\ x = PageSize * (x \div PageSize) + (x % PageSize)
  BY <1>1, DivMod
<1> DEFINE q == x \div PageSize
<1>3. PagesFor(n) = q
  BY DEF PagesFor
<1> HIDE DEF q
<1>4. PageSize * q \in Int /\ PageSize * q = q * PageSize
  BY <1>1, <1>2 DEF q
<1>5. n <= PageSize * q /\ PageSize * q < n + PageSize
  BY <1>1, <1>2, <1>4 DEF q
<1>6. q \in Nat
  <2>1. q \in Int
    BY <1>2 DEF q
  <2>2. q <= -1 => PageSize * q <= -PageSize
    BY <1>1, <2>1, SMT
  <2>3. QED
    BY <1>1, <1>4, <1>5, <2>1, <2>2
<1>7. QED
  BY <1>3, <1>4, <1>5, <1>6

\* UEFI: nothing is written before there are pages, and then the kernel has a
\* size.
SpanKnown ==
  /\ (loader = "uefi" /\ pc \in {"header", "segments", "rejected", "valid"}) =>
       \A c \in Cells : mem[c] = Old
  /\ pc \in {"load", "map", "entered"} => virtual_min < virtual_max /\ VirtBase <= virtual_min

ConfinedInv ==
  /\ loader \in {"bios", "uefi"}
  /\ phys \in Nat
  /\ SpanKnown
  /\ WritesConfined

\* Whatever segment the loop is handed, intact headers or not, its file part is
\* the smaller one.
LEMMA NextSegmentSound ==
  ASSUME ElfInv, pc = "load", NEW p \in NextSegment
  PROVE  p \in ProgramHeaders /\ Occupies(p) /\ SegmentSound(p)
<1>1. CASE HeaderIntact
  <2>1. PICK k \in 1..Len(phdrs) : p = phdrs[k] /\ Occupies(phdrs[k])
    BY <1>1 DEF NextSegment, IndexedSegment
  <2>2. QED
    BY <2>1 DEF ElfInv, ElfTypeOK, HeadersChecked
<1>2. CASE ~HeaderIntact
  <2>1. p \in Headers /\ Occupies(p) /\ SegmentStatus(p) = "ok"
    BY <1>2 DEF NextSegment
  <2>2. p \in ProgramHeaders /\ p.load
    BY <2>1, Elf64Assumption DEF Occupies
  <2>3. QED
    BY <2>1, <2>2, SegmentStatusExact
<1>3. QED
  BY <1>1, <1>2

\* A segment that passes the checks of the loop ends inside the window or the
\* allocated pages.
LEMMA DestinationInside ==
  ASSUME ElfInv, ConfinedInv, pc = "load", NEW p \in ProgramHeaders, SegmentSound(p), Occupies(p),
         SegmentFits(p)
  PROVE  /\ Destination(p) \in Nat
         /\ p.filesz \in Nat /\ p.memsz \in Nat /\ p.filesz <= p.memsz
         /\ loader = "bios" => PhysBase <= Destination(p) /\ Destination(p) + p.memsz <= PhysLimit
         /\ loader = "uefi" => /\ phys <= Destination(p)
                               /\ Destination(p) + p.memsz <= phys + PagesFor(Span) * PageSize
<1>1. /\ p.vaddr \in Nat /\ p.filesz \in Nat /\ p.memsz \in Nat /\ p.filesz <= p.memsz
      /\ virtual_min \in Nat /\ virtual_max \in Nat /\ virtual_min < virtual_max /\ phys \in Nat
  BY HeaderType DEF Occupies, SegmentSound, ElfInv, ElfTypeOK, Words, ConfinedInv, SpanKnown
<1>2. CASE loader = "bios"
  BY <1>1, <1>2, LoadConstants DEF SegmentFits, Destination
<1>3. CASE loader = "uefi"
  <2>1. Span \in Nat /\ Span = virtual_max - virtual_min
    BY <1>1 DEF Span
  <2>2. Span <= PagesFor(Span) * PageSize /\ PagesFor(Span) * PageSize \in Nat
    BY <2>1, PagesHold
  <2>3. /\ p.vaddr >= virtual_min /\ p.memsz <= Span - (p.vaddr - virtual_min)
        /\ Destination(p) = phys + (p.vaddr - virtual_min)
    BY <1>3 DEF SegmentFits, Destination
  <2>4. QED
    BY <1>1, <1>3, <2>1, <2>2, <2>3
<1>4. QED
  BY <1>2, <1>3 DEF ConfinedInv

LEMMA LoadSegmentConfined ==
  ASSUME ElfInv, ConfinedInv, NEW p \in NextSegment, LoadSegment(p)
  PROVE  ConfinedInv'
<1>1. CASE ~SegmentFits(p)
  BY <1>1 DEF LoadSegment, Fail, ConfinedInv, SpanKnown, WritesConfined, elfVars, Span
<1>2. CASE SegmentFits(p)
  <2> DEFINE d == Destination(p)
  <2>1. pc = "load" /\ p \in ProgramHeaders /\ Occupies(p) /\ SegmentSound(p)
    BY NextSegmentSound DEF LoadSegment
  <2>2. /\ d \in Nat /\ p.filesz \in Nat /\ p.memsz \in Nat /\ p.filesz <= p.memsz
        /\ loader = "bios" => PhysBase <= d /\ d + p.memsz <= PhysLimit
        /\ loader = "uefi" => phys <= d /\ d + p.memsz <= phys + PagesFor(Span) * PageSize
    BY <1>2, <2>1, DestinationInside
  <2>3. /\ UNCHANGED <<pc, phys, loader, virtual_min, virtual_max>>
        /\ mem' = IF loader = "bios"
                  THEN Filled(Copied(mem, d, Stage + p.offset, p.filesz),
                              d + p.filesz, p.memsz - p.filesz, Zero)
                  ELSE [c \in Cells |-> IF c \in d .. d + p.filesz - 1
                                        THEN p.offset + (c - d) ELSE mem[c]]
    BY <1>2 DEF LoadSegment, elfVars
  <2> HIDE DEF d
  <2>4. Span' = Span
    BY <2>3 DEF Span
  <2>5. ASSUME NEW c \in Cells, c \notin d .. d + p.memsz - 1
        PROVE  mem'[c] = mem[c]
    <3>1. c \notin d .. d + p.filesz - 1 /\ c \notin d + p.filesz .. d + p.filesz + (p.memsz - p.filesz) - 1
      BY <2>2, <2>5, LoadConstants
    <3>2. QED
      BY <2>3, <2>5, <3>1 DEF Filled, Copied
  <2>6. ASSUME NEW c \in Cells, c \in d .. d + p.memsz - 1
        PROVE  \/ loader = "bios" /\ c \in Window
               \/ loader = "uefi" /\ c \in phys .. phys + PagesFor(Span) * PageSize - 1
    <3>1. CASE loader = "bios"
      BY <2>2, <2>6, <3>1, LoadConstants DEF Window
    <3>2. CASE loader = "uefi"
      <4>1. PagesFor(Span) * PageSize \in Nat
        <5>1. Span \in Nat
          BY <2>1 DEF Span, ElfInv, ElfTypeOK, Words, ConfinedInv, SpanKnown
        <5>2. QED
          BY <5>1, PagesHold
      <4>2. phys \in Nat
        BY DEF ConfinedInv
      <4>3. QED
        BY <2>2, <2>6, <3>2, <4>1, <4>2
    <3>3. QED
      BY <3>1, <3>2 DEF ConfinedInv
  <2>7. WritesConfined'
    <3>1. SUFFICES ASSUME NEW c \in Cells
                   PROVE  \/ mem'[c] = Old
                          \/ loader = "bios" /\ (c \in Window \/ mem'[c] = c - Stage)
                          \/ loader = "uefi" /\ c \in phys .. phys + PagesFor(Span) * PageSize - 1
      BY <2>3, <2>4 DEF WritesConfined, Window, Cells, PagesFor
    <3>2. QED
      BY <2>5, <2>6 DEF ConfinedInv, WritesConfined
  <2>8. QED
    BY <2>1, <2>3, <2>7 DEF ConfinedInv, SpanKnown
<1>3. QED
  BY <1>1, <1>2

\* Steps that write nothing.
LEMMA NothingWritten ==
  ASSUME ConfinedInv, UNCHANGED <<loader, mem, phys>>,
         pc' \in {"header", "segments", "rejected", "valid"}
           => pc \in {"header", "segments", "rejected", "valid"},
         \/ UNCHANGED <<virtual_min, virtual_max>>
         \/ pc \in {"header", "segments", "rejected", "valid"},
         pc' \in {"load", "map", "entered"} => virtual_min' < virtual_max' /\ VirtBase <= virtual_min'
  PROVE  ConfinedInv'
<1>1. SpanKnown'
  BY DEF ConfinedInv, SpanKnown, Cells
<1>2. ASSUME NEW c \in Cells
      PROVE  \/ mem'[c] = Old
             \/ loader' = "bios" /\ (c \in Window \/ mem'[c] = c - Stage)
             \/ loader' = "uefi" /\ c \in phys' .. phys' + PagesFor(Span') * PageSize - 1
  <2>1. CASE UNCHANGED <<virtual_min, virtual_max>>
    <3>1. Span' = Span
      BY <2>1 DEF Span
    <3>2. QED
      BY <1>2, <3>1 DEF ConfinedInv, WritesConfined
  <2>2. CASE pc \in {"header", "segments", "rejected", "valid"}
    BY <1>2, <2>2 DEF ConfinedInv, WritesConfined, SpanKnown
  <2>3. QED
    BY <2>1, <2>2
<1>3. WritesConfined'
  BY <1>2 DEF WritesConfined, Window, Cells, PagesFor
<1>4. QED
  BY <1>1, <1>3 DEF ConfinedInv

LEMMA UefiBeginConfined ==
  ASSUME ElfInv, ConfinedInv, NEW frame \in Frames, UefiBegin(frame)
  PROVE  ConfinedInv'
<1>1. CASE pc' = "failed"
  BY <1>1, NothingWritten DEF UefiBegin, Fail, elfVars
<1>2. CASE pc' # "failed"
  <2>1. /\ pc = "valid" /\ loader = "uefi" /\ pc' = "load" /\ phys' = frame
        /\ mem' = Filled(mem, frame, PagesFor(Span) * PageSize, Zero)
        /\ ~(virtual_min < VirtBase) /\ ~(virtual_max <= virtual_min)
        /\ UNCHANGED <<loader, virtual_min, virtual_max>>
    BY <1>2 DEF UefiBegin, Fail, elfVars
  <2>2. frame \in Nat /\ virtual_min \in Int /\ virtual_max \in Int /\ VirtBase \in Int
    BY LoadConstants, KernelLoadAssumption DEF ElfInv, ElfTypeOK, Words
  <2>3. \A c \in Cells : mem[c] = Old
    BY <2>1 DEF ConfinedInv, SpanKnown
  <2>4. SpanKnown'
    BY <2>1, <2>2 DEF SpanKnown
  <2>5. Span' = Span
    BY <2>1 DEF Span
  <2>6. WritesConfined'
    BY <2>1, <2>3, <2>5 DEF WritesConfined, Filled, PagesFor, Cells
  <2>7. QED
    BY <2>1, <2>2, <2>4, <2>6 DEF ConfinedInv
<1>3. QED
  BY <1>1, <1>2

LEMMA ConfinedInitInv ==
  LoadInit => ConfinedInv
<1>1. SUFFICES ASSUME LoadInit PROVE ConfinedInv
  OBVIOUS
<1>2. loader \in {"bios", "uefi"} /\ phys = 0 /\ pc = "header"
  BY <1>1, KernelLoadAssumption DEF LoadInit, ElfInit
<1>3. \A c \in Cells : mem[c] = IF loader = "bios" /\ c \in Stage .. Stage + ImageSize - 1
                                THEN c - Stage ELSE Old
  BY <1>1 DEF LoadInit
<1>4. QED
  BY <1>2, <1>3 DEF ConfinedInv, SpanKnown, WritesConfined

LEMMA ConfinedNextInv ==
  ASSUME ElfInv, ConfinedInv, [LoadNext]_<<pc, elfVars, loadVars>>
  PROVE  ConfinedInv'
<1>1. CASE Validate
  <2>1. UNCHANGED <<loader, mem, phys>> /\ pc \in {"header", "segments"}
        /\ pc' \in {"segments", "rejected", "valid"}
    BY <1>1 DEF Validate, loadVars, ElfNext, HeaderRejected, HeaderAccepted, CheckHeader, Conclude,
       Reject
  <2>2. QED
    BY <2>1, NothingWritten
<1>2. CASE BiosBegin
  <2>1. virtual_min \in Int /\ virtual_max \in Int /\ VirtBase \in Int
    BY LoadConstants DEF ElfInv, ElfTypeOK, Words
  <2>2. pc' = "load" => virtual_min < virtual_max /\ VirtBase <= virtual_min
    BY <1>2, <2>1 DEF BiosBegin, Fail
  <2>3. UNCHANGED <<loader, mem, phys, virtual_min, virtual_max>> /\ pc' \in {"load", "failed"}
    BY <1>2 DEF BiosBegin, Fail, elfVars
  <2>4. QED
    BY <2>2, <2>3, NothingWritten
<1>3. ASSUME NEW frame \in Frames, UefiBegin(frame)
      PROVE  ConfinedInv'
  BY <1>3, UefiBeginConfined
<1>4. CASE AllocFails \/ ReloadFails
  BY <1>4, NothingWritten DEF AllocFails, ReloadFails, Fail, elfVars
<1>5. ASSUME NEW p \in NextSegment, LoadSegment(p)
      PROVE  ConfinedInv'
  BY <1>5, LoadSegmentConfined
<1>6. CASE LoadDone \/ MapKernel
  <2>1. /\ UNCHANGED <<loader, mem, phys, virtual_min, virtual_max>>
        /\ pc \in {"load", "map"} /\ pc' \in {"map", "entered"}
    BY <1>6 DEF LoadDone, MapKernel, loadVars, elfVars
  <2>2. QED
    BY <2>1, NothingWritten DEF ConfinedInv, SpanKnown
<1>7. CASE UNCHANGED <<pc, elfVars, loadVars>>
  BY <1>7, NothingWritten DEF elfVars, loadVars, ConfinedInv, SpanKnown
<1>8. QED
  BY <1>1, <1>2, <1>3, <1>4, <1>5, <1>6, <1>7 DEF LoadNext

LEMMA ConfinedInvariant ==
  LoadSpec => []ConfinedInv
BY ElfInvariant, ConfinedInitInv, ConfinedNextInv, PTL DEF LoadSpec

\* load_elf of either loader, on every image: nothing outside the kernel's window
\* or pages is written, although the BIOS loader may by then be reading program
\* headers it has itself overwritten.
THEOREM LoaderWritesConfined ==
  LoadSpec => []WritesConfined
<1>1. ConfinedInv => WritesConfined
  BY DEF ConfinedInv
<1>2. QED
  BY <1>1, ConfinedInvariant, PTL

-----------------------------------------------------------------------------
(* What the loaders write. *)

\* Where the loader puts the byte for a virtual address, and what it should be.
Placed(a) == IF loader = "bios" THEN PhysBase + (a - VirtBase) ELSE phys + (a - virtual_min)

Content(p, a) == IF a - p.vaddr < p.filesz THEN p.offset + (a - p.vaddr) ELSE Zero

\* The staged image has not been written over.
Staged == \A c \in Stage .. Stage + ImageSize - 1 : mem[c] = c - Stage

\* Segments whose turn has come are in place; the UEFI loader's pages are zero
\* where a segment is still to come.
SegmentsInPlace ==
  \A j \in Occupying : \A a \in Addresses(phdrs[j]) :
    IF LoadIndex(j) < index THEN mem[Placed(a)] = Content(phdrs[j], a)
    ELSE loader = "uefi" => mem[Placed(a)] = Zero

\* What load_elf has checked before its loop.
SizeChecked ==
  IF loader = "bios" THEN virtual_max - VirtBase <= PhysLimit - PhysBase
  ELSE Span <= MaxSpan /\ phys \in Frames

KernelTable ==
  LET base == virtual_min \div PageSize
  IN  [n \in base .. base + PagesFor(Span) - 1 |-> phys + (n - base) * PageSize]

FiledInv ==
  /\ index \in Nat
  /\ pc \in {"map", "entered"} => index = load_count
  /\ pc \in {"header", "segments", "valid"} => index = 0 /\ (loader = "bios" => Staged)
  /\ pc \in {"load", "map", "entered"} =>
       /\ SizeChecked
       /\ (loader = "bios" => EndsBelowStage) => SegmentsInPlace
       /\ loader = "bios" /\ EndsBelowStage => Staged
  /\ pc = "entered" /\ loader = "uefi" => page_table = KernelTable

LEMMA ProperSubset ==
  ASSUME NEW S, IsFiniteSet(S), NEW T \in SUBSET S, T # S
  PROVE  Cardinality(T) < Cardinality(S)
<1>1. IsFiniteSet(T) /\ Cardinality(T) <= Cardinality(S) /\ Cardinality(T) # Cardinality(S)
  BY FS_Subset
<1>2. Cardinality(T) \in Nat /\ Cardinality(S) \in Nat
  BY <1>1, FS_CardinalityType
<1>3. QED
  BY <1>1, <1>2

\* Every segment has an index below the number of segments, and no two have the
\* same.
LEMMA LoadIndexes ==
  ASSUME ElfInv, pc # "rejected", NEW j \in Occupying
  PROVE  /\ LoadIndex(j) \in Nat /\ LoadIndex(j) < load_count
         /\ \A k \in Occupying : k # j => LoadIndex(k) # LoadIndex(j)
<1> DEFINE Before(k) == {l \in 1..k - 1 : Occupies(phdrs[l])}
<1>1. /\ phdrs \in Seq(ProgramHeaders) /\ load_count = Cardinality(Occupying)
      /\ IsFiniteSet(Occupying) /\ Len(phdrs) \in Nat
  BY OccupyingFinite DEF ElfInv, ElfTypeOK, HeadersChecked
<1>2. ASSUME NEW k \in Occupying
      PROVE  /\ Before(k) \subseteq Occupying /\ k \notin Before(k) /\ k \in 1..Len(phdrs)
             /\ IsFiniteSet(Before(k)) /\ LoadIndex(k) = Cardinality(Before(k))
             /\ LoadIndex(k) \in Nat
  <2>1. k \in 1..Len(phdrs) /\ Occupies(phdrs[k])
    BY DEF Occupying
  <2>2. Before(k) \subseteq Occupying /\ k \notin Before(k)
    BY <1>1, <2>1 DEF Occupying
  <2>3. IsFiniteSet(Before(k)) /\ LoadIndex(k) = Cardinality(Before(k))
    BY <1>1, <2>2, FS_Subset DEF LoadIndex
  <2>4. QED
    BY <2>1, <2>2, <2>3, FS_CardinalityType
<1>3. ASSUME NEW k \in Occupying, NEW l \in Occupying, k < l
      PROVE  LoadIndex(k) < LoadIndex(l)
  <2>1. Before(k) \subseteq Before(l) /\ k \in Before(l) /\ k \notin Before(k)
    BY <1>2, <1>3 DEF Occupying
  <2>2. Before(k) # Before(l)
    BY <2>1
  <2>3. IsFiniteSet(Before(l)) /\ LoadIndex(k) = Cardinality(Before(k))
        /\ LoadIndex(l) = Cardinality(Before(l))
    BY <1>2
  <2> HIDE DEF Before
  <2>4. QED
    BY <2>1, <2>2, <2>3, ProperSubset
<1> HIDE DEF Before
<1>4. LoadIndex(j) < load_count
  <2>1. Before(j) # Occupying /\ Before(j) \in SUBSET Occupying
        /\ LoadIndex(j) = Cardinality(Before(j))
    BY <1>2
  <2>2. QED
    BY <1>1, <2>1, ProperSubset
<1>5. ASSUME NEW k \in Occupying, k # j
      PROVE  LoadIndex(k) # LoadIndex(j)
  <2>1. k \in 1..Len(phdrs) /\ j \in 1..Len(phdrs)
    BY <1>2
  <2>2. LoadIndex(k) \in Nat /\ LoadIndex(j) \in Nat
    BY <1>2
  <2>3. k < j \/ j < k
    BY <1>1, <1>5, <2>1
  <2>4. CASE k < j
    BY <1>3, <2>2, <2>4
  <2>5. CASE j < k
    BY <1>3, <2>2, <2>5
  <2>6. QED
    BY <2>3, <2>4, <2>5
<1>6. QED
  BY <1>2, <1>4, <1>5

\* An occupying segment's addresses, within the bounds of the whole.
LEMMA SegmentBounds ==
  ASSUME ElfInv, pc # "rejected", NEW j \in Occupying
  PROVE  /\ phdrs[j] \in ProgramHeaders /\ Occupies(phdrs[j]) /\ SegmentSound(phdrs[j])
         /\ phdrs[j].vaddr \in Nat /\ phdrs[j].memsz \in Nat /\ phdrs[j].filesz \in Nat
         /\ phdrs[j].offset \in Nat
         /\ phdrs[j].filesz <= phdrs[j].memsz /\ phdrs[j].offset + phdrs[j].filesz <= ImageSize
         /\ Addresses(phdrs[j]) = phdrs[j].vaddr .. phdrs[j].vaddr + phdrs[j].memsz - 1
         /\ virtual_min <= phdrs[j].vaddr /\ phdrs[j].vaddr + phdrs[j].memsz <= virtual_max
         /\ virtual_min \in Nat /\ virtual_max \in Nat
<1>1. phdrs[j] \in ProgramHeaders /\ Occupies(phdrs[j]) /\ SegmentSound(phdrs[j])
  BY DEF ElfInv, ElfTypeOK, HeadersChecked, Occupying
<1>2. virtual_min <= phdrs[j].vaddr /\ phdrs[j].vaddr + phdrs[j].memsz <= virtual_max
  BY DEF ElfInv, HeadersChecked, BoundsExact
<1>3. virtual_min \in Nat /\ virtual_max \in Nat
  BY DEF ElfInv, ElfTypeOK, Words
<1>4. phdrs[j].filesz <= phdrs[j].memsz /\ phdrs[j].offset + phdrs[j].filesz <= ImageSize
  BY <1>1 DEF SegmentSound, Occupies
<1>5. QED
  BY <1>1, <1>2, <1>3, <1>4, SoundEnd, HeaderType

\* One turn of the loop, cell by cell.
LEMMA SegmentWritten ==
  ASSUME ElfInv, ConfinedInv, NEW p \in NextSegment, LoadSegment(p), SegmentFits(p), NEW c \in Cells,
         loader = "bios" => Destination(p) <= Stage + p.offset
  PROVE  LET d == Destination(p)
         IN  /\ c \notin d .. d + p.memsz - 1 => mem'[c] = mem[c]
             /\ c \in d .. d + p.filesz - 1 =>
                  mem'[c] = IF loader = "bios" THEN mem[Stage + p.offset + (c - d)]
                            ELSE p.offset + (c - d)
             /\ c \in d + p.filesz .. d + p.memsz - 1 =>
                  mem'[c] = IF loader = "bios" THEN Zero ELSE mem[c]
<1> DEFINE d == Destination(p)
           f == Stage + p.offset
           copied == Copied(mem, d, f, p.filesz)
           rest == p.memsz - p.filesz
<1>1. pc = "load" /\ p \in ProgramHeaders /\ Occupies(p) /\ SegmentSound(p)
  BY NextSegmentSound DEF LoadSegment
<1>2. /\ d \in Nat /\ p.filesz \in Nat /\ p.memsz \in Nat /\ p.filesz <= p.memsz /\ c \in Int
      /\ p.offset \in Nat /\ f \in Nat
  BY <1>1, DestinationInside, LoadConstants, HeaderType
<1>3. mem' = IF loader = "bios" THEN Filled(copied, d + p.filesz, rest, Zero)
             ELSE [x \in Cells |-> IF x \in d .. d + p.filesz - 1 THEN p.offset + (x - d) ELSE mem[x]]
  BY DEF LoadSegment
<1> HIDE DEF d, f
<1>4. CASE loader = "uefi"
  <2>1. mem'[c] = IF c \in d .. d + p.filesz - 1 THEN p.offset + (c - d) ELSE mem[c]
    BY <1>3, <1>4
  <2>2. (c \notin d .. d + p.memsz - 1 \/ c \in d + p.filesz .. d + p.memsz - 1)
          => c \notin d .. d + p.filesz - 1
    BY <1>2
  <2>3. QED
    BY <1>4, <2>1, <2>2 DEF d
<1>5. CASE loader = "bios"
  <2>1. ~(d > f)
    BY <1>2, <1>5 DEF d, f
  <2>2. copied[c] = IF c \in d .. d + p.filesz - 1 THEN mem[f + (c - d)] ELSE mem[c]
    BY <2>1 DEF Copied
  <2>3. mem'[c] = IF c \in d + p.filesz .. d + p.filesz + rest - 1 THEN Zero ELSE copied[c]
    BY <1>3, <1>5 DEF Filled
  <2> HIDE DEF copied
  <2>4. d + p.filesz + rest - 1 = d + p.memsz - 1
    BY <1>2
  <2>5. c \in d .. d + p.filesz - 1 => c \notin d + p.filesz .. d + p.memsz - 1
    BY <1>2
  <2>6. c \notin d .. d + p.memsz - 1 => /\ c \notin d .. d + p.filesz - 1
                                         /\ c \notin d + p.filesz .. d + p.memsz - 1
    BY <1>2
  <2>7. QED
    BY <1>5, <2>2, <2>3, <2>4, <2>5, <2>6 DEF d, f
<1>6. QED
  BY <1>4, <1>5 DEF ConfinedInv

\* Addresses keep their distance when they are placed.
LEMMA Shifted ==
  ASSUME NEW x \in Int, NEW w \in Int, NEW a \in Int, NEW b \in Int
  PROVE  x + (a - w) = x + (b - w) + (a - b)
OBVIOUS

LEMMA PlacedShift ==
  ASSUME phys \in Int, virtual_min \in Int, NEW a \in Int, NEW b \in Int
  PROVE  Placed(a) = Placed(b) + (a - b)
<1>1. CASE loader = "bios"
  BY <1>1, Shifted, LoadConstants DEF Placed
<1>2. CASE loader # "bios"
  BY <1>2, Shifted DEF Placed
<1>3. QED
  BY <1>1, <1>2

\* Offsets inside a segment, in the words of the loaders' loops.
LEMMA Distance ==
  ASSUME NEW x \in Nat, NEW w \in Nat, NEW v \in Nat, w <= v
  PROVE  x + (v - w) \in Nat
OBVIOUS

LEMMA FilePart ==
  ASSUME NEW d \in Nat, NEW o \in Nat, NEW n \in Nat, o < n
  PROVE  d + o \in d .. d + n - 1 /\ (d + o) - d = o
OBVIOUS

LEMMA ZeroPart ==
  ASSUME NEW d \in Nat, NEW o \in Nat, NEW n \in Nat, NEW m \in Nat, ~(o < n), o < m
  PROVE  d + o \in d + n .. d + m - 1
OBVIOUS

LEMMA ImagePart ==
  ASSUME NEW s \in Nat, NEW b \in Nat, NEW o \in Nat, NEW n \in Nat, NEW size \in Nat,
         o < n, b + n <= size
  PROVE  s + b + o \in s .. s + size - 1 /\ (s + b + o) - s = b + o
OBVIOUS

\* There is memory behind every frame alloc_low returns.
LEMMA FrameCells ==
  ASSUME NEW f \in Frames, NEW x \in Nat, x <= MaxSpan
  PROVE  f \in Nat /\ f + x \in Cells
<1> DEFINE top == PhysLimit + Stage + ImageSize + MaxSpan + PageSize
<1>1. Cells = 0 .. top /\ top \in Nat /\ MaxSpan \in Nat /\ PageSize \in Nat
  BY LoadConstants
<1> HIDE DEF top
<1>2. f \in Nat /\ f + MaxSpan + PageSize \in Cells
  BY <1>1, KernelLoadAssumption
<1>3. QED
  BY <1>1, <1>2

\* Every byte of a segment has its cell.
LEMMA PlacedInMemory ==
  ASSUME ElfInv, ConfinedInv, pc \in {"load", "map", "entered"}, SizeChecked,
         NEW j \in Occupying, NEW a \in Addresses(phdrs[j])
  PROVE  /\ Placed(a) \in Cells /\ a \in Int /\ a \in virtual_min .. virtual_max - 1
         /\ Placed(a) = Placed(phdrs[j].vaddr) + (a - phdrs[j].vaddr)
         /\ Placed(phdrs[j].vaddr) \in Nat
<1>1. /\ phdrs[j].vaddr \in Nat /\ phdrs[j].memsz \in Nat
      /\ a \in phdrs[j].vaddr .. phdrs[j].vaddr + phdrs[j].memsz - 1
      /\ virtual_min <= phdrs[j].vaddr /\ phdrs[j].vaddr + phdrs[j].memsz <= virtual_max
      /\ virtual_min \in Nat /\ virtual_max \in Nat
  BY SegmentBounds
<1>2. phys \in Nat /\ VirtBase <= virtual_min /\ loader \in {"bios", "uefi"}
  BY DEF ConfinedInv, SpanKnown
<1>3. a \in virtual_min .. virtual_max - 1
  BY <1>1
<1>4. CASE loader = "bios"
  <2>1. virtual_max - VirtBase <= PhysLimit - PhysBase
    BY <1>4 DEF SizeChecked
  <2>2. PhysBase + (a - VirtBase) \in 0..PhysLimit
    BY <1>1, <1>2, <1>3, <2>1, LoadConstants
  <2>3. PhysBase + (a - VirtBase) \in Cells
    BY <2>2, LoadConstants
  <2>4. PhysBase + (phdrs[j].vaddr - VirtBase) \in Nat
    <3>1. VirtBase \in Nat /\ PhysBase \in Nat
      BY LoadConstants
    <3>2. VirtBase <= phdrs[j].vaddr /\ phdrs[j].vaddr \in Nat
      BY <1>1, <1>2, <3>1
    <3>3. QED
      BY <3>1, <3>2, Distance
  <2>5. Placed(a) = Placed(phdrs[j].vaddr) + (a - phdrs[j].vaddr)
    <3>1. phys \in Int /\ virtual_min \in Int /\ a \in Int /\ phdrs[j].vaddr \in Int
      BY <1>1, <1>2
    <3>2. QED
      BY <3>1, PlacedShift
  <2>6. QED
    BY <1>3, <1>4, <2>3, <2>4, <2>5 DEF Placed
<1>5. CASE loader = "uefi"
  <2>1. phys \in Frames /\ virtual_max - virtual_min <= MaxSpan
    BY <1>5 DEF SizeChecked, Span
  <2>2. a - virtual_min \in Nat /\ a - virtual_min <= MaxSpan
    BY <1>1, <1>3, <2>1, LoadConstants
  <2>3. phys + (a - virtual_min) \in Cells
    BY <2>1, <2>2, FrameCells
  <2>4. QED
    BY <1>1, <1>2, <1>3, <1>5, <2>3 DEF Placed
<1>6. QED
  BY <1>2, <1>4, <1>5

LEMMA UnchangedIndexes ==
  ASSUME UNCHANGED phdrs
  PROVE  Occupying' = Occupying /\ \A j : LoadIndex(j)' = LoadIndex(j)
BY DEF Occupying, LoadIndex, Occupies

LEMMA LoadSegmentInPlace ==
  ASSUME ElfInv, ConfinedInv, FiledInv, NEW p \in NextSegment, LoadSegment(p), SegmentFits(p),
         loader = "bios" => EndsBelowStage
  PROVE  SegmentsInPlace' /\ (loader = "bios" => Staged')
<1> DEFINE d == Destination(p)
<1>1. /\ pc = "load" /\ SizeChecked /\ SegmentsInPlace /\ (loader = "bios" => Staged)
      /\ index \in Nat /\ loader \in {"bios", "uefi"}
  BY DEF LoadSegment, FiledInv, ConfinedInv
<1>2. HeaderIntact
  BY <1>1, LoadConstants DEF HeaderIntact, Staged
<1>3. PICK k \in Occupying : p = phdrs[k] /\ LoadIndex(k) = index
  BY <1>2 DEF NextSegment, IndexedSegment, Occupying
<1>4. /\ p.vaddr \in Nat /\ p.memsz \in Nat /\ p.filesz \in Nat /\ p.offset \in Nat
      /\ p.filesz <= p.memsz /\ p.offset + p.filesz <= ImageSize
      /\ Addresses(p) = p.vaddr .. p.vaddr + p.memsz - 1
      /\ virtual_min <= p.vaddr /\ p.vaddr + p.memsz <= virtual_max
      /\ virtual_min \in Nat /\ virtual_max \in Nat /\ Occupies(p)
  BY <1>1, <1>3, SegmentBounds
<1>5. d = Placed(p.vaddr) /\ d \in Nat
  BY <1>1, <1>3, <1>4, DestinationInside, SegmentBounds DEF Destination, Placed
<1>6. loader = "bios" => d + p.memsz <= Stage
  <2>1. SUFFICES ASSUME loader = "bios" PROVE d + p.memsz <= Stage
    OBVIOUS
  <2>2. d = PhysBase + (p.vaddr - VirtBase) /\ PhysBase + (virtual_max - VirtBase) <= Stage
    BY <2>1 DEF Destination, EndsBelowStage
  <2>3. PhysBase \in Nat /\ VirtBase \in Nat /\ Stage \in Nat
    BY LoadConstants
  <2>4. p.vaddr \in Nat /\ p.memsz \in Nat /\ virtual_max \in Nat /\ p.vaddr + p.memsz <= virtual_max
    BY <1>4
  <2>5. QED
    BY <2>2, <2>3, <2>4
<1>7. loader = "bios" => d <= Stage + p.offset
  BY <1>4, <1>5, <1>6, LoadConstants
<1>8. /\ UNCHANGED <<pc, phys, loader, phdrs, virtual_min, virtual_max>> /\ index' = index + 1
      /\ \A a : Placed(a)' = Placed(a)
  BY DEF LoadSegment, elfVars, Placed
<1>9. Occupying' = Occupying /\ \A j : LoadIndex(j)' = LoadIndex(j)
  BY <1>8, UnchangedIndexes
<1> HIDE DEF d
<1>10. ASSUME NEW c \in Cells
       PROVE  /\ c \notin d .. d + p.memsz - 1 => mem'[c] = mem[c]
              /\ c \in d .. d + p.filesz - 1 =>
                   mem'[c] = IF loader = "bios" THEN mem[Stage + p.offset + (c - d)]
                             ELSE p.offset + (c - d)
              /\ c \in d + p.filesz .. d + p.memsz - 1 =>
                   mem'[c] = IF loader = "bios" THEN Zero ELSE mem[c]
  BY <1>7, SegmentWritten DEF d
<1>11. ASSUME NEW a \in Addresses(p)
       PROVE  mem'[Placed(a)] = Content(p, a)
  <2> DEFINE o == a - p.vaddr
  <2>1. Placed(a) \in Cells /\ Placed(a) = d + o
    BY <1>1, <1>3, <1>5, PlacedInMemory
  <2>2. o \in Nat /\ o < p.memsz
    <3>1. p.vaddr \in Nat /\ p.memsz \in Nat /\ a \in p.vaddr .. p.vaddr + p.memsz - 1
      BY <1>4, <1>11
    <3>2. QED
      BY <3>1
  <2>3. Content(p, a) = IF o < p.filesz THEN p.offset + o ELSE Zero
    BY DEF Content
  <2> HIDE DEF o
  <2>4. CASE o < p.filesz
    <3>1. Placed(a) \in d .. d + p.filesz - 1 /\ Placed(a) - d = o
      <4>1. d \in Nat /\ o \in Nat /\ p.filesz \in Nat
        BY <1>4, <1>5, <2>2
      <4>2. d + o \in d .. d + p.filesz - 1 /\ (d + o) - d = o
        BY <2>4, <4>1, FilePart
      <4>3. QED
        BY <2>1, <4>2, Zenon
    <3>2. Stage + p.offset + o \in Stage .. Stage + ImageSize - 1
          /\ (Stage + p.offset + o) - Stage = p.offset + o
      <4>1. Stage \in Nat /\ ImageSize \in Nat
        BY LoadConstants
      <4>2. /\ p.offset \in Nat /\ p.filesz \in Nat /\ p.offset + p.filesz <= ImageSize
            /\ o \in Nat /\ o < p.filesz
        BY <1>4, <2>2, <2>4
      <4>3. QED
        BY <4>1, <4>2, ImagePart
    <3>3. loader = "bios" => mem[Stage + p.offset + o] = p.offset + o
      <4>1. ASSUME loader = "bios"
            PROVE  \A c \in Stage .. Stage + ImageSize - 1 : mem[c] = c - Stage
        BY <1>1, <4>1 DEF Staged
      <4>2. QED
        BY <3>2, <4>1
    <3>4. QED
      BY <1>10, <2>1, <2>3, <2>4, <3>1, <3>3
  <2>5. CASE ~(o < p.filesz)
    <3>1. Placed(a) \in d + p.filesz .. d + p.memsz - 1
      <4>1. d \in Nat /\ o \in Nat /\ p.filesz \in Nat /\ p.memsz \in Nat
        BY <1>4, <1>5, <2>2
      <4>2. d + o \in d + p.filesz .. d + p.memsz - 1
        BY <2>2, <2>5, <4>1, ZeroPart
      <4>3. QED
        BY <2>1, <4>2, Zenon
    <3>2. loader = "uefi" => mem[Placed(a)] = Zero
      <4>1. ~(LoadIndex(k) < index)
        BY <1>1, <1>3
      <4>2. QED
        BY <1>1, <1>3, <4>1 DEF SegmentsInPlace
    <3>3. mem'[Placed(a)] = Zero
      BY <1>1, <1>10, <2>1, <3>1, <3>2
    <3>4. QED
      BY <2>3, <2>5, <3>3
  <2>6. QED
    BY <2>4, <2>5
<1>12. ASSUME NEW j \in Occupying, j # k, NEW a \in Addresses(phdrs[j])
       PROVE  mem'[Placed(a)] = mem[Placed(a)]
  <2>1. Placed(a) \in Cells /\ a \in Int /\ Placed(a) = Placed(p.vaddr) + (a - p.vaddr)
    <3>1. Placed(a) \in Cells /\ a \in Int
      BY <1>1, <1>12, PlacedInMemory
    <3>2. phys \in Int /\ virtual_min \in Int /\ p.vaddr \in Int
      BY <1>4 DEF ConfinedInv
    <3>3. QED
      BY <3>1, <3>2, PlacedShift
  <2>2. a \notin Addresses(p)
    <3>1. Addresses(phdrs[j]) \cap Addresses(phdrs[k]) = {}
      BY <1>1, <1>12 DEF ElfInv, HeadersChecked, Disjoint, Occupying
    <3>2. QED
      BY <1>3, <1>12, <3>1
  <2>3. Placed(a) \notin d .. d + p.memsz - 1
    <3>1. /\ d \in Nat /\ p.vaddr \in Nat /\ p.memsz \in Nat /\ a \in Int
          /\ Placed(a) = d + (a - p.vaddr) /\ a \notin p.vaddr .. p.vaddr + p.memsz - 1
      BY <1>4, <1>5, <2>1, <2>2
    <3>2. d + (a - p.vaddr) \notin d .. d + p.memsz - 1
      BY <3>1
    <3>3. QED
      BY <3>1, <3>2, Zenon
  <2>4. QED
    BY <1>10, <2>1, <2>3
<1>13. ASSUME NEW j \in Occupying, NEW a \in Addresses(phdrs[j])
       PROVE  IF LoadIndex(j) < index + 1 THEN mem'[Placed(a)] = Content(phdrs[j], a)
              ELSE loader = "uefi" => mem'[Placed(a)] = Zero
  <2>1. LoadIndex(j) \in Nat /\ (j # k => LoadIndex(j) # index)
    BY <1>1, <1>3, LoadIndexes
  <2>2. CASE j = k
    BY <1>1, <1>3, <1>11, <1>13, <2>1, <2>2
  <2>3. CASE j # k
    <3>1. LoadIndex(j) < index + 1 <=> LoadIndex(j) < index
      BY <1>1, <2>1, <2>3
    <3>2. QED
      BY <1>1, <1>12, <1>13, <2>3, <3>1 DEF SegmentsInPlace
  <2>4. QED
    BY <2>2, <2>3
<1>14. SegmentsInPlace'
  BY <1>8, <1>9, <1>13 DEF SegmentsInPlace, Content, Addresses
<1>15. ASSUME loader = "bios", NEW c \in Stage .. Stage + ImageSize - 1
       PROVE  mem'[c] = c - Stage
  <2>1. c \in Cells /\ c \notin d .. d + p.memsz - 1
    <3>1. Stage \in Nat /\ ImageSize \in Nat /\ c \in Nat /\ Stage <= c
      BY <1>15, LoadConstants
    <3>2. c \in Cells
      BY <1>15, <3>1, LoadConstants
    <3>3. d \in Nat /\ p.memsz \in Nat /\ d + p.memsz <= Stage
      BY <1>4, <1>5, <1>6, <1>15
    <3>4. QED
      BY <3>1, <3>2, <3>3
  <2>2. QED
    BY <1>1, <1>10, <1>15, <2>1 DEF Staged
<1>16. QED
  BY <1>14, <1>15 DEF Staged

LEMMA PartsUnchanged ==
  ASSUME UNCHANGED <<loader, mem, phys, virtual_min, virtual_max>>
  PROVE  Staged' = Staged /\ SizeChecked' = SizeChecked /\ EndsBelowStage' = EndsBelowStage
         /\ KernelTable' = KernelTable
BY DEF Staged, SizeChecked, EndsBelowStage, KernelTable, Span, PagesFor

LEMMA SegmentsUnchanged ==
  ASSUME UNCHANGED <<loader, mem, phys, virtual_min, phdrs, index>>
  PROVE  SegmentsInPlace' = SegmentsInPlace
<1>1. Occupying' = Occupying /\ \A j : LoadIndex(j)' = LoadIndex(j)
  BY UnchangedIndexes
<1>2. \A a : Placed(a)' = Placed(a)
  BY DEF Placed
<1>3. QED
  BY <1>1, <1>2 DEF SegmentsInPlace, Content, Addresses

LEMMA FiledInitInv ==
  LoadInit => FiledInv
<1>1. SUFFICES ASSUME LoadInit PROVE FiledInv
  OBVIOUS
<1>2. pc = "header" /\ index = 0
  BY <1>1 DEF LoadInit, ElfInit
<1>3. loader = "bios" => Staged
  <2>1. Stage .. Stage + ImageSize - 1 \subseteq Cells
    BY LoadConstants
  <2>2. QED
    BY <1>1, <2>1 DEF LoadInit, Staged
<1>4. QED
  BY <1>2, <1>3 DEF FiledInv

\* Before the loop no segment has had its turn.
LEMMA BiosBeginFiled ==
  ASSUME ElfInv, ConfinedInv, FiledInv, BiosBegin
  PROVE  FiledInv'
<1>1. /\ UNCHANGED <<loader, mem, phys, index, virtual_min, virtual_max, phdrs, load_count>>
      /\ pc = "valid" /\ loader = "bios" /\ index = 0 /\ Staged
      /\ pc' \in {"load", "failed"}
  BY DEF BiosBegin, Fail, elfVars, FiledInv
<1>2. pc' = "load" => SizeChecked
  <2>1. virtual_max \in Int /\ VirtBase \in Int /\ PhysLimit \in Int /\ PhysBase \in Int
    BY LoadConstants DEF ElfInv, ElfTypeOK, Words
  <2>2. QED
    BY <1>1, <2>1 DEF BiosBegin, Fail, SizeChecked
<1>3. SegmentsInPlace
  <2>1. ASSUME NEW j \in Occupying
        PROVE  ~(LoadIndex(j) < index)
    BY <1>1, LoadIndexes
  <2>2. QED
    BY <1>1, <2>1 DEF SegmentsInPlace
<1>4. QED
  BY <1>1, <1>2, <1>3, PartsUnchanged, SegmentsUnchanged DEF FiledInv

LEMMA UefiBeginFiled ==
  ASSUME ElfInv, ConfinedInv, FiledInv, NEW frame \in Frames, UefiBegin(frame)
  PROVE  FiledInv'
<1>1. /\ UNCHANGED <<loader, index, virtual_min, virtual_max, phdrs, load_count>>
      /\ pc = "valid" /\ loader = "uefi" /\ index = 0
      /\ pc' \in {"load", "failed"}
  BY DEF UefiBegin, Fail, elfVars, FiledInv
<1>2. CASE pc' = "failed"
  BY <1>1, <1>2 DEF FiledInv
<1>3. CASE pc' = "load"
  <2>1. /\ ~(Span > MaxSpan) /\ ~(virtual_max <= virtual_min)
        /\ phys' = frame /\ mem' = Filled(mem, frame, PagesFor(Span) * PageSize, Zero)
    BY <1>3 DEF UefiBegin, Fail
  <2>2. /\ virtual_min \in Nat /\ virtual_max \in Nat /\ MaxSpan \in Nat /\ frame \in Nat
        /\ Span \in Nat /\ Span <= MaxSpan /\ Span = virtual_max - virtual_min
    BY <2>1, LoadConstants, KernelLoadAssumption DEF ElfInv, ElfTypeOK, Words, Span
  <2>3. SizeChecked'
    BY <1>1, <2>1, <2>2 DEF SizeChecked, Span
  <2>4. ASSUME NEW j \in Occupying, NEW a \in Addresses(phdrs[j])
        PROVE  mem'[frame + (a - virtual_min)] = Zero /\ ~(LoadIndex(j) < index)
    <3>1. /\ phdrs[j].vaddr \in Nat /\ phdrs[j].memsz \in Nat
          /\ a \in phdrs[j].vaddr .. phdrs[j].vaddr + phdrs[j].memsz - 1
          /\ virtual_min <= phdrs[j].vaddr /\ phdrs[j].vaddr + phdrs[j].memsz <= virtual_max
      BY <1>1, <2>4, SegmentBounds
    <3> DEFINE x == a - virtual_min
    <3>2. x \in Nat /\ x < Span
      BY <2>2, <3>1
    <3> HIDE DEF x
    <3>3. Span <= PagesFor(Span) * PageSize /\ PagesFor(Span) * PageSize \in Nat
      BY <2>2, PagesHold
    <3>4. frame + x \in frame .. frame + PagesFor(Span) * PageSize - 1
      <4>1. x < PagesFor(Span) * PageSize
        BY <2>2, <3>2, <3>3
      <4>2. QED
        BY <2>2, <3>2, <3>3, <4>1, FilePart
    <3>5. frame + x \in Cells
      BY <2>2, <3>2, FrameCells
    <3>6. mem'[frame + x] = Zero
      BY <2>1, <3>4, <3>5 DEF Filled
    <3>7. LoadIndex(j) \in Nat
      BY <1>1, LoadIndexes
    <3>8. QED
      BY <1>1, <3>6, <3>7 DEF x
  <2>5. SegmentsInPlace'
    <3>1. Occupying' = Occupying /\ \A j : LoadIndex(j)' = LoadIndex(j)
      BY <1>1, UnchangedIndexes
    <3>2. \A a : Placed(a)' = frame + (a - virtual_min)
      BY <1>1, <2>1 DEF Placed
    <3>3. QED
      BY <1>1, <2>4, <3>1, <3>2 DEF SegmentsInPlace, Addresses
  <2>6. QED
    BY <1>1, <1>3, <2>3, <2>5 DEF FiledInv
<1>4. QED
  BY <1>1, <1>2, <1>3

LEMMA LoadSegmentFiled ==
  ASSUME ElfInv, ConfinedInv, FiledInv, NEW p \in NextSegment, LoadSegment(p)
  PROVE  FiledInv'
<1>1. CASE ~SegmentFits(p)
  BY <1>1 DEF LoadSegment, Fail, FiledInv
<1>2. CASE SegmentFits(p)
  <2>1. /\ pc = "load" /\ pc' = "load" /\ index' = index + 1 /\ index \in Nat /\ SizeChecked
        /\ UNCHANGED <<loader, phys, virtual_min, virtual_max>>
    BY <1>2 DEF LoadSegment, FiledInv, elfVars
  <2>2. SizeChecked' /\ EndsBelowStage' = EndsBelowStage
    BY <2>1 DEF SizeChecked, EndsBelowStage, Span
  <2>3. (loader = "bios" => EndsBelowStage) => SegmentsInPlace' /\ (loader = "bios" => Staged')
    BY <1>2, LoadSegmentInPlace
  <2>4. QED
    BY <2>1, <2>2, <2>3 DEF FiledInv
<1>3. QED
  BY <1>1, <1>2

LEMMA FiledNextInv ==
  ASSUME ElfInv, ConfinedInv, FiledInv, [LoadNext]_<<pc, elfVars, loadVars>>
  PROVE  FiledInv'
<1>1. CASE Validate
  <2>1. UNCHANGED <<loader, mem, phys, index>> /\ pc \in {"header", "segments"}
        /\ pc' \in {"segments", "rejected", "valid"}
    BY <1>1 DEF Validate, loadVars, ElfNext, HeaderRejected, HeaderAccepted, CheckHeader, Conclude,
       Reject
  <2>2. QED
    BY <2>1 DEF FiledInv, Staged
<1>2. CASE BiosBegin
  BY <1>2, BiosBeginFiled
<1>3. ASSUME NEW frame \in Frames, UefiBegin(frame)
      PROVE  FiledInv'
  BY <1>3, UefiBeginFiled
<1>4. CASE AllocFails \/ ReloadFails
  BY <1>4 DEF AllocFails, ReloadFails, Fail, FiledInv
<1>5. ASSUME NEW p \in NextSegment, LoadSegment(p)
      PROVE  FiledInv'
  BY <1>5, LoadSegmentFiled
<1>6. CASE LoadDone
  <2>1. /\ UNCHANGED <<loader, mem, phys, index, virtual_min, virtual_max, phdrs, load_count>>
        /\ pc = "load" /\ pc' = "map" /\ index = load_count
    BY <1>6 DEF LoadDone, loadVars, elfVars
  <2>2. QED
    BY <2>1, PartsUnchanged, SegmentsUnchanged DEF FiledInv
<1>7. CASE MapKernel
  <2>1. /\ UNCHANGED <<loader, mem, phys, index, virtual_min, virtual_max, phdrs, load_count>>
        /\ pc = "map" /\ pc' = "entered"
        /\ loader # "bios" => page_table' = KernelTable
    BY <1>7 DEF MapKernel, elfVars, KernelTable
  <2>2. QED
    BY <2>1, PartsUnchanged, SegmentsUnchanged DEF FiledInv
<1>8. CASE UNCHANGED <<pc, elfVars, loadVars>>
  <2>1. UNCHANGED <<pc, loader, mem, phys, index, page_table, virtual_min, virtual_max, phdrs,
                    load_count>>
    BY <1>8 DEF loadVars, elfVars
  <2>2. QED
    BY <2>1, PartsUnchanged, SegmentsUnchanged DEF FiledInv
<1>9. QED
  BY <1>1, <1>2, <1>3, <1>4, <1>5, <1>6, <1>7, <1>8 DEF LoadNext

LEMMA FiledInvariant ==
  LoadSpec => []FiledInv
BY ElfInvariant, ConfinedInvariant, FiledInitInv, FiledNextInv, PTL DEF LoadSpec

\* The page of an address in a run of pages that starts at v, and its offset.
LEMMA PageOf ==
  ASSUME NEW n \in Nat \ {0}, NEW v \in Nat, v % n = 0, NEW a \in Nat, NEW k \in Nat,
         v <= a, a < v + k * n
  PROVE  /\ a \div n \in v \div n .. (v \div n) + k - 1
         /\ ((a \div n) - (v \div n)) * n + (a % n) = a - v
         /\ v \div n \in Int /\ a % n \in Int
<1> DEFINE q == a \div n
           r == a % n
           b == v \div n
<1>1. /\ q \in Int /\ r \in 0 .. n - 1 /\ a = n * q + r
      /\ b \in Int /\ v = n * b
  BY DivMod
<1> HIDE DEF q, r, b
<1>2. /\ n * q \in Int /\ n * b \in Int /\ k * n \in Int
      /\ (q - b) * n = n * q - n * b
  BY <1>1, SMT
<1>3. (q - b) * n + r = a - v
  BY <1>1, <1>2
<1>4. b <= q
  <2>1. q - b <= -1 => (q - b) * n <= -n
    BY <1>1, SMT
  <2>2. (q - b) * n > -n
    BY <1>1, <1>2, <1>3
  <2>3. QED
    BY <1>1, <1>2, <2>1, <2>2
<1>5. q <= b + k - 1
  <2>1. q - b >= k => (q - b) * n >= k * n
    BY <1>1, SMT
  <2>2. (q - b) * n < k * n
    BY <1>1, <1>2, <1>3
  <2>3. QED
    BY <1>1, <1>2, <2>1, <2>2
<1>6. QED
  BY <1>1, <1>3, <1>4, <1>5 DEF q, r, b

\* The tables map an address of the kernel to where the loader has put its byte.
LEMMA TranslatePlaced ==
  ASSUME ElfInv, ConfinedInv, FiledInv, pc = "entered",
         loader = "uefi" => virtual_min % PageSize = 0,
         NEW a \in virtual_min .. virtual_max - 1
  PROVE  Translate(a) = Placed(a)
<1>1. CASE loader = "bios"
  BY <1>1 DEF Translate, Placed
<1>2. CASE loader = "uefi"
  <2> DEFINE base == virtual_min \div PageSize
             k == PagesFor(Span)
             n == a \div PageSize
             r == a % PageSize
  <2>1. /\ virtual_min \in Nat /\ virtual_max \in Nat /\ virtual_min < virtual_max
        /\ a \in Nat /\ PageSize \in Nat \ {0} /\ phys \in Nat
    BY LoadConstants DEF ElfInv, ElfTypeOK, Words, ConfinedInv, SpanKnown
  <2>2. Span \in Nat /\ Span = virtual_max - virtual_min
    BY <2>1 DEF Span
  <2>3. k \in Nat /\ k * PageSize \in Nat /\ Span <= k * PageSize
    BY <2>2, PagesHold
  <2> HIDE DEF k
  <2>4. virtual_min <= a /\ a < virtual_min + k * PageSize
    BY <2>1, <2>2, <2>3
  <2>5. /\ n \in base .. base + k - 1 /\ (n - base) * PageSize + r = a - virtual_min
        /\ base \in Int /\ r \in Int
    BY <1>2, <2>1, <2>3, <2>4, PageOf
  <2>6. page_table = [m \in base .. base + k - 1 |-> phys + (m - base) * PageSize]
    BY <1>2 DEF FiledInv, KernelTable, k
  <2> HIDE DEF base, n, r
  <2>7. n \in DOMAIN page_table /\ page_table[n] = phys + (n - base) * PageSize
    BY <2>5, <2>6
  <2>8. n \in Int /\ (n - base) * PageSize \in Int
    BY <2>1, <2>3, <2>5
  <2>9. phys + (n - base) * PageSize + r = phys + (a - virtual_min)
    BY <2>1, <2>5, <2>8
  <2>10. Translate(a) = page_table[n] + r
    BY <1>2, <2>7 DEF Translate, n, r
  <2>11. QED
    BY <1>2, <2>7, <2>9, <2>10 DEF Placed
<1>3. QED
  BY <1>1, <1>2 DEF ConfinedInv

LEMMA EnteredReadable ==
  ASSUME ElfInv, ConfinedInv, FiledInv,
         loader = "bios" => EndsBelowStage, loader = "uefi" => virtual_min % PageSize = 0
  PROVE  KernelReadable
<1>1. SUFFICES ASSUME pc = "entered", NEW j \in 1..phnum, NEW a \in Addresses(phdrs[j])
               PROVE  Translate(a) # Fault /\ mem[Translate(a)] = Content(phdrs[j], a)
  BY DEF KernelReadable, SegmentReadable, Content
<1>2. j \in 1..Len(phdrs) /\ phdrs[j] \in ProgramHeaders
  BY <1>1 DEF ElfInv, ElfTypeOK
<1>3. j \in Occupying
  BY <1>2, NotOccupying DEF Occupying
<1>4. SizeChecked /\ SegmentsInPlace /\ index = load_count
  BY <1>1 DEF FiledInv
<1>5. LoadIndex(j) < index
  BY <1>1, <1>3, <1>4, LoadIndexes
<1>6. mem[Placed(a)] = Content(phdrs[j], a)
  BY <1>3, <1>4, <1>5 DEF SegmentsInPlace
<1>7. Placed(a) \in Cells /\ a \in virtual_min .. virtual_max - 1
  BY <1>1, <1>3, <1>4, PlacedInMemory
<1>8. Translate(a) = Placed(a)
  BY <1>1, <1>7, TranslatePlaced
<1>9. Placed(a) # Fault
  BY <1>7, LoadConstants DEF Fault
<1>10. QED
  BY <1>6, <1>8, <1>9

\* load_elf and the page tables of either loader, on every image the validator
\* accepts: the kernel that is entered reads every byte of every segment as the
\* file has it and zero behind the file's part, in the BIOS loader if the kernel
\* ends below its staged image, in the UEFI loader if it starts on a page.
THEOREM KernelLoadedAsFiled ==
  LoadSpec => []LoadedAsFiled
<1>1. ElfInv /\ ConfinedInv /\ FiledInv => LoadedAsFiled
  <2>1. SUFFICES ASSUME ElfInv, ConfinedInv, FiledInv PROVE LoadedAsFiled
    OBVIOUS
  <2>2. loader \in {"bios", "uefi"}
    BY <2>1 DEF ConfinedInv
  <2>3. QED
    BY <2>1, <2>2, EnteredReadable DEF LoadedAsFiled
<1>2. QED
  BY <1>1, ElfInvariant, ConfinedInvariant, FiledInvariant, PTL
=============================================================================
