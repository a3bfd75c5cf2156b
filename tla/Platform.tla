------------------------------ MODULE Platform ------------------------------
(***************************************************************************)
(* prepare_native_platform: what stage 2 learns of the machine for the     *)
(* kernel, call by call (collect_e820, try_vbe_mode and setup_vbe of       *)
(* boot/stage2.S), and the readers of its result in boot/stage2_pm.c       *)
(* (staging_range_is_usable, fill_boot_info).  The firmware's map and      *)
(* modes are the environment; each of its calls may fail.  The buffers lie *)
(* in low memory that nobody clears.                                       *)
(***************************************************************************)
EXTENDS Integers, Sequences

CONSTANTS
  MaxEntries,    \* 128, the entries the buffer at 0x59000 is used for
  MaxReported,   \* bound on the entries the firmware reports
  AddrLimit,     \* 2^64; sums of addresses wrap
  Entries,       \* E820 entries the firmware may report
  Modes,         \* the VBE modes setup_vbe tries, in order
  StageStart, StageEnd   \* KERNEL_IMAGE_ADDR and its end

EntryType == [base : 0 .. AddrLimit - 1, length : 0 .. AddrLimit - 1, usable : BOOLEAN]

ASSUME PlatformAssumption ==
  /\ MaxEntries \in Nat \ {0} /\ MaxReported \in Nat
  /\ AddrLimit \in Nat
  /\ Entries \subseteq EntryType
  /\ Modes \in Seq(STRING) /\ Modes # <<>>
  /\ StageStart \in Nat /\ StageEnd \in Nat
  /\ StageStart < StageEnd /\ StageEnd < AddrLimit

Nothing == "none"

VARIABLES
  setup,         \* where prepare_native_platform is
  reported,      \* what the firmware has said, an entry per successful call
  buffer,        \* the entries at 0x59000
  e820_count,
  di,            \* entry the next call writes
  tries,         \* modes tried so far
  vbe_selected_mode,
  vbe_info,      \* mode described by the block at 0x5a000
  screen         \* mode the adapter is in

e820 == <<reported, buffer, e820_count, di>>
vbe == <<tries, vbe_selected_mode, vbe_info, screen>>
platformVars == <<setup, e820, vbe>>

PlatformInit ==
  /\ setup = "idle"
  /\ reported = <<>> /\ buffer = <<>> /\ e820_count = 0 /\ di = 1
  /\ tries = 0 /\ vbe_selected_mode = Nothing /\ vbe_info = Nothing /\ screen = "text"

\* collect_e820 is entered; it resets its count.
BeginPlatform ==
  /\ setup' = "e820"
  /\ reported' = <<>> /\ e820_count' = 0 /\ di' = 1
  /\ tries' = 0
  /\ UNCHANGED <<buffer, vbe_selected_mode, vbe_info, screen>>

Put(seq, i, e) == [k \in 1..(IF i > Len(seq) THEN i ELSE Len(seq)) |->
                     IF k = i THEN e ELSE seq[k]]

Full(n) == n >= MaxEntries

\* One call of INT 15h, E820 that returns an entry; ebx: there are more.
E820Entry(e, ebx) ==
  /\ setup = "e820"
  /\ Len(reported) < MaxReported
  /\ reported' = Append(reported, e)
  /\ buffer' = Put(buffer, di, e)
  /\ e820_count' = e820_count + 1
  /\ IF Full(e820_count + 1) \/ ~ebx
     THEN setup' = "vbe" /\ UNCHANGED di
     ELSE di' = di + 1 /\ UNCHANGED setup
  /\ UNCHANGED vbe

\* The call returns carry: the end of the map, unless it is the first call.
E820Carry ==
  /\ setup = "e820"
  /\ setup' = IF e820_count # 0 THEN "vbe" ELSE "failed"
  /\ UNCHANGED <<e820, vbe>>

\* The call returns no signature or a short entry, which it may have written.
E820Bad ==
  /\ setup = "e820"
  /\ setup' = "failed"
  /\ \E e \in Entries : buffer' = Put(buffer, di, e)
  /\ UNCHANGED <<reported, e820_count, di, vbe>>

\* Mutant: the mode is only noted when the next one is tried.
SelectedModeLate(n) == Modes[IF n > 1 THEN n - 1 ELSE 1]

SelectedMode(n) == Modes[n]

\* setup_vbe notes the next mode and try_vbe_mode asks for its description.
TryVbeMode(suitable) ==
  /\ setup = "vbe" /\ tries < Len(Modes)
  /\ tries' = tries + 1
  /\ vbe_selected_mode' = SelectedMode(tries + 1)
  /\ vbe_info' = Modes[tries + 1]
  /\ setup' = IF suitable THEN "set_mode" ELSE IF tries + 1 = Len(Modes) THEN "failed" ELSE "vbe"
  /\ UNCHANGED <<e820, screen>>

\* Function 4F01h fails and leaves the block alone.
TryVbeModeFails ==
  /\ setup = "vbe" /\ tries < Len(Modes)
  /\ tries' = tries + 1
  /\ vbe_selected_mode' = SelectedMode(tries + 1)
  /\ setup' = IF tries + 1 = Len(Modes) THEN "failed" ELSE "vbe"
  /\ UNCHANGED <<e820, vbe_info, screen>>

SetMode ==
  /\ setup = "set_mode"
  /\ screen' = vbe_selected_mode
  /\ setup' = "ready"
  /\ UNCHANGED <<e820, tries, vbe_selected_mode, vbe_info>>

SetModeFails ==
  /\ setup = "set_mode"
  /\ setup' = "failed"
  /\ UNCHANGED <<e820, vbe>>

EntryEnd(e) == (e.base + e.length) % AddrLimit

\* Mutant: an entry that reaches into the range is enough.
HoldsStageStart(e) == e.usable /\ StageStart >= e.base /\ StageStart < EntryEnd(e)

HoldsStage(e) ==
  /\ e.usable
  /\ EntryEnd(e) >= e.base
  /\ StageStart >= e.base /\ StageEnd <= EntryEnd(e)

StagingRangeIsUsable == \E i \in 1..e820_count : HoldsStage(buffer[i])

\* The memory map and framebuffer that fill_boot_info points the kernel to.
BootInfo == [memory_map |-> SubSeq(buffer, 1, e820_count), framebuffer |-> vbe_info]

PlatformNext ==
  \/ \E e \in Entries, ebx \in BOOLEAN : E820Entry(e, ebx)
  \/ E820Carry
  \/ E820Bad
  \/ \E suitable \in BOOLEAN : TryVbeMode(suitable)
  \/ TryVbeModeFails
  \/ SetMode
  \/ SetModeFails
=============================================================================
