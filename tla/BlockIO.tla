------------------------------ MODULE BlockIO -------------------------------
(***************************************************************************)
(* How 32-bit code reads the disk: bios_block_read_bounced                 *)
(* (boot/stage2_pm.c) splits a read into pieces of the bounce buffer, and  *)
(* bios_block.S drops to real mode for each INT 13h and comes back.        *)
(* A sector's content is its number.                                       *)
(***************************************************************************)
EXTENDS Integers, Sequences

CONSTANTS
  BounceSectors, \* BIOS_BOUNCE_SECTORS
  BounceAddr,    \* BIOS_BOUNCE_ADDR
  SectorSize,    \* 512
  LowMemory,     \* 0x100000, where real-mode addresses end
  SegmentBytes,  \* 0x10000, where an offset wraps
  Lbas, ReadCounts,      \* arguments of bios_block_read_bounced
  Counts, Buffers        \* arguments of direct calls of the thunk

ASSUME BlockIOAssumption ==
  /\ {BounceSectors, SectorSize, LowMemory, SegmentBytes} \subseteq Nat \ {0}
  /\ BounceAddr \in Nat
  /\ Lbas \cup ReadCounts \cup Counts \cup Buffers \subseteq Nat
  /\ LowMemory <= 16 * 65536                  \* segments have 16 bits
  /\ 127 * SectorSize + 15 <= SegmentBytes    \* 65039 bytes in the code

VARIABLES
  io,
  call,          \* the bounced read under way: lba and sector_count
  lba, remaining,        \* its loop variables
  destination,   \* sectors copied to the caller's buffer
  bounce,        \* sectors in the bounce buffer
  operation, count, buffer,      \* arguments of the thunk
  dap,           \* disk address packet: lba, count, segment, offset
  mode,          \* "pm32", "pm16" or "real"
  interrupts,    \* the interrupt flag
  bios_status,
  io_result         \* of the outermost call

ioVars == <<io, call, lba, remaining, destination, bounce, operation, count,
          buffer, dap, mode, interrupts, bios_status, io_result>>
readVars == <<call, lba, remaining, destination>>
thunkVars == <<operation, count, buffer>>

NoCall == [lba |-> 0, sector_count |-> 0]

IoInit ==
  /\ io = "idle"
  /\ call = NoCall /\ lba = 0 /\ remaining = 0 /\ destination = <<>>
  /\ bounce = <<>>
  /\ operation = "read" /\ count = 0 /\ buffer = 0
  /\ dap = [lba |-> 0, count |-> 1, segment |-> 0, offset |-> 0]
  /\ mode = "pm32" /\ interrupts = FALSE
  /\ bios_status = 1
  /\ io_result = "none"

\* bios_block_read_bounced is entered; zero sectors are refused.
ReadBounced(first, n) ==
  /\ io = "idle"
  /\ call' = [lba |-> first, sector_count |-> n]
  /\ lba' = first /\ remaining' = n /\ destination' = <<>>
  /\ IF n = 0 THEN io_result' = "failed" /\ UNCHANGED io
     ELSE io_result' = "none" /\ io' = "loop"
  /\ UNCHANGED <<bounce, thunkVars, dap, mode, interrupts, bios_status>>

Chunk == IF remaining > BounceSectors THEN BounceSectors ELSE remaining

\* One turn of the loop calls the thunk.
ReadChunk ==
  /\ io = "loop" /\ remaining # 0
  /\ io' = "arguments"
  /\ operation' = "read" /\ count' = Chunk /\ buffer' = BounceAddr
  /\ UNCHANGED <<readVars, bounce, dap, mode, interrupts, bios_status, io_result>>

\* Mutant: the next piece starts where this one did.
NextLbaSame == call.lba

NextLba == lba + Chunk

\* The thunk came back with success: the piece is copied out.
CopyChunk ==
  /\ io = "returned" /\ call # NoCall
  /\ bios_status = 0
  /\ destination' = destination \o SubSeq(bounce, 1, Chunk)
  /\ lba' = NextLba
  /\ remaining' = remaining - Chunk
  /\ io' = "loop"
  /\ UNCHANGED <<call, bounce, thunkVars, dap, mode, interrupts, bios_status, io_result>>

Returns(r) ==
  /\ io' = "idle"
  /\ io_result' = r
  /\ UNCHANGED <<readVars, bounce, thunkVars, dap, mode, interrupts, bios_status>>

ReadFails == io = "returned" /\ call # NoCall /\ bios_status # 0 /\ Returns("failed")

ReadDone == io = "loop" /\ remaining = 0 /\ Returns("ok")

\* A caller that has its own buffer in low memory, as the health code does.
Direct(op, n, b) ==
  /\ io = "idle"
  /\ io' = "arguments"
  /\ call' = NoCall /\ lba' = 0 /\ remaining' = 0 /\ destination' = <<>>
  /\ operation' = op /\ count' = n /\ buffer' = b
  /\ io_result' = "none"
  /\ UNCHANGED <<bounce, dap, mode, interrupts, bios_status>>

DirectDone == io = "returned" /\ call = NoCall /\ Returns(IF bios_status = 0 THEN "ok" ELSE "failed")

\* Mutant: a count that fills a segment is let through.
ArgumentsValidInclusive ==
  /\ count \in 1..128
  /\ buffer < LowMemory
  /\ buffer + count * SectorSize <= LowMemory

\* The checks of bios_block_common.
ArgumentsValid ==
  /\ count \in 1..127
  /\ buffer < LowMemory
  /\ buffer + count * SectorSize <= LowMemory

ArgumentError ==
  /\ io = "arguments" /\ ~ArgumentsValid
  /\ Returns("failed")

\* bios_block_common fills the packet and jumps to the 16-bit segment.
FillPacket ==
  /\ io = "arguments" /\ ArgumentsValid
  /\ dap' = [lba |-> lba, count |-> count, segment |-> buffer \div 16, offset |-> buffer % 16]
  /\ mode' = "pm16"
  /\ io' = "pm16"
  /\ UNCHANGED <<readVars, bounce, thunkVars, interrupts, bios_status, io_result>>

\* bios_pm16_entry up to the far jump.
LeaveProtectedMode ==
  /\ io = "pm16"
  /\ mode' = "real"
  /\ io' = "real"
  /\ UNCHANGED <<readVars, bounce, thunkVars, dap, interrupts, bios_status, io_result>>

\* bios_real_mode: segments, stack, sti.
EnableInterrupts ==
  /\ io = "real"
  /\ interrupts' = TRUE
  /\ io' = "int13"
  /\ UNCHANGED <<readVars, bounce, thunkVars, dap, mode, bios_status, io_result>>

SectorRun(first, n) == [k \in 1..n |-> first + k - 1]

\* INT 13h succeeds.
Int13 ==
  /\ io = "int13"
  /\ bounce' = IF operation = "read" /\ buffer = BounceAddr THEN SectorRun(dap.lba, dap.count)
               ELSE bounce
  /\ bios_status' = 0
  /\ io' = "cli"
  /\ UNCHANGED <<readVars, thunkVars, dap, mode, interrupts, io_result>>

\* INT 13h returns carry after some of the sectors.
Int13Fails ==
  /\ io = "int13"
  /\ bounce' \in IF operation = "read" /\ buffer = BounceAddr
                 THEN {bounce, SectorRun(dap.lba, dap.count \div 2)} ELSE {bounce}
  /\ bios_status' = 1
  /\ io' = "cli"
  /\ UNCHANGED <<readVars, thunkVars, dap, mode, interrupts, io_result>>

DisableInterrupts ==
  /\ io = "cli"
  /\ interrupts' = FALSE
  /\ io' = "resume"
  /\ UNCHANGED <<readVars, bounce, thunkVars, dap, mode, bios_status, io_result>>

\* CR0, the far jump and bios_pm32_resume.
EnterProtectedMode ==
  /\ io = "resume"
  /\ mode' = "pm32"
  /\ io' = "returned"
  /\ UNCHANGED <<readVars, bounce, thunkVars, dap, interrupts, bios_status, io_result>>

IoNext ==
  \/ \E first \in Lbas, n \in ReadCounts : ReadBounced(first, n)
  \/ ReadChunk
  \/ CopyChunk
  \/ ReadFails
  \/ ReadDone
  \/ \E op \in {"read", "write"}, n \in Counts, b \in Buffers : Direct(op, n, b)
  \/ DirectDone
  \/ ArgumentError
  \/ FillPacket
  \/ LeaveProtectedMode
  \/ EnableInterrupts
  \/ Int13
  \/ Int13Fails
  \/ DisableInterrupts
  \/ EnterProtectedMode

IoSpec == IoInit /\ [][IoNext]_ioVars
-----------------------------------------------------------------------------
\* A bounced read that returns 0 has delivered every sector asked for, each once
\* and in order, however many pieces it took and whatever calls came before.
ReadDelivers ==
  (io_result = "ok" /\ call # NoCall) => destination = SectorRun(call.lba, call.sector_count)

\* The packet INT 13h is given stays below 1 MiB and inside its segment, where
\* the offset would wrap, and names the buffer the caller meant.
PacketInSegment ==
  io = "int13" =>
    /\ dap.segment * 16 + dap.offset = buffer
    /\ dap.segment < 65536
    /\ dap.offset + dap.count * SectorSize <= SegmentBytes
    /\ buffer + dap.count * SectorSize <= LowMemory

\* Interrupts are on only in real mode: protected mode has no interrupt table.
InterruptsOnlyReal == interrupts => mode = "real"

\* The thunk calls the BIOS the way INT 13h requires, whatever was asked of it:
\* with a packet it can serve and interrupts only where they can be served.
ThunkSound == PacketInSegment /\ InterruptsOnlyReal
=============================================================================
