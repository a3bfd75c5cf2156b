------------------------------ MODULE Runtime32 ------------------------------
(***************************************************************************)
(* udivmod64 of boot/runtime32.c: the shift-and-subtract division that     *)
(* 32-bit code is linked against for every 64-bit / and %.  The width is a *)
(* parameter; the code has Width = 64.  FAT32 and GPT arithmetic rest on   *)
(* it.                                                                     *)
(***************************************************************************)
EXTENDS Integers

CONSTANTS
  Width,
  Weight      \* Weight[i] is 1 << i

ASSUME WidthAssumption ==
  /\ Width \in Nat \ {0}
  /\ Weight \in [0..Width -> Nat \ {0}]
  /\ Weight[0] = 1
  /\ \A i \in 1..Width : Weight[i] = 2 * Weight[i - 1]

Modulus == Weight[Width]
Operands   == 0 .. Modulus - 1

VARIABLES numerator, denominator, quotient, rem, turn, done

divideVars == <<numerator, denominator, quotient, rem, turn, done>>

DivideStart ==
  /\ quotient = 0
  /\ rem = 0
  /\ turn = 0
  /\ done = FALSE

DivideInit == numerator \in Operands /\ denominator \in Operands /\ DivideStart

DivideByZero ==
  /\ ~done
  /\ denominator = 0
  /\ done' = TRUE
  /\ UNCHANGED <<numerator, denominator, quotient, rem, turn>>

\* The bit the loop looks at in its i-th turn, counted from the top.
Bit     == Weight[Width - 1 - turn]

NextBit == (numerator \div Bit) % 2

\* rem << 1 | bit.
Shifted == (2 * rem + NextBit) % Modulus

Carry == 2 * rem >= Modulus

\* Mutant: a remainder equal to the denominator is kept.
TakesAbove == Carry \/ Shifted > denominator

Takes == Carry \/ Shifted >= denominator

Reduced == (Shifted - denominator) % Modulus

Step ==
  /\ ~done
  /\ denominator # 0
  /\ turn < Width
  /\ rem' = IF Takes THEN Reduced ELSE Shifted
  /\ quotient' = IF Takes THEN quotient + Bit ELSE quotient
  /\ turn' = turn + 1
  /\ UNCHANGED <<numerator, denominator, done>>

Return ==
  /\ ~done
  /\ denominator # 0
  /\ turn = Width
  /\ done' = TRUE
  /\ UNCHANGED <<numerator, denominator, quotient, rem, turn>>

DivideNext == DivideByZero \/ Step \/ Return

DivideSpec == DivideInit /\ [][DivideNext]_divideVars
-----------------------------------------------------------------------------
\* After i turns the loop has divided the i leading bits of the numerator: the
\* quotient's bits so far and rem satisfy the division identity for them.
PrefixDivided ==
  denominator # 0 =>
    LET low == Weight[Width - turn]
    IN  /\ rem < denominator
        /\ quotient % low = 0
        /\ numerator \div low = (quotient \div low) * denominator + rem

\* The remainder never needs the bit that the shift drops, so that no digit of
\* the quotient hangs on the carry test of udivmod64.
NoCarry == turn < Width => 2 * rem + NextBit < Modulus

\* __udivdi3 and __umoddi3 return quotient and remainder for every pair of
\* words, and 0 for a zero denominator.
Returned ==
  done =>
    IF denominator = 0 THEN quotient = 0 /\ rem = 0
    ELSE /\ quotient = numerator \div denominator
         /\ rem = numerator % denominator

\* The loop of udivmod64 divides: at every turn, by the identity for the bits
\* read so far and without the dropped bit, and in what it returns.
DivisionExact == PrefixDivided /\ NoCarry /\ Returned
=============================================================================
