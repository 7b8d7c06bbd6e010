------------------------------ MODULE StackFrame ------------------------------
(***************************************************************************)
(* The stack pointer arithmetic of PushStack and PopStack                  *)
(* (logic/exceptions_ops.h): a frame of eight words, aligned to eight      *)
(* bytes when CCR.STKALIGN is set, bit 9 of the stacked xPSR remembering   *)
(* whether a word of padding was inserted.  Addresses are unsigned and     *)
(* wrap at AddrMod (2^32 in the code); Wrap is arithmetic modulo AddrMod   *)
(* for results that leave the range by less than AddrMod.                  *)
(***************************************************************************)
EXTENDS Integers

CONSTANT AddrMod

ASSUME AddrModAssumption == AddrMod \in Nat /\ AddrMod >= 64 /\ AddrMod % 8 = 0

Address == {a \in 0 .. AddrMod - 1 : a % 4 = 0}

Wrap(a) == IF a < 0 THEN a + AddrMod
           ELSE IF a >= AddrMod THEN a - AddrMod ELSE a

FrameSize == 32

Bit2(a) == (a \div 4) % 2

\* frameptralign = SP<2> AND forcealign
FramePtrAlign(sp, forcealign) == IF forcealign = 1 THEN Bit2(sp) ELSE 0

\* (SP - framesize) AND spmask
PushedSP(sp, forcealign) ==
  LET low == Wrap(sp - FrameSize)
  IN  IF forcealign = 1 /\ Bit2(low) = 1 THEN low - 4 ELSE low

\* Mutant: the padding word is not given back.
PoppedSPNoPad(sp, align, forcealign) == Wrap(sp + FrameSize)

\* (SP + framesize) OR spmask, spmask from bit 9 of the stacked xPSR
PoppedSP(sp, align, forcealign) ==
  LET high == Wrap(sp + FrameSize)
  IN  IF align = 1 /\ forcealign = 1 /\ Bit2(high) = 0 THEN high + 4 ELSE high
=============================================================================
