---------------------------------- MODULE Alu ----------------------------------
(***************************************************************************)
(* The arithmetic of Alu<T> (logic/alu.h) for a word of Width bits: Alu32  *)
(* has Width = 32, Alu8 has 8.  Half is the weight of the most significant *)
(* bit.                                                                    *)
(*                                                                         *)
(* A shift by at least the width of its operand is undefined in the host   *)
(* language.  host is what the build makes of it: "masks" takes the amount *)
(* modulo the width, as the shift instruction of most hosts does, "clears" *)
(* shifts every bit out.                                                   *)
(***************************************************************************)
EXTENDS InstrFormat

CONSTANTS Width, Half
ASSUME HalfAssumption == Half \in Nat \ {0}
Power(b) == 2^b
ASSUME WidthAssumption == Width \in Nat \ {0} /\ Half = Power(Width - 1)
\* What defines exponentiation, which the provers know for numerals only.
ASSUME PowerAssumption ==
    \A b \in 0 .. 2 * Width : Power(b) \in Nat \ {0} /\ Power(b + 1) = 2 * Power(b)

Word == 0 .. 2 * Half - 1
Truncate(x) == x % (2 * Half)
Negative(x) == x >= Half
Signed(x) == IF Negative(x) THEN x - 2 * Half ELSE x
Not(x) == 2 * Half - 1 - x
AsBit(b) == IF b THEN 1 ELSE 0
Hosts == {"masks", "clears"}

\* Mutant: overflow is told from the first operand alone.
AddWithCarryOneSign(x, y, carry_in) ==
    LET value == (x + y + AsBit(carry_in)) % (2 * Half)
    IN  [value |-> value, carry_out |-> x + y + AsBit(carry_in) >= 2 * Half,
         overflow |-> Negative(x) # Negative(value)]
\* Mutant: a sum of exactly 2^Width gives no carry.
AddWithCarryLate(x, y, carry_in) ==
    LET value == (x + y + AsBit(carry_in)) % (2 * Half)
    IN  [value |-> value, carry_out |-> x + y + AsBit(carry_in) > 2 * Half,
         overflow |-> Negative(x) # Negative(value) /\ Negative(y) # Negative(value)]

AddWithCarry(x, y, carry_in) ==
    LET unsigned_sum == x + y + AsBit(carry_in)
        value == IF unsigned_sum >= 2 * Half THEN unsigned_sum - 2 * Half ELSE unsigned_sum
    IN  [value |-> value,
         carry_out |-> unsigned_sum >= 2 * Half,
         overflow |-> Negative(x) # Negative(value) /\ Negative(y) # Negative(value)]

(***************************************************************************)
(* Bitwise operations.                                                     *)
(***************************************************************************)
Ones(x) == {b \in 0 .. Width - 1 : Bit(x, b) = 1}
FromOnes(bits) == CHOOSE x \in Word : Ones(x) = bits
OR(x, y) == FromOnes(Ones(x) \cup Ones(y))
EOR(x, y) == FromOnes((Ones(x) \ Ones(y)) \cup (Ones(y) \ Ones(x)))
AND(x, y) == FromOnes(Ones(x) \cap Ones(y))

(***************************************************************************)
(* Shifts.  LSL_C and LSR_C shift in a type of twice the width and cut     *)
(* result and carry out of it.                                             *)
(***************************************************************************)
ShiftResult(result, carry_out) == [result |-> result, carry_out |-> carry_out]

HostLeft(x, shift, width, host) ==
    IF shift >= width /\ host = "clears" THEN 0 ELSE (x * Power(shift % width)) % Power(width)
HostRight(x, shift, width, host) ==
    x \div Power(IF shift < width THEN shift ELSE IF host = "masks" THEN shift % width ELSE width)

LSL_C(x, shift, host) ==
    LET extended_x == HostLeft(x, shift, 2 * Width, host)
    IN  ShiftResult(Truncate(extended_x), Bit(extended_x, Width) = 1)
LSR_C(x, shift, host) ==
    LET extended_x == HostRight(x * Power(Width), shift, 2 * Width, host)
    IN  ShiftResult(extended_x \div Power(Width), Bit(extended_x, Width - 1) = 1)
ASR_C(x, shift, host) ==
    ShiftResult(Truncate(HostRight(Signed(x), shift, Width, host)),
                HostRight(Signed(x), shift - 1, Width, host) % 2 = 1)
ROR_C(x, shift) ==
    LET m == shift % Width
        result == IF m = 0 THEN x ELSE x \div Power(m) + (x % Power(m)) * Power(Width - m)
    IN  ShiftResult(result, Negative(result))
RXR_C(x, carry_in) == ShiftResult(x \div 2 + AsBit(carry_in) * Half, x % 2 = 1)

ROR(x, shift) == IF shift = 0 THEN x ELSE ROR_C(x, shift).result

Shift_C(value, type, amount, carry_in, host) ==
    CASE amount = 0 -> ShiftResult(value, carry_in)
      [] amount # 0 /\ type = "LSL" -> LSL_C(value, amount, host)
      [] amount # 0 /\ type = "LSR" -> LSR_C(value, amount, host)
      [] amount # 0 /\ type = "ASR" -> ASR_C(value, amount, host)
      [] amount # 0 /\ type = "ROR" -> ROR_C(value, amount)
      [] amount # 0 /\ type = "RRX" -> RXR_C(value, carry_in)
==============================================================================
