-------------------------------- MODULE InstrOps -------------------------------
(***************************************************************************)
(* The operations the executor's templates are instantiated with           *)
(* (executor/instr/*.h): one operator per template, a case per operation,  *)
(* from operand values to the OpResult that is written and may set flags.  *)
(* apsr is [n, z, c, v]; an operation that leaves C or V alone passes the  *)
(* flag of the APSR on.                                                    *)
(***************************************************************************)
EXTENDS Alu, ExecutorTable

OpResult(value, carry_out, overflow) ==
    [value |-> Truncate(value), carry_out |-> carry_out, overflow |-> overflow]
KeepsFlags(apsr, value) == OpResult(value, apsr.c, apsr.v)
ClearsFlags(value) == OpResult(value, FALSE, FALSE)
Sum(x, y, carry_in) ==
    LET sum == AddWithCarry(x, y, carry_in)
    IN  OpResult(sum.value, sum.carry_out, sum.overflow)
ImmCarryOut(apsr, imm) ==
    IF imm.carry_out = "apsr" THEN apsr.c ELSE imm.carry_out = "set"

\* An amount of 32 is the width of a register.
Shifted(apsr, m, shift_res, host) ==
    Shift_C(m, shift_res.type, IF shift_res.value = 32 THEN Width ELSE shift_res.value, apsr.c, host)

UnaryOp(op, apsr, m) ==
    CASE op = "Clz1Op" -> ClearsFlags(Cardinality({b \in 0 .. Width - 1 : m < Power(b)}))
      [] op = "Mov1Op" -> KeepsFlags(apsr, m)
      [] op = "Rrx1Op" -> LET rrx == Shift_C(m, "RRX", 1, apsr.c, "masks")
                          IN  OpResult(rrx.result, rrx.carry_out, apsr.v)

ShiftByRegister(apsr, n, type, m, host) ==
    LET shift == Shift_C(n, type, m % 256, apsr.c, host)
    IN  OpResult(shift.result, shift.carry_out, apsr.v)

\* The host's signed division truncates towards zero.
SignedQuotient(n, m) ==
    LET Magnitude(x) == IF x < 0 THEN -x ELSE x
        quotient == Magnitude(Signed(n)) \div Magnitude(Signed(m))
    IN  IF Negative(n) = Negative(m) THEN quotient ELSE -quotient

BinaryOp(op, apsr, n, m, host) ==
    CASE op = "Lsr2Op" -> ShiftByRegister(apsr, n, "LSR", m, host)
      [] op = "Asr2Op" -> ShiftByRegister(apsr, n, "ASR", m, host)
      [] op = "Lsl2Op" -> ShiftByRegister(apsr, n, "LSL", m, host)
      [] op = "Mul2Op" -> KeepsFlags(apsr, n * m)
      [] op = "UDiv2Op" -> KeepsFlags(apsr, IF m = 0 THEN 0 ELSE n \div m)
      [] op = "SDiv2Op" -> KeepsFlags(apsr, IF m = 0 THEN 0 ELSE SignedQuotient(n, m))

BinaryImmOp(op, apsr, n, imm32) ==
    LET imm == Truncate(imm32)
    IN  CASE op = "Add1ImmOp" -> Sum(n, imm, FALSE)
          [] op = "Adc1ImmOp" -> Sum(n, imm, apsr.c)
          [] op = "Sub1ImmOp" -> Sum(n, Not(imm), TRUE)
          [] op = "Sbc1ImmOp" -> Sum(n, Not(imm), apsr.c)
          [] op = "Rsb1ImmOp" -> Sum(Not(n), imm, TRUE)

BinaryNullImmOp(op, n, imm32) ==
    LET imm == Truncate(imm32)
    IN  CASE op = "Cmp1ImmOp" -> Sum(n, Not(imm), TRUE)
          [] op = "Cmn1ImmOp" -> Sum(n, imm, FALSE)

RotationOp(op, m, rotation) ==
    LET rotated == ROR(m, rotation)
    IN  ClearsFlags(CASE op = "Uxtb1Rotation" -> rotated % 256
                      [] op = "Sxtb1Rotation" -> SignExtend(rotated % 256, 7)
                      [] op = "Uxth1Rotation" -> rotated % 65536
                      [] op = "Sxth1Rotation" -> SignExtend(rotated % 65536, 15))

BinaryShiftOp(op, apsr, m, shift_res, host) ==
    LET Typed(type) == Shifted(apsr, m, [shift_res EXCEPT !.type = type], host)
        any == Shifted(apsr, m, shift_res, host)
    IN  CASE op = "Asr1ShiftOp" -> OpResult(Typed("ASR").result, Typed("ASR").carry_out, apsr.v)
          [] op = "Lsl1ShiftOp" -> OpResult(Typed("LSL").result, Typed("LSL").carry_out, apsr.v)
          [] op = "Lsr1ShiftOp" -> OpResult(Typed("LSR").result, Typed("LSR").carry_out, apsr.v)
          [] op = "Mvn1ShiftOp" -> OpResult(Not(any.result), any.carry_out, apsr.v)

TernaryOp(op, apsr, n, m, a) ==
    CASE op = "Mls3Op" -> ClearsFlags(a - n * m)
      [] op = "Mla3Op" -> KeepsFlags(apsr, n * m + a)

TernaryShiftOp(op, apsr, n, m, shift_res, host) ==
    LET shifted == Shifted(apsr, m, shift_res, host)
        Logical(value) == OpResult(value, shifted.carry_out, apsr.v)
    IN  CASE op = "Eor2ShiftOp" -> Logical(EOR(n, shifted.result))
          [] op = "Orr2ShiftOp" -> Logical(OR(n, shifted.result))
          [] op = "And2ShiftOp" -> Logical(AND(n, shifted.result))
          [] op = "Bic2ShiftOp" -> Logical(AND(n, Not(shifted.result)))
          [] op = "Sbc2ShiftOp" -> Sum(n, Not(shifted.result), apsr.c)
          [] op = "Sub2ShiftOp" -> Sum(n, Not(shifted.result), TRUE)
          [] op = "Rsb2ShiftOp" -> Sum(Not(n), shifted.result, TRUE)
          [] op = "Add2ShiftOp" -> Sum(n, shifted.result, FALSE)
          [] op = "Adc2ShiftOp" -> Sum(n, shifted.result, apsr.c)

TernaryNullShiftOp(op, apsr, n, m, shift_res, host) ==
    LET shifted == Shifted(apsr, m, shift_res, host)
    IN  CASE op = "Cmp2ShiftOp" -> Sum(n, Not(shifted.result), TRUE)
          [] op = "Tst2ShiftOp" -> OpResult(AND(n, shifted.result), shifted.carry_out, apsr.v)
          [] op = "Teq2ShiftOp" -> OpResult(EOR(n, shifted.result), shifted.carry_out, apsr.v)

UnaryImmCarryOp(op, apsr, imm) ==
    LET out == Truncate(imm.out)
    IN  OpResult(CASE op = "MovImmCarryOp" -> out
                   [] op = "MvnImmCarryOp" -> Not(out), ImmCarryOut(apsr, imm), apsr.v)

BinaryImmCarryOp(op, apsr, n, imm) ==
    LET out == Truncate(imm.out)
    IN  OpResult(CASE op = "Orr1ImmCarryOp" -> OR(n, out)
                   [] op = "Eor1ImmCarryOp" -> EOR(n, out)
                   [] op = "And1ImmCarryOp" -> AND(n, out)
                   [] op = "Bic1ImmCarryOp" -> AND(n, Not(out)), ImmCarryOut(apsr, imm), apsr.v)

BinaryNullImmCarryOp(op, apsr, n, imm) ==
    LET out == Truncate(imm.out)
    IN  OpResult(CASE op = "Tst1ImmCarryOp" -> AND(n, out)
                   [] op = "Teq1ImmCarryOp" -> EOR(n, out), ImmCarryOut(apsr, imm), apsr.v)

\* pc is the address of the instruction plus 4; the base is its word.
AddToPcImmOp(pc, adds, imm32) ==
    ClearsFlags(pc - (pc % 4) + (IF adds THEN imm32 ELSE -imm32))

(***************************************************************************)
(* The products of two words, low and high half.  Umlal2Op keeps only the  *)
(* low half of the accumulator (binary64bit_instr.h:78).                   *)
(***************************************************************************)
LongOp(op, n, m, dLo) ==
    LET result == CASE op = "Umull2Op" -> n * m
                    [] op = "Smull2Op" -> Signed(n) * Signed(m)
                    [] op = "Umlal2Op" -> n * m + dLo
    IN  [lo |-> Truncate(result), hi |-> Truncate(result \div (2 * Half))]

(***************************************************************************)
(* Bit fields, with a mask computed as 1 << width: a field of the whole    *)
(* register shifts by the width of the type.                               *)
(***************************************************************************)
FieldOnes(width, host) == Truncate(HostLeft(1, width, Width, host) - 1)
BfiOp(n, d, lsbit, msbit, host) ==
    LET ones == FieldOnes(msbit - lsbit + 1, host)
        Placed(field) == HostLeft(field, lsbit, Width, host)
    IN  OR(AND(d, Not(Placed(ones))), Placed(AND(n, ones)))
UbfxOp(n, lsbit, msbit, host) ==
    LET msk == HostLeft(FieldOnes(msbit - lsbit + 1, host), lsbit, Width, host)
    IN  HostRight(AND(n, msk), lsbit, Width, host)
==============================================================================
