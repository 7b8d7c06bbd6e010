------------------------------ MODULE InstrFormat ------------------------------
(***************************************************************************)
(* The formats between fetcher, decoder and executor: a raw instruction,   *)
(* the fields and immediates cut out of it, the IT state the decoders      *)
(* consult, and the union of structs a decoder fills and the executor      *)
(* reads (decoder/instr.h).                                                *)
(*                                                                         *)
(* A raw instruction is [low, high], two halfwords.  A 32-bit constant is  *)
(* its two's complement value, so that the least one is -2^31.             *)
(***************************************************************************)
EXTENDS Integers, Sequences, FiniteSets, FiniteSetsExt

(***************************************************************************)
(* Bit manipulation (utils/bit_manip.h).                                   *)
(***************************************************************************)
Bits(w, hi, lo) == (w \div 2^lo) % 2^(hi - lo + 1)
Bit(w, b) == (w \div 2^b) % 2
BitsOf(w) == {b \in 0 .. 15 : Bit(w, b) = 1}
BitCount(w) == Cardinality(BitsOf(w))
SignExtend(w, top) == IF Bit(w, top) = 1 THEN w - 2^(top + 1) ELSE w

(***************************************************************************)
(* The register and shift fields of the 32-bit encodings.                  *)
(***************************************************************************)
Rn(r) == Bits(r.low, 3, 0)
SBit(r) == Bit(r.low, 4)
Rm(r) == Bits(r.high, 3, 0)
Rd(r) == Bits(r.high, 11, 8)
Rt(r) == Bits(r.high, 15, 12)
ImmShift5(r) == Bits(r.high, 14, 12) * 4 + Bits(r.high, 7, 6)
ModImm12(r) == Bit(r.low, 10) * 2048 + Bits(r.high, 14, 12) * 256 + Bits(r.high, 7, 0)

BranchOffset24(r) ==
    LET S == Bit(r.low, 10)
        NotXorS(b) == IF Bit(r.high, b) = S THEN 1 ELSE 0
    IN  SignExtend(S * 2^24 + NotXorS(13) * 2^23 + NotXorS(11) * 2^22
                     + Bits(r.low, 9, 0) * 4096 + Bits(r.high, 10, 0) * 2, 24)
BranchOffset20(r) ==
    SignExtend(Bit(r.low, 10) * 2^20 + Bit(r.high, 11) * 2^19 + Bit(r.high, 13) * 2^18
                 + Bits(r.low, 5, 0) * 4096 + Bits(r.high, 10, 0) * 2, 20)

(***************************************************************************)
(* The shift of a register operand (Alu::DecodeImmShift).                  *)
(***************************************************************************)
Shifts == [type : {"LSL", "LSR", "ASR", "ROR", "RRX"}, value : Nat]
ImmShift(type, value) == [type |-> type, value |-> value]
DecodeImmShift(type, imm5) ==
    CASE type = \b00 -> ImmShift("LSL", imm5)
      [] type = \b01 -> ImmShift("LSR", IF imm5 = 0 THEN 32 ELSE imm5)
      [] type = \b10 -> ImmShift("ASR", IF imm5 = 0 THEN 32 ELSE imm5)
      [] type = \b11 -> IF imm5 = 0 THEN ImmShift("RRX", 1) ELSE ImmShift("ROR", imm5)
ShiftOfRm(r) == DecodeImmShift(Bits(r.high, 5, 4), ImmShift5(r))

(***************************************************************************)
(* Modified immediates (Thumb::ThumbExpandImm_C): a byte, a byte repeated  *)
(* in a pattern, or a byte 1xxxxxxx rotated right by 8 to 31.  carry_out   *)
(* is "set" or "clear" by the rotation, or the carry of the APSR handed in.*)
(***************************************************************************)
Carries == [out : Int, carry_out : {"apsr", "set", "clear"}]
ImmCarry(out, carry_out) == [out |-> out, carry_out |-> carry_out]

Repeats(imm12) == Bits(imm12, 11, 10) = 0 /\ Bits(imm12, 9, 8) # 0
ThumbExpandImmUnpredictable(imm12) == Repeats(imm12) /\ Bits(imm12, 7, 0) = 0

ThumbExpandImm_C(imm12) ==
    LET byte == Bits(imm12, 7, 0)
        top == SignExtend(byte, 7) * 2^24
        unrotated == 128 + Bits(imm12, 6, 0)
        rotation == Bits(imm12, 11, 7)
    IN  IF Bits(imm12, 11, 10) = 0
        THEN ImmCarry(CASE Bits(imm12, 9, 8) = 0 -> byte
                        [] Bits(imm12, 9, 8) = 1 -> byte * 65537
                        [] Bits(imm12, 9, 8) = 2 -> top + byte * 256
                        [] Bits(imm12, 9, 8) = 3 -> top + byte * 65793, "apsr")
        ELSE IF rotation = 8 THEN ImmCarry((unrotated - 256) * 2^24, "set")
        ELSE ImmCarry(unrotated * 2^(32 - rotation), "clear")
ThumbExpandImm(imm12) == ThumbExpandImm_C(imm12).out

Expands(r) == ~ThumbExpandImmUnpredictable(ModImm12(r))
ExpandedImm(r) == ThumbExpandImm(ModImm12(r))
ExpandedImm_C(r) == ThumbExpandImm_C(ModImm12(r))

(***************************************************************************)
(* The IT state (logic/if_then_ops.h).  In [7:4] the condition of the next *)
(* instruction, in [3:0] the rest of the mask; \b1000 marks the last one.  *)
(***************************************************************************)
InITBlock(istate) == Bits(istate, 3, 0) # 0
LastInITBlock(istate) == Bits(istate, 3, 0) = \b1000
MidITBlock(istate) == InITBlock(istate) /\ ~LastInITBlock(istate)

\* Mutant: the condition is shifted along with the mask.
ITAdvanceUnmasked(istate) == IF Bits(istate, 2, 0) = 0 THEN 0 ELSE istate * 2

ITAdvance(istate) ==
    IF Bits(istate, 2, 0) = 0 THEN 0
    ELSE Bits(istate, 7, 5) * 32 + Bits(istate * 2, 4, 0)

AL == \b1110
Cond(cond) == [status |-> "kSuccess", cond |-> cond]
CurrentCond(istate) ==
    IF InITBlock(istate) THEN Cond(Bits(istate, 7, 4))
    ELSE IF istate = 0 THEN Cond(AL)
    ELSE [Cond(AL) EXCEPT !.status = "kExecutorUnpredictable"]

(***************************************************************************)
(* What a decoder returns.  asserts is the conjunction of the assertions   *)
(* it makes: a debug build stops when it is false, a release build goes on.*)
(***************************************************************************)
When(cond, flag) == IF cond THEN {flag} ELSE {}
New(id, flags, fields) == [id |-> id, flags |-> flags, fields |-> fields]
NoFields == <<>>
Decoding(asserts, status, instr) ==
    [failed |-> When(~asserts, "decoder"), status |-> status, instr |-> instr]
InvalidInstr == New("kInvalid", {}, NoFields)
Failed(status) == Decoding(TRUE, status, InvalidInstr)
UnknownOpCode == Failed("kDecoderUnknownOpCode")

\* Mutant: the flag is set without asking for the IT state.
SetFlagsAlways(istate) == {"kSetFlags"}
SetFlagsOutside(istate) == When(~InITBlock(istate), "kSetFlags")
SetFlagsIfS(r) == When(SBit(r) = 1, "kSetFlags")
IndexFlags(P, U, W) ==
    When(P = 1, "kIndex") \cup When(U = 1, "kAdd") \cup When(W = 1, "kWBack") \cup {"k32Bit"}

AnySpOrPc(regs) == regs \cap {13, 15} # {}
Refuse(cond, status) == IF cond THEN status ELSE "kSuccess"
Unpredictable(cond) == Refuse(cond, "kDecoderUnpredictable")
Expandable(r, status) == IF Expands(r) THEN status ELSE "kExecutorUnpredictable"

(***************************************************************************)
(* The structs of the union Instr: the fields after id and flags, in the   *)
(* order of their declaration.                                             *)
(***************************************************************************)
StructsNopToLdrdImmediate ==
    [kNop |-> <<>>, kDmb |-> <<>>,
     kAddPcPlusImmediate |-> <<"d", "imm32">>,
     kLslImmediate |-> <<"d", "m", "shift_res">>,
     kLslRegister |-> <<"n", "d", "m">>,
     kClz |-> <<"d", "m">>, kMovRegister |-> <<"d", "m">>, kRrx |-> <<"d", "m">>,
     kSxth |-> <<"m", "d", "rotation">>,
     kTbbH |-> <<"m", "n">>,
     kCmpRegister |-> <<"n", "m", "shift_res">>,
     kCmpImmediate |-> <<"n", "imm32">>, kCmnImmediate |-> <<"n", "imm32">>,
     kMovImmediate |-> <<"d", "imm32_carry">>, kMvnImmediate |-> <<"d", "imm32_carry">>,
     kLdrbImmediate |-> <<"t", "n", "imm32">>, kLdrsbImmediate |-> <<"t", "n", "imm32">>,
     kLdrhImmediate |-> <<"t", "n", "imm32">>, kLdrshImmediate |-> <<"t", "n", "imm32">>,
     kLdrImmediate |-> <<"t", "n", "imm32">>, kLdrex |-> <<"t", "n", "imm32">>,
     kLdrdImmediate |-> <<"t", "t2", "n", "imm32">>]

StructsLdrLiteralToSubSpMinusImmediate ==
    [kLdrLiteral |-> <<"t", "imm32">>,
     kIt |-> <<"firstcond", "mask">>,
     kCbNZ |-> <<"n", "imm32">>,
     kBl |-> <<"imm32">>, kB |-> <<"imm32">>,
     kBx |-> <<"m">>, kBlx |-> <<"m">>,
     kBCond |-> <<"cond", "imm32">>,
     kBfi |-> <<"d", "n", "lsbit", "msbit">>,
     kUdiv |-> <<"d", "m", "n">>, kSdiv |-> <<"d", "m", "n">>, kMul |-> <<"d", "m", "n">>,
     kUmlal |-> <<"dHi", "dLo", "m", "n">>, kUmull |-> <<"dHi", "dLo", "m", "n">>,
     kSmull |-> <<"dHi", "dLo", "m", "n">>,
     kMls |-> <<"a", "d", "m", "n">>, kMla |-> <<"a", "d", "m", "n">>,
     kSubImmediate |-> <<"n", "d", "imm32">>, kSbcImmediate |-> <<"n", "d", "imm32">>,
     kRsbImmediate |-> <<"n", "d", "imm32">>,
     kSubSpMinusImmediate |-> <<"d", "imm32">>]

StructsSubRegisterToUxth ==
    [kSubRegister |-> <<"shift_res", "m", "n", "d">>,
     kRsbRegister |-> <<"shift_res", "m", "n", "d">>,
     kAddRegister |-> <<"shift_res", "m", "n", "d">>,
     kAdcRegister |-> <<"shift_res", "m", "n", "d">>,
     kAddImmediate |-> <<"n", "d", "imm32">>, kAdcImmediate |-> <<"n", "d", "imm32">>,
     kAddSpPlusImmediate |-> <<"d", "imm32">>,
     kTstImmediate |-> <<"n", "imm32_carry">>, kTeqImmediate |-> <<"n", "imm32_carry">>,
     kTstRegister |-> <<"n", "m", "shift_res">>, kTeqRegister |-> <<"n", "m", "shift_res">>,
     kAndImmediate |-> <<"n", "d", "imm32_carry">>,
     kStmdb |-> <<"n", "registers">>,
     kPush |-> <<"registers">>, kPop |-> <<"registers">>,
     kStm |-> <<"registers", "n">>, kLdm |-> <<"registers", "n">>,
     kUxtb |-> <<"m", "d", "rotation">>, kSxtb |-> <<"m", "d", "rotation">>,
     kUxth |-> <<"m", "d", "rotation">>]

StructsUbfxToStrhRegister ==
    [kUbfx |-> <<"d", "n", "lsbit", "widthminus1">>,
     kOrrImmediate |-> <<"n", "d", "imm32_carry">>, kEorImmediate |-> <<"n", "d", "imm32_carry">>,
     kBicImmediate |-> <<"n", "d", "imm32_carry">>,
     kOrrRegister |-> <<"n", "d", "m", "shift_res">>,
     kEorRegister |-> <<"n", "d", "m", "shift_res">>,
     kSbcRegister |-> <<"n", "d", "m", "shift_res">>,
     kAndRegister |-> <<"n", "d", "m", "shift_res">>,
     kBicRegister |-> <<"n", "d", "m", "shift_res">>,
     kMvnRegister |-> <<"m", "d", "shift_res">>, kLsrImmediate |-> <<"m", "d", "shift_res">>,
     kAsrImmediate |-> <<"m", "d", "shift_res">>,
     kLsrRegister |-> <<"n", "d", "m">>, kAsrRegister |-> <<"n", "d", "m">>,
     kStrdImmediate |-> <<"n", "t", "t2", "imm32">>,
     kStrRegister |-> <<"n", "m", "t", "shift_res">>,
     kStrbRegister |-> <<"n", "m", "t", "shift_res">>,
     kStrhRegister |-> <<"n", "m", "t", "shift_res">>]

StructsLdrbRegisterToMrs ==
    [kLdrbRegister |-> <<"m", "n", "t", "shift_res">>,
     kLdrhRegister |-> <<"m", "n", "t", "shift_res">>,
     kLdrRegister |-> <<"m", "n", "t", "shift_res">>,
     kStrbImmediate |-> <<"n", "t", "imm32">>, kStrhImmediate |-> <<"n", "t", "imm32">>,
     kStrImmediate |-> <<"n", "t", "imm32">>,
     kStrex |-> <<"n", "t", "d", "imm32">>,
     kSvc |-> <<"imm32">>, kBkpt |-> <<"imm32">>,
     kMsr |-> <<"n", "mask", "SYSm">>,
     kMrs |-> <<"d", "mask", "SYSm">>]

\* f @@ g; the proofs need it written out.
Merge(f, g) ==
    [x \in DOMAIN f \cup DOMAIN g |-> IF x \in DOMAIN f THEN f[x] ELSE g[x]]
Layout == Merge(StructsNopToLdrdImmediate,
          Merge(StructsLdrLiteralToSubSpMinusImmediate,
          Merge(StructsSubRegisterToUxth,
          Merge(StructsUbfxToStrhRegister, StructsLdrbRegisterToMrs))))

(***************************************************************************)
(* Where a field of a struct lies in the union: id and flags take a byte   *)
(* each, every field is aligned to its size.                               *)
(***************************************************************************)
SizeOf(field) ==
    CASE field \in {"imm32", "registers"} -> 4
      [] field = "imm32_carry" -> 8
      [] field = "shift_res" -> 2
      [] OTHER -> 1
Aligned(offset, field) ==
    IF SizeOf(field) >= 4 THEN ((offset + 3) \div 4) * 4 ELSE offset

OffsetOf(fields, k) ==
    LET End[i \in 0 .. Len(fields)] ==
            IF i = 0 THEN 2 ELSE Aligned(End[i - 1], fields[i]) + SizeOf(fields[i])
    IN  Aligned(End[k - 1], fields[k])
Placement(struct) == {<<Layout[struct][k], OffsetOf(Layout[struct], k)>> : k \in DOMAIN Layout[struct]}
==============================================================================
