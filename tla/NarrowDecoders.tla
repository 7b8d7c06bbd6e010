--------------------------- MODULE NarrowDecoders ----------------------------
(***************************************************************************)
(* The decoders of the 16-bit encodings (decoder/op_decoders.h), in the    *)
(* order of the source.  r is the raw instruction, it the IT state.        *)
(***************************************************************************)
EXTENDS InstrFormat

NopT1Decoder(r, it) ==
    Decoding(r.low = \b1011111100000000, "kSuccess",
             New("kNop", {}, NoFields))

AddPcPlusImmediateT1Decoder(r, it) ==
    Decoding(Bits(r.low, 15, 11) = \b10100, "kSuccess",
             New("kAddPcPlusImmediate", {"kAdd"},
                 [d |-> Bits(r.low, 10, 8), imm32 |-> Bits(r.low, 7, 0) * 4]))

LslImmediateT1Decoder(r, it) ==
    LET shift_res == DecodeImmShift(\b00, Bits(r.low, 10, 6))
    IN  Decoding(Bits(r.low, 15, 11) = \b00000 /\ Bits(r.low, 10, 6) # 0 /\ shift_res.type = "LSL",
                 "kSuccess",
                 New("kLslImmediate", SetFlagsOutside(it),
                     [d |-> Bits(r.low, 2, 0), m |-> Bits(r.low, 5, 3), shift_res |-> shift_res]))

LslRegisterT1Decoder(r, it) ==
    Decoding(Bits(r.low, 15, 6) = \b0100000010, "kSuccess",
             New("kLslRegister", SetFlagsOutside(it),
                 [n |-> Bits(r.low, 2, 0), d |-> Bits(r.low, 2, 0), m |-> Bits(r.low, 5, 3)]))

AsrImmediateT1Decoder(r, it) ==
    Decoding(Bits(r.low, 15, 11) = \b00010, "kSuccess",
             New("kAsrImmediate", SetFlagsOutside(it),
                 [m |-> Bits(r.low, 5, 3), d |-> Bits(r.low, 2, 0), shift_res |-> DecodeImmShift(\b10,
                     Bits(r.low, 10, 6))]))

CmpRegisterT1Decoder(r, it) ==
    Decoding(Bits(r.low, 10, 6) = \b01010, "kSuccess",
             New("kCmpRegister", {},
                 [n |-> Bits(r.low, 2, 0), m |-> Bits(r.low, 5, 3), shift_res |-> ImmShift("LSL", 0)]))

CmpRegisterT2Decoder(r, it) ==
    LET n == Bit(r.low, 7) * 8 + Bits(r.low, 2, 0)
        m == Bits(r.low, 6, 3)
    IN  Decoding(Bits(r.low, 10, 8) = \b101, Unpredictable((n < 8 /\ m < 8) \/ 15 \in {n, m}),
                 New("kCmpRegister", {}, [n |-> n, m |-> m, shift_res |-> ImmShift("LSL", 0)]))

CmpImmediateT1Decoder(r, it) ==
    Decoding(Bits(r.low, 15, 11) = \b00101, "kSuccess",
             New("kCmpImmediate", {}, [n |-> Bits(r.low, 10, 8), imm32 |-> Bits(r.low, 7, 0)]))

MovImmediateT1Decoder(r, it) ==
    Decoding(Bits(r.low, 15, 11) = \b00100, "kSuccess",
             New("kMovImmediate", SetFlagsOutside(it),
                 [d |-> Bits(r.low, 10, 8), imm32_carry |-> ImmCarry(Bits(r.low, 7, 0), "apsr")]))

RsbImmediateT1Decoder(r, it) ==
    Decoding(Bits(r.low, 15, 6) = \b0100001001, "kSuccess",
             New("kRsbImmediate", SetFlagsOutside(it),
                 [n |-> Bits(r.low, 5, 3), d |-> Bits(r.low, 2, 0), imm32 |-> 0]))

MovRegisterT1Decoder(r, it) ==
    LET d == Bit(r.low, 7) * 8 + Bits(r.low, 2, 0)
    IN  Decoding(Bits(r.low, 11, 8) = 6, Unpredictable(d = 15 /\ MidITBlock(it)),
                 New("kMovRegister", {}, [d |-> d, m |-> Bits(r.low, 6, 3)]))

MovRegisterT2Decoder(r, it) ==
    Decoding(Bits(r.low, 15, 6) = \b0000000000, Unpredictable(InITBlock(it)),
             New("kMovRegister", {"kSetFlags"}, [d |-> Bits(r.low, 2, 0), m |-> Bits(r.low, 5, 3)]))

LdrLiteralT1Decoder(r, it) ==
    Decoding(TRUE, "kSuccess",
             New("kLdrLiteral", {"kAdd"}, [t |-> Bits(r.low, 10, 8), imm32 |-> Bits(r.low, 7, 0) * 4]))

LdrbImmediateT1Decoder(r, it) ==
    Decoding(Bits(r.low, 15, 11) = \b01111, "kSuccess",
             New("kLdrbImmediate", {"kAdd", "kIndex"},
                 [t |-> Bits(r.low, 2, 0), n |-> Bits(r.low, 5, 3), imm32 |-> Bits(r.low, 10, 6)]))

LdrhImmediateT1Decoder(r, it) ==
    Decoding(Bits(r.low, 15, 11) = \b10001, "kSuccess",
             New("kLdrhImmediate", {"kAdd", "kIndex"},
                 [t |-> Bits(r.low, 2, 0), n |-> Bits(r.low, 5, 3), imm32 |-> Bits(r.low, 10, 6) * 2]))

PopT1Decoder(r, it) ==
    LET registers == Bit(r.low, 8) * 32768 + Bits(r.low, 7, 0)
    IN  Decoding(Bits(r.low, 15, 9) = \b1011110,
                 Unpredictable(BitCount(registers) < 1 \/ (Bits(registers, 15, 15) = 1 /\ MidITBlock(it))),
                 New("kPop", {}, [registers |-> registers]))

LdrImmediateT1Decoder(r, it) ==
    Decoding(Bits(r.low, 15, 11) = \b01101, "kSuccess",
             New("kLdrImmediate", {"kAdd", "kIndex"},
                 [t |-> Bits(r.low, 2, 0), n |-> Bits(r.low, 5, 3), imm32 |-> Bits(r.low, 10, 6) * 4]))

LdrImmediateT2Decoder(r, it) ==
    Decoding(Bits(r.low, 15, 11) = \b10011, "kSuccess",
             New("kLdrImmediate", {"kAdd", "kIndex"},
                 [t |-> Bits(r.low, 10, 8), n |-> 13, imm32 |-> Bits(r.low, 7, 0) * 4]))

ItT1Decoder(r, it) ==
    LET firstcond == Bits(r.low, 7, 4)
        mask == Bits(r.low, 3, 0)
    IN  Decoding(Bits(r.low, 11, 8) = 15 /\ mask # 0,
                 Unpredictable(firstcond = 15 \/ (firstcond = \b1110 /\ BitCount(mask) # 1) \/ InITBlock(it)),
                 New("kIt", {}, [firstcond |-> firstcond, mask |-> mask]))

\* Mutant: BX is let through in the middle of an IT block.
BxT1DecoderAnywhere(r, it) ==
    Decoding(Bits(r.low, 15, 7) = \b010001110, "kSuccess", New("kBx", {}, [m |-> Bits(r.low, 6, 3)]))

BxT1Decoder(r, it) ==
    Decoding(Bits(r.low, 15, 7) = \b010001110, Unpredictable(MidITBlock(it)),
             New("kBx", {}, [m |-> Bits(r.low, 6, 3)]))

BlxT1Decoder(r, it) ==
    LET m == Bits(r.low, 6, 3)
    IN  Decoding(Bits(r.low, 15, 7) = \b010001111, Unpredictable(m = 15 \/ MidITBlock(it)),
                 New("kBlx", {}, [m |-> m]))

BT1Decoder(r, it) ==
    LET cond == Bits(r.low, 11, 8)
    IN  Decoding(~InITBlock(it) => cond # \b1110 /\ cond # \b1111, Unpredictable(InITBlock(it)),
                 New("kBCond", {}, [cond |-> cond, imm32 |-> SignExtend(Bits(r.low, 7, 0) * 2, 8)]))

BT2Decoder(r, it) ==
    Decoding(TRUE, Unpredictable(MidITBlock(it)),
             New("kB", {}, [imm32 |-> SignExtend(Bits(r.low, 10, 0) * 2, 11)]))

SubSpMinusImmediateT1Decoder(r, it) ==
    Decoding(Bits(r.low, 15, 7) = \b101100001, "kSuccess",
             New("kSubSpMinusImmediate", {}, [d |-> 13, imm32 |-> Bits(r.low, 6, 0) * 4]))

SubImmediateT1Decoder(r, it) ==
    Decoding(Bits(r.low, 15, 9) = \b0001111, "kSuccess",
             New("kSubImmediate", SetFlagsOutside(it),
                 [n |-> Bits(r.low, 5, 3), d |-> Bits(r.low, 2, 0), imm32 |-> Bits(r.low, 8, 6)]))

SubImmediateT2Decoder(r, it) ==
    Decoding(Bits(r.low, 15, 11) = \b00111, "kSuccess",
             New("kSubImmediate", SetFlagsOutside(it),
                 [n |-> Bits(r.low, 10, 8), d |-> Bits(r.low, 10, 8), imm32 |-> Bits(r.low, 7, 0)]))

AddSpPlusImmediateT1Decoder(r, it) ==
    Decoding(Bits(r.low, 15, 11) = \b10101, "kSuccess",
             New("kAddSpPlusImmediate", {}, [d |-> Bits(r.low, 10, 8), imm32 |-> Bits(r.low, 7, 0) * 4]))

AddSpPlusImmediateT2Decoder(r, it) ==
    Decoding(Bits(r.low, 15, 7) = \b101100000, "kSuccess",
             New("kAddSpPlusImmediate", {}, [d |-> 13, imm32 |-> Bits(r.low, 6, 0) * 4]))

AddImmediateT1Decoder(r, it) ==
    Decoding(Bits(r.low, 15, 9) = \b0001110, "kSuccess",
             New("kAddImmediate", SetFlagsOutside(it),
                 [n |-> Bits(r.low, 5, 3), d |-> Bits(r.low, 2, 0), imm32 |-> Bits(r.low, 8, 6)]))

AddImmediateT2Decoder(r, it) ==
    Decoding(TRUE, "kSuccess",
             New("kAddImmediate", SetFlagsOutside(it),
                 [n |-> Bits(r.low, 10, 8), d |-> Bits(r.low, 10, 8), imm32 |-> Bits(r.low, 7, 0)]))

TstRegisterT1Decoder(r, it) ==
    Decoding(Bits(r.low, 15, 6) = \b0100001000, "kSuccess",
             New("kTstRegister", {},
                 [n |-> Bits(r.low, 2, 0), m |-> Bits(r.low, 5, 3), shift_res |-> ImmShift("LSL", 0)]))

SubRegisterT1Decoder(r, it) ==
    Decoding(Bits(r.low, 15, 9) = \b0001101, "kSuccess",
             New("kSubRegister", SetFlagsOutside(it),
                 [shift_res |-> ImmShift("LSL", 0), m |-> Bits(r.low, 8, 6), n |-> Bits(r.low, 5, 3),
                     d |-> Bits(r.low, 2, 0)]))

AddRegisterT1Decoder(r, it) ==
    Decoding(Bits(r.low, 15, 9) = \b0001100, "kSuccess",
             New("kAddRegister", SetFlagsOutside(it),
                 [shift_res |-> ImmShift("LSL", 0), m |-> Bits(r.low, 8, 6), n |-> Bits(r.low, 5, 3),
                     d |-> Bits(r.low, 2, 0)]))

AddRegisterT2Decoder(r, it) ==
    LET m == Bits(r.low, 6, 3)
        n == Bit(r.low, 7) * 8 + Bits(r.low, 2, 0)
        d == Bit(r.low, 7) * 8 + Bits(r.low, 2, 0)
    IN  Decoding(Bits(r.low, 10, 8) = \b100 /\ d # \b1101 /\ n # \b1101,
                 Unpredictable((d = 15 /\ MidITBlock(it)) \/ (d = 15 /\ m = 15)),
                 New("kAddRegister", {}, [shift_res |-> ImmShift("LSL", 0), m |-> m, n |-> n, d |-> d]))

AdcRegisterT1Decoder(r, it) ==
    Decoding(Bits(r.low, 15, 6) = \b0100000101, "kSuccess",
             New("kAdcRegister", SetFlagsOutside(it),
                 [shift_res |-> ImmShift("LSL", 0), m |-> Bits(r.low, 5, 3), n |-> Bits(r.low, 2, 0),
                     d |-> Bits(r.low, 2, 0)]))

PushT1Decoder(r, it) ==
    LET registers == Bit(r.low, 8) * 16384 + Bits(r.low, 7, 0)
    IN  Decoding(Bits(r.low, 10, 9) = \b10, Unpredictable(BitCount(registers) < 1),
                 New("kPush", {}, [registers |-> registers]))

LdmT1Decoder(r, it) ==
    LET registers == Bits(r.low, 7, 0)
        n == Bits(r.low, 10, 8)
    IN  Decoding(Bits(r.low, 15, 11) = \b11001, Unpredictable(BitCount(registers) < 1),
                 New("kLdm", When(Bit(registers, n) = 0, "kWBack"), [registers |-> registers, n |-> n]))

StmT1Decoder(r, it) ==
    Decoding(Bits(r.low, 15, 11) = \b11000, "kSuccess",
             New("kStm", {"kWBack"}, [registers |-> Bits(r.low, 7, 0), n |-> Bits(r.low, 10, 8)]))

SxthT1Decoder(r, it) ==
    Decoding(Bits(r.low, 15, 6) = \b1011001000, "kSuccess",
             New("kSxth", {}, [m |-> Bits(r.low, 5, 3), d |-> Bits(r.low, 2, 0), rotation |-> 0]))

UxtbT1Decoder(r, it) ==
    Decoding(Bits(r.low, 11, 6) = \b001011, "kSuccess",
             New("kUxtb", {}, [m |-> Bits(r.low, 5, 3), d |-> Bits(r.low, 2, 0), rotation |-> 0]))

SxtbT1Decoder(r, it) ==
    Decoding(Bits(r.low, 15, 6) = \b1011001001, "kSuccess",
             New("kSxtb", {}, [m |-> Bits(r.low, 5, 3), d |-> Bits(r.low, 2, 0), rotation |-> 0]))

UxthT1Decoder(r, it) ==
    Decoding(Bits(r.low, 15, 6) = \b1011001010, "kSuccess",
             New("kUxth", {}, [m |-> Bits(r.low, 5, 3), d |-> Bits(r.low, 2, 0), rotation |-> 0]))

EorRegisterT1Decoder(r, it) ==
    Decoding(Bits(r.low, 15, 6) = \b0100000001, "kSuccess",
             New("kEorRegister", SetFlagsOutside(it),
                 [n |-> Bits(r.low, 2, 0), d |-> Bits(r.low, 2, 0), m |-> Bits(r.low, 5, 3),
                     shift_res |-> ImmShift("LSL", 0)]))

OrrRegisterT1Decoder(r, it) ==
    Decoding(Bits(r.low, 15, 6) = \b0100001100, "kSuccess",
             New("kOrrRegister", SetFlagsOutside(it),
                 [n |-> Bits(r.low, 2, 0), d |-> Bits(r.low, 2, 0), m |-> Bits(r.low, 5, 3),
                     shift_res |-> ImmShift("LSL", 0)]))

AndRegisterT1Decoder(r, it) ==
    Decoding(Bits(r.low, 15, 6) = \b0100000000, "kSuccess",
             New("kAndRegister", SetFlagsOutside(it),
                 [n |-> Bits(r.low, 2, 0), d |-> Bits(r.low, 2, 0), m |-> Bits(r.low, 5, 3),
                     shift_res |-> ImmShift("LSL", 0)]))

BicRegisterT1Decoder(r, it) ==
    Decoding(Bits(r.low, 15, 6) = \b0100001110, "kSuccess",
             New("kBicRegister", SetFlagsOutside(it),
                 [n |-> Bits(r.low, 2, 0), d |-> Bits(r.low, 2, 0), m |-> Bits(r.low, 5, 3),
                     shift_res |-> ImmShift("LSL", 0)]))

LsrRegisterT1Decoder(r, it) ==
    Decoding(Bits(r.low, 15, 6) = \b0100000011, "kSuccess",
             New("kLsrRegister", SetFlagsOutside(it),
                 [n |-> Bits(r.low, 2, 0), d |-> Bits(r.low, 2, 0), m |-> Bits(r.low, 5, 3)]))

AsrRegisterT1Decoder(r, it) ==
    Decoding(Bits(r.low, 15, 6) = \b0100000100, "kSuccess",
             New("kAsrRegister", SetFlagsOutside(it),
                 [n |-> Bits(r.low, 2, 0), d |-> Bits(r.low, 2, 0), m |-> Bits(r.low, 5, 3)]))

LsrImmediateT1Decoder(r, it) ==
    Decoding(Bits(r.low, 15, 11) = \b00001, "kSuccess",
             New("kLsrImmediate", SetFlagsOutside(it),
                 [m |-> Bits(r.low, 5, 3), d |-> Bits(r.low, 2, 0), shift_res |-> DecodeImmShift(\b01,
                     Bits(r.low, 10, 6))]))

StrRegisterT1Decoder(r, it) ==
    Decoding(Bits(r.low, 15, 9) = \b0101000, "kSuccess",
             New("kStrRegister", {"kAdd", "kIndex"},
                 [n |-> Bits(r.low, 5, 3), m |-> Bits(r.low, 8, 6), t |-> Bits(r.low, 2, 0),
                     shift_res |-> ImmShift("LSL", 0)]))

StrbRegisterT1Decoder(r, it) ==
    Decoding(Bits(r.low, 15, 9) = \b0101010, "kSuccess",
             New("kStrbRegister", {"kAdd", "kIndex"},
                 [n |-> Bits(r.low, 5, 3), m |-> Bits(r.low, 8, 6), t |-> Bits(r.low, 2, 0),
                     shift_res |-> ImmShift("LSL", 0)]))

LdrbRegisterT1Decoder(r, it) ==
    Decoding(Bits(r.low, 15, 9) = \b0101110, "kSuccess",
             New("kLdrbRegister", {"kAdd", "kIndex"},
                 [m |-> Bits(r.low, 8, 6), n |-> Bits(r.low, 5, 3), t |-> Bits(r.low, 2, 0),
                     shift_res |-> ImmShift("LSL", 0)]))

LdrRegisterT1Decoder(r, it) ==
    Decoding(Bits(r.low, 15, 9) = \b0101100, "kSuccess",
             New("kLdrRegister", {"kAdd", "kIndex"},
                 [m |-> Bits(r.low, 8, 6), n |-> Bits(r.low, 5, 3), t |-> Bits(r.low, 2, 0),
                     shift_res |-> ImmShift("LSL", 0)]))

StrhImmediateT1Decoder(r, it) ==
    Decoding(Bits(r.low, 15, 11) = \b10000, "kSuccess",
             New("kStrhImmediate", {"kAdd", "kIndex"},
                 [n |-> Bits(r.low, 5, 3), t |-> Bits(r.low, 2, 0), imm32 |-> Bits(r.low, 10, 6) * 2]))

StrbImmediateT1Decoder(r, it) ==
    Decoding(Bits(r.low, 15, 11) = \b01110, "kSuccess",
             New("kStrbImmediate", {"kAdd", "kIndex"},
                 [n |-> Bits(r.low, 5, 3), t |-> Bits(r.low, 2, 0), imm32 |-> Bits(r.low, 10, 6)]))

StrImmediateT1Decoder(r, it) ==
    Decoding(Bits(r.low, 15, 11) = \b01100, "kSuccess",
             New("kStrImmediate", {"kAdd", "kIndex"},
                 [n |-> Bits(r.low, 5, 3), t |-> Bits(r.low, 2, 0), imm32 |-> Bits(r.low, 10, 6) * 4]))

StrImmediateT2Decoder(r, it) ==
    Decoding(Bits(r.low, 15, 11) = \b10010, "kSuccess",
             New("kStrImmediate", {"kAdd", "kIndex"},
                 [n |-> 13, t |-> Bits(r.low, 10, 8), imm32 |-> Bits(r.low, 7, 0) * 4]))

CbNZT1Decoder(r, it) ==
    Decoding(Bits(r.low, 15, 12) = \b1011 /\ Bit(r.low, 10) = 0 /\ Bit(r.low, 8) = 1,
             Unpredictable(InITBlock(it)),
             New("kCbNZ", When(Bit(r.low, 11) = 1, "kNonZero"),
                 [n |-> Bits(r.low, 2, 0), imm32 |-> Bit(r.low, 9) * 64 + Bits(r.low, 7, 3) * 2]))

SvcT1Decoder(r, it) ==
    Decoding(Bits(r.low, 15, 8) = \b11011111, "kSuccess",
             New("kSvc", {}, [imm32 |-> Bits(r.low, 7, 0)]))

BkptT1Decoder(r, it) ==
    Decoding(Bits(r.low, 15, 8) = \b10111110, "kSuccess",
             New("kBkpt", {}, [imm32 |-> Bits(r.low, 7, 0)]))
==============================================================================
