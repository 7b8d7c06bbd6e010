---------------------------- MODULE WideDecoders -----------------------------
(***************************************************************************)
(* The decoders of the 32-bit encodings (decoder/op_decoders.h), in the    *)
(* order of the source.  r is the raw instruction, it the IT state.        *)
(***************************************************************************)
EXTENDS InstrFormat

DmbT1Decoder(r, it) ==
    Decoding(r.low = \b1111001110111111 /\ Bits(r.high, 15, 4) = \b100011110101, "kSuccess",
             New("kDmb", {"k32Bit"}, NoFields))

LslImmediateT2Decoder(r, it) ==
    LET shift_res == DecodeImmShift(\b00, ImmShift5(r))
    IN  Decoding(/\ Bits(r.low, 15, 5) = \b11101010010
                 /\ Rn(r) = \b1111
                 /\ Bit(r.high, 15) = 0
                 /\ Bits(r.high, 5, 4) = \b00
                 /\ shift_res.type = "LSL"
                 /\ ImmShift5(r) # 0,
                 Unpredictable(AnySpOrPc({Rd(r), Rm(r)})),
                 New("kLslImmediate", SetFlagsIfS(r) \cup {"k32Bit"},
                     [d |-> Rd(r), m |-> Rm(r), shift_res |-> shift_res]))

LslRegisterT2Decoder(r, it) ==
    Decoding(Bits(r.low, 15, 5) = \b11111010000 /\ Rt(r) = \b1111 /\ Bits(r.high, 7, 4) = \b0000,
             Unpredictable(AnySpOrPc({Rd(r), Rn(r), Rm(r)})),
             New("kLslRegister", SetFlagsIfS(r) \cup {"k32Bit"},
                 [n |-> Rn(r), d |-> Rd(r), m |-> Rm(r)]))

ClzT1Decoder(r, it) ==
    Decoding(Bits(r.low, 15, 4) = \b111110101011 /\ Rt(r) = \b1111 /\ Bits(r.high, 7, 4) = \b1000,
             Unpredictable(Rn(r) # Rm(r) \/ AnySpOrPc({Rd(r), Rn(r)})),
             New("kClz", {"k32Bit"}, [d |-> Rd(r), m |-> Rn(r)]))

CmpRegisterT3Decoder(r, it) ==
    Decoding(Bits(r.low, 15, 4) = \b111010111011 /\ Bit(r.high, 15) = 0 /\ Rd(r) = \b1111,
             Unpredictable(Rn(r) = 15 \/ Rm(r) \in {13, 15}),
             New("kCmpRegister", {"k32Bit"},
                 [n |-> Rn(r), m |-> Rm(r), shift_res |-> DecodeImmShift(Bits(r.high, 5, 4), ImmShift5(r))]))

CmpImmediateT2Decoder(r, it) ==
    Decoding(/\ Bits(r.low, 15, 11) = \b11110
             /\ Bits(r.low, 9, 4) = \b011011
             /\ Bit(r.high, 15) = 0
             /\ Rd(r) = \b1111,
             Expandable(r, Unpredictable(Rn(r) = 15)),
             New("kCmpImmediate", {"k32Bit"}, [n |-> Rn(r), imm32 |-> ExpandedImm(r)]))

CmnImmediateT1Decoder(r, it) ==
    Decoding(/\ Bits(r.low, 15, 11) = \b11110
             /\ Bits(r.low, 9, 4) = \b010001
             /\ Bit(r.high, 15) = 0
             /\ Rd(r) = \b1111,
             Expandable(r, Unpredictable(Rn(r) = 15)),
             New("kCmnImmediate", {"k32Bit"}, [n |-> Rn(r), imm32 |-> ExpandedImm(r)]))

MovImmediateT2Decoder(r, it) ==
    Decoding(/\ Bits(r.low, 15, 11) = \b11110
             /\ Bits(r.low, 9, 5) = \b00010
             /\ Rn(r) = \b1111
             /\ Bit(r.high, 15) = 0,
             Expandable(r, Unpredictable(Rd(r) \in {13, 15})),
             New("kMovImmediate", SetFlagsIfS(r) \cup {"k32Bit"},
                 [d |-> Rd(r), imm32_carry |-> ExpandedImm_C(r)]))

MovImmediateT3Decoder(r, it) ==
    Decoding(Bits(r.low, 15, 11) = \b11110 /\ Bits(r.low, 9, 4) = \b100100 /\ Bit(r.high, 15) = 0,
             Unpredictable(Rd(r) \in {13, 15}),
             New("kMovImmediate", {"k32Bit"},
                 [d |-> Rd(r), imm32_carry |-> ImmCarry(Rn(r) * 4096 + ModImm12(r), "clear")]))

MvnImmediateT1Decoder(r, it) ==
    Decoding(/\ Bits(r.low, 15, 11) = \b11110
             /\ Bits(r.low, 9, 5) = \b00011
             /\ Rn(r) = \b1111
             /\ Bit(r.high, 15) = 0,
             Expandable(r, Unpredictable(Rd(r) \in {13, 15})),
             New("kMvnImmediate", SetFlagsIfS(r) \cup {"k32Bit"},
                 [d |-> Rd(r), imm32_carry |-> ExpandedImm_C(r)]))

TbbHT1Decoder(r, it) ==
    Decoding(Bits(r.low, 15, 4) = \b111010001101 /\ Bits(r.high, 15, 5) = \b11110000000,
             Unpredictable(Rn(r) = 13 \/ Rm(r) \in {13, 15} \/ MidITBlock(it)),
             New("kTbbH", When(Bit(r.high, 4) = 1, "kTbh") \cup {"k32Bit"}, [m |-> Rm(r), n |-> Rn(r)]))

RsbImmediateT2Decoder(r, it) ==
    Decoding(Bits(r.low, 15, 11) = \b11110 /\ Bits(r.low, 9, 5) = \b01110 /\ Bit(r.high, 15) = 0,
             Expandable(r, Unpredictable(AnySpOrPc({Rd(r), Rn(r)}))),
             New("kRsbImmediate", SetFlagsIfS(r) \cup {"k32Bit"},
                 [n |-> Rn(r), d |-> Rd(r), imm32 |-> ExpandedImm(r)]))

MovRegisterT3Decoder(r, it) ==
    LET flags == SetFlagsIfS(r)
    IN  Decoding(/\ Bits(r.low, 15, 5) = \b11101010010
                 /\ Rn(r) = \b1111
                 /\ Rt(r) = \b0000
                 /\ Bits(r.high, 7, 4) = \b0000,
                 Unpredictable("k32Bit" \in flags /\ AnySpOrPc({Rd(r), Rm(r)})),
                 New("kMovRegister", flags \cup {"k32Bit"}, [d |-> Rd(r), m |-> Rm(r)]))

RrxT1Decoder(r, it) ==
    Decoding(/\ Bits(r.low, 15, 5) = \b11101010010
             /\ Rn(r) = \b1111
             /\ Rt(r) = \b0000
             /\ Bits(r.high, 7, 4) = \b0011,
             Unpredictable(AnySpOrPc({Rd(r), Rm(r)})),
             New("kRrx", SetFlagsIfS(r) \cup {"k32Bit"}, [d |-> Rd(r), m |-> Rm(r)]))

LdrLiteralT2Decoder(r, it) ==
    Decoding(Bits(r.low, 15, 8) = \b11111000 /\ Bits(r.low, 6, 0) = \b1011111,
             Unpredictable(Rt(r) = 15 /\ MidITBlock(it)),
             New("kLdrLiteral", When(Bit(r.low, 7) = 1, "kAdd") \cup {"k32Bit"},
                 [t |-> Rt(r), imm32 |-> Bits(r.high, 11, 0)]))

LdrbImmediateT2Decoder(r, it) ==
    Decoding(Bits(r.low, 15, 4) = \b111110001001 /\ Rt(r) # \b1111 /\ Rn(r) # \b1111,
             Unpredictable(Rt(r) = 13),
             New("kLdrbImmediate", {"kAdd", "kIndex", "k32Bit"},
                 [t |-> Rt(r), n |-> Rn(r), imm32 |-> Bits(r.high, 11, 0)]))

LdrbImmediateT3Decoder(r, it) ==
    LET U == Bit(r.high, 9)
        P == Bit(r.high, 10)
        W == Bit(r.high, 8)
        imm32 == Bits(r.high, 7, 0)
        flags == IndexFlags(P, U, W)
    IN  Decoding(/\ Bits(r.low, 15, 4) = \b111110000001
                 /\ Bit(r.high, 11) = 1
                 /\ Rt(r) # \b1111 \/ P # 1 \/ U # 0 \/ W # 0
                 /\ Rn(r) # \b1111
                 /\ P # 1 \/ U # 1 \/ W # 0
                 /\ Rn(r) # \b1101 \/ P # 0 \/ U # 1 \/ W # 1 \/ imm32 # \b00000100,
                 IF P = 0 /\ W = 0 THEN "kDecoderUndefined"
                     ELSE Unpredictable(Rt(r) = 13 \/ ("kWBack" \in flags /\ Rn(r) = Rt(r))
                         \/ (Rt(r) = 15 /\ (P = 0 \/ 1 \in {U, W}))),
                 New("kLdrbImmediate", flags, [t |-> Rt(r), n |-> Rn(r), imm32 |-> imm32]))

LdrsbImmediateT1Decoder(r, it) ==
    Decoding(Bits(r.low, 15, 4) = \b111110011001 /\ Rt(r) # \b1111 /\ Rn(r) # \b1111,
             Unpredictable(Rt(r) = 13),
             New("kLdrsbImmediate", {"kAdd", "kIndex", "k32Bit"},
                 [t |-> Rt(r), n |-> Rn(r), imm32 |-> Bits(r.high, 11, 0)]))

LdrsbImmediateT2Decoder(r, it) ==
    LET U == Bit(r.high, 9)
        P == Bit(r.high, 10)
        W == Bit(r.high, 8)
        imm32 == Bits(r.high, 7, 0)
        flags == IndexFlags(P, U, W)
    IN  Decoding(/\ FALSE
                 /\ Bits(r.low, 15, 4) = \b111110010001
                 /\ Bit(r.high, 11) = 1
                 /\ Rt(r) # \b1111 \/ P # 1 \/ U # 0 \/ W # 0
                 /\ Rn(r) # \b1111
                 /\ P # 1 \/ U # 1 \/ W # 0
                 /\ Rn(r) # \b1101 \/ P # 0 \/ U # 1 \/ W # 1 \/ imm32 # \b00000100,
                 IF P = 0 /\ W = 0 THEN "kDecoderUndefined"
                     ELSE Unpredictable(Rt(r) = 13 \/ (Rt(r) = 15 /\ W = 1)
                         \/ ("kWBack" \in flags /\ Rn(r) = Rt(r))),
                 New("kLdrsbImmediate", flags, [t |-> Rt(r), n |-> Rn(r), imm32 |-> imm32]))

LdrshImmediateT1Decoder(r, it) ==
    Decoding(Bits(r.low, 15, 4) = \b111110011011 /\ Rn(r) # \b1111 /\ Rt(r) # \b1111,
             Unpredictable(Rt(r) = 13),
             New("kLdrshImmediate", {"kAdd", "kIndex", "k32Bit"},
                 [t |-> Rt(r), n |-> Rn(r), imm32 |-> Bits(r.high, 11, 0)]))

LdrshImmediateT2Decoder(r, it) ==
    LET U == Bit(r.high, 9)
        P == Bit(r.high, 10)
        W == Bit(r.high, 8)
        flags == IndexFlags(P, U, W)
    IN  Decoding(/\ Bits(r.low, 15, 4) = \b111110010011
                 /\ Bit(r.high, 11) = 1
                 /\ Rn(r) # \b1111
                 /\ Rt(r) # \b1111 \/ P # 1 \/ U # 0 \/ W # 0
                 /\ P # 1 \/ U # 1 \/ W # 0,
                 IF P = 0 /\ W = 0 THEN "kDecoderUndefined"
                     ELSE Unpredictable(Rt(r) = 13 \/ (Rt(r) = 15 /\ W = 1)
                         \/ ("kWBack" \in flags /\ Rn(r) = Rt(r))),
                 New("kLdrshImmediate", flags, [t |-> Rt(r), n |-> Rn(r), imm32 |-> Bits(r.high, 7, 0)]))

LdrhImmediateT2Decoder(r, it) ==
    Decoding(Bits(r.low, 15, 4) = \b111110001011 /\ Rt(r) # \b1111 /\ Rn(r) # \b1111,
             Unpredictable(Rt(r) = 13),
             New("kLdrhImmediate", {"kAdd", "kIndex", "k32Bit"},
                 [t |-> Rt(r), n |-> Rn(r), imm32 |-> Bits(r.high, 11, 0)]))

LdrhImmediateT3Decoder(r, it) ==
    LET U == Bit(r.high, 9)
        P == Bit(r.high, 10)
        W == Bit(r.high, 8)
        flags == IndexFlags(P, U, W)
    IN  Decoding(/\ Bits(r.low, 15, 4) = \b111110000011
                 /\ Bit(r.high, 11) = 1
                 /\ Rn(r) # \b1111
                 /\ Rt(r) # \b1111 \/ P # 1 \/ U # 0 \/ W # 0
                 /\ P # 1 \/ U # 1 \/ W # 0,
                 IF P = 0 /\ W = 0 THEN "kDecoderUndefined"
                     ELSE Unpredictable(Rt(r) = 13 \/ (Rt(r) = 15 /\ W = 1)
                         \/ ("kWBack" \in flags /\ Rn(r) = Rt(r))),
                 New("kLdrhImmediate", flags, [t |-> Rt(r), n |-> Rn(r), imm32 |-> Bits(r.high, 7, 0)]))

PopT2Decoder(r, it) ==
    LET P == Bit(r.high, 15)
        M == Bit(r.high, 14)
        registers == P * 32768 + M * 16384 + Bits(r.high, 12, 0)
    IN  Decoding(r.low = \b1110100010111101 /\ Bit(r.high, 13) = 0,
                 Unpredictable(BitCount(registers) < 2 \/ (P = 1 /\ M = 1)
                     \/ (Bits(registers, 15, 15) = 1 /\ MidITBlock(it))),
                 New("kPop", {"k32Bit"}, [registers |-> registers]))

PopT3Decoder(r, it) ==
    Decoding(r.low = \b1111100001011101 /\ Bits(r.high, 11, 0) = \b101100000100,
             Unpredictable(Rt(r) = 13 \/ (Rt(r) = 15 /\ MidITBlock(it))),
             New("kPop", {"kUnalignedAllow", "k32Bit"}, [registers |-> 2^Rt(r)]))

LdrImmediateT3Decoder(r, it) ==
    Decoding(Bits(r.low, 15, 4) = \b111110001101, Unpredictable(Rt(r) = 15 /\ MidITBlock(it)),
             New("kLdrImmediate", {"kAdd", "kIndex", "k32Bit"},
                 [t |-> Rt(r), n |-> Rn(r), imm32 |-> Bits(r.high, 11, 0)]))

LdrImmediateT4Decoder(r, it) ==
    LET U == Bit(r.high, 9)
        P == Bit(r.high, 10)
        W == Bit(r.high, 8)
        flags == IndexFlags(P, U, W)
    IN  IF Rn(r) = \b1101 /\ P = 0 /\ U = 1 /\ W = 1 /\ Bits(r.high, 7, 0) = 4 THEN PopT3Decoder(r, it) ELSE
        Decoding(/\ Bits(r.low, 15, 4) = \b111110000101
                 /\ Bit(r.high, 11) = 1
                 /\ Rn(r) # \b1111
                 /\ P # 1 \/ U # 1 \/ W # 0,
                 Refuse((P = 0 /\ W = 0) \/ ("kWBack" \in flags /\ Rn(r) = Rt(r))
                     \/ (Rt(r) = 15 /\ MidITBlock(it)), "kDecoderUndefined"),
                 New("kLdrImmediate", flags, [t |-> Rt(r), n |-> Rn(r), imm32 |-> Bits(r.high, 7, 0)]))

LdrexT1Decoder(r, it) ==
    Decoding(Bits(r.low, 15, 4) = \b111010000101 /\ Rd(r) = \b1111,
             Refuse(Rt(r) \in {13, 15} \/ Rn(r) = 15, "kDecoderUndefined"),
             New("kLdrex", {"kAdd", "kIndex", "k32Bit"},
                 [t |-> Rt(r), n |-> Rn(r), imm32 |-> Bits(r.high, 7, 0)]))

LdrdImmediateT1Decoder(r, it) ==
    LET P == Bit(r.low, 8)
        W == Bit(r.low, 5)
        flags == IndexFlags(P, Bit(r.low, 7), W)
    IN  Decoding(/\ Bits(r.low, 15, 9) = \b1110100
                 /\ Bit(r.low, 6) = 1
                 /\ SBit(r) = 1
                 /\ P # 0 \/ W # 0
                 /\ Rn(r) # \b1111,
                 Unpredictable(("kWBack" \in flags /\ (Rn(r) = Rt(r) \/ Rn(r) = Rd(r)))
                     \/ AnySpOrPc({Rt(r), Rd(r)}) \/ Rt(r) = Rd(r)),
                 New("kLdrdImmediate", flags,
                     [t |-> Rt(r), t2 |-> Rd(r), n |-> Rn(r), imm32 |-> Bits(r.high, 7, 0) * 4]))

BlT1Decoder(r, it) ==
    Decoding(Bits(r.high, 15, 14) = 3 /\ Bit(r.high, 12) = 1 /\ Bits(r.low, 15, 11) = \b11110,
             Unpredictable(MidITBlock(it)),
             New("kBl", {"k32Bit"},
                 [imm32 |-> BranchOffset24(r)]))

BT3Decoder(r, it) ==
    Decoding(Bits(r.low, 15, 11) = \b11110 /\ Bits(r.high, 15, 14) = \b10 /\ Bit(r.high, 12) = 0,
             Unpredictable(InITBlock(it)),
             New("kBCond", {"k32Bit"},
                 [cond |-> Bits(r.low, 9, 6), imm32 |-> BranchOffset20(r)]))

BT4Decoder(r, it) ==
    Decoding(Bits(r.low, 15, 11) = \b11110 /\ Bits(r.high, 15, 14) = \b10 /\ Bit(r.high, 12) = 1,
             Unpredictable(MidITBlock(it)),
             New("kB", {"k32Bit"},
                 [imm32 |-> BranchOffset24(r)]))

SubSpMinusImmediateT2Decoder(r, it) ==
    Decoding(/\ Bits(r.low, 15, 11) = \b11110
             /\ Bits(r.low, 9, 5) = \b01101
             /\ Rn(r) = \b1101
             /\ Bit(r.high, 15) = 0
             /\ Expands(r) => (Rd(r) # \b1111 \/ SBit(r) # 1),
             Expandable(r, Unpredictable(Rd(r) = 15 /\ SBit(r) = 0)),
             New("kSubSpMinusImmediate", SetFlagsIfS(r) \cup {"k32Bit"},
                 [d |-> Rd(r), imm32 |-> ExpandedImm(r)]))

SubSpMinusImmediateT3Decoder(r, it) ==
    Decoding(Bits(r.low, 15, 11) = \b11110 /\ Bits(r.low, 9, 0) = \b1010101101 /\ Bit(r.high, 15) = 0,
             Unpredictable(Rd(r) = 15),
             New("kSubSpMinusImmediate", {"k32Bit"}, [d |-> Rd(r), imm32 |-> ModImm12(r)]))

SubImmediateT3Decoder(r, it) ==
    IF Rn(r) = \b1101 THEN SubSpMinusImmediateT2Decoder(r, it) ELSE
        Decoding(/\ Bits(r.low, 15, 11) = \b11110
                 /\ Bits(r.low, 9, 5) = \b01101
                 /\ Bit(r.high, 15) = 0
                 /\ Expands(r) => ~(Rd(r) = 15 /\ SBit(r) = 1),
                 Expandable(r, Unpredictable(Rd(r) = 13 \/ (Rd(r) = 15 /\ SBit(r) = 0) \/ Rn(r) = 15)),
                 New("kSubImmediate", SetFlagsIfS(r) \cup {"k32Bit"},
                     [n |-> Rn(r), d |-> Rd(r), imm32 |-> ExpandedImm(r)]))

SubImmediateT4Decoder(r, it) ==
    IF Rn(r) = \b1101 THEN SubSpMinusImmediateT3Decoder(r, it) ELSE
    Decoding(/\ Bits(r.low, 15, 11) = \b11110
             /\ Bits(r.low, 9, 4) = \b101010
             /\ Bit(r.high, 15) = 0
             /\ Rn(r) # \b1111,
             Unpredictable(Rd(r) \in {13, 15}),
             New("kSubImmediate", {"k32Bit"}, [n |-> Rn(r), d |-> Rd(r), imm32 |-> ModImm12(r)]))

SbcImmediateT1Decoder(r, it) ==
    Decoding(/\ Bits(r.low, 15, 11) = \b11110
             /\ Bits(r.low, 9, 5) = \b01011
             /\ Bit(r.high, 15) = 0
             /\ Expands(r) => ~(Rd(r) = 15 /\ SBit(r) = 1) /\ Rn(r) # 13,
             Expandable(r, Unpredictable(Rd(r) = 13 \/ (Rd(r) = 15 /\ SBit(r) = 0) \/ Rn(r) = 15)),
             New("kSbcImmediate", SetFlagsIfS(r) \cup {"k32Bit"},
                 [n |-> Rn(r), d |-> Rd(r), imm32 |-> ExpandedImm(r)]))

AddSpPlusImmediateT3Decoder(r, it) ==
    Decoding(/\ Bits(r.low, 15, 11) = \b11110
             /\ Bits(r.low, 9, 5) = \b01000
             /\ Rn(r) = \b1101
             /\ Bit(r.high, 15) = 0
             /\ Expands(r) => (Rd(r) # \b1111 \/ SBit(r) # 1),
             Expandable(r, Unpredictable(Rd(r) = 15 /\ SBit(r) = 0)),
             New("kAddSpPlusImmediate", SetFlagsIfS(r) \cup {"k32Bit"},
                 [d |-> Rd(r), imm32 |-> ExpandedImm(r)]))

AddSpPlusImmediateT4Decoder(r, it) ==
    Decoding(Bits(r.low, 15, 11) = \b11110 /\ Bits(r.low, 9, 0) = \b1000001101 /\ Bit(r.high, 15) = 0,
             Unpredictable(Rd(r) = 15),
             New("kAddSpPlusImmediate", {"k32Bit"}, [d |-> Rd(r), imm32 |-> ModImm12(r)]))

AddImmediateT3Decoder(r, it) ==
    IF Rn(r) = \b1101 THEN AddSpPlusImmediateT3Decoder(r, it) ELSE
        Decoding(/\ Bits(r.low, 15, 11) = \b11110
                 /\ Bits(r.low, 9, 5) = \b01000
                 /\ Bit(r.high, 15) = 0
                 /\ Expands(r) => ~(Rd(r) = 15 /\ SBit(r) = 1),
                 Expandable(r, Unpredictable(Rd(r) = 13 \/ (Rd(r) = 15 /\ SBit(r) = 0) \/ Rn(r) = 15)),
                 New("kAddImmediate", SetFlagsIfS(r) \cup {"k32Bit"},
                     [n |-> Rn(r), d |-> Rd(r), imm32 |-> ExpandedImm(r)]))

AddImmediateT4Decoder(r, it) ==
    IF Rn(r) = \b1101 THEN AddSpPlusImmediateT4Decoder(r, it) ELSE
    Decoding(/\ Bit(r.high, 15) = 0
             /\ Bits(r.low, 9, 5) = \b10000
             /\ Bits(r.low, 15, 11) = \b11110
             /\ Rn(r) # \b1111,
             Unpredictable(Rd(r) \in {13, 15}),
             New("kAddImmediate", {"k32Bit"}, [n |-> Rn(r), d |-> Rd(r), imm32 |-> ModImm12(r)]))

AdcImmediateT1Decoder(r, it) ==
    Decoding(Bits(r.low, 15, 11) = \b11110 /\ Bits(r.low, 9, 5) = \b01010 /\ Bit(r.high, 15) = 0,
             Expandable(r, Unpredictable(AnySpOrPc({Rd(r), Rn(r)}))),
             New("kAdcImmediate", SetFlagsIfS(r) \cup {"k32Bit"},
                 [n |-> Rn(r), d |-> Rd(r), imm32 |-> ExpandedImm(r)]))

TstImmediateT1Decoder(r, it) ==
    Decoding(/\ Bits(r.low, 15, 11) = \b11110
             /\ Bits(r.low, 9, 4) = \b000001
             /\ Bit(r.high, 15) = 0
             /\ Rd(r) = \b1111,
             Expandable(r, Unpredictable(Rn(r) \in {13, 15})),
             New("kTstImmediate", {"k32Bit"}, [n |-> Rn(r), imm32_carry |-> ExpandedImm_C(r)]))

TeqImmediateT1Decoder(r, it) ==
    Decoding(/\ Bits(r.low, 15, 11) = \b11110
             /\ Bits(r.low, 9, 4) = \b001001
             /\ Bit(r.high, 15) = 0
             /\ Rd(r) = \b1111,
             Expandable(r, Unpredictable(Rn(r) \in {13, 15})),
             New("kTeqImmediate", {"k32Bit"}, [n |-> Rn(r), imm32_carry |-> ExpandedImm_C(r)]))

TeqRegisterT1Decoder(r, it) ==
    Decoding(Bits(r.low, 15, 4) = \b111010101001 /\ Bit(r.high, 15) = 0 /\ Rd(r) = \b1111,
             Unpredictable(AnySpOrPc({Rn(r), Rm(r)})),
             New("kTeqRegister", {"k32Bit"},
                 [n |-> Rn(r), m |-> Rm(r), shift_res |-> DecodeImmShift(Bits(r.high, 5, 4), ImmShift5(r))]))

AndImmediateT1Decoder(r, it) ==
    Decoding(Bit(r.high, 15) = 0 /\ (Rd(r) # \b1111 \/ SBit(r) # 1) /\ Bits(r.low, 9, 5) = \b00000,
             Expandable(r, Unpredictable(Rd(r) = 13 \/ (Rd(r) = 15 /\ SBit(r) = 0) \/ Rn(r) \in {13, 15})),
             New("kAndImmediate", SetFlagsIfS(r) \cup {"k32Bit"},
                 [n |-> Rn(r), d |-> Rd(r), imm32_carry |-> ExpandedImm_C(r)]))

OrrImmediateT1Decoder(r, it) ==
    Decoding(/\ Bits(r.low, 15, 11) = \b11110
             /\ Bits(r.low, 9, 5) = \b00010
             /\ Bit(r.high, 15) = 0
             /\ Expands(r) => Rn(r) # \b1111,
             Expandable(r, Unpredictable(Rd(r) \in {13, 15} \/ Rn(r) = 13)),
             New("kOrrImmediate", SetFlagsIfS(r) \cup {"k32Bit"},
                 [n |-> Rn(r), d |-> Rd(r), imm32_carry |-> ExpandedImm_C(r)]))

EorImmediateT1Decoder(r, it) ==
    Decoding(Bits(r.low, 15, 11) = \b11110 /\ Bits(r.low, 9, 5) = \b00100 /\ Bit(r.high, 15) = 0,
             Expandable(r, Unpredictable(Rd(r) = 13 \/ (Rd(r) = 15 /\ SBit(r) = 0) \/ Rn(r) \in {13, 15})),
             New("kEorImmediate", SetFlagsIfS(r) \cup {"k32Bit"},
                 [n |-> Rn(r), d |-> Rd(r), imm32_carry |-> ExpandedImm_C(r)]))

SubRegisterT2Decoder(r, it) ==
    Decoding(/\ Bits(r.low, 15, 5) = \b11101011101
             /\ Bit(r.high, 15) = 0
             /\ Rd(r) # \b1111 \/ SBit(r) # 1
             /\ Rn(r) # \b1101,
             Unpredictable(Rd(r) = 13 \/ (Rd(r) = 15 /\ SBit(r) = 0) \/ Rn(r) = 15 \/ Rm(r) \in {13, 15}),
             New("kSubRegister", SetFlagsIfS(r) \cup {"k32Bit"},
                 [shift_res |-> DecodeImmShift(Bits(r.high, 5, 4), ImmShift5(r)), m |-> Rm(r), n |-> Rn(r),
                     d |-> Rd(r)]))

RsbRegisterT1Decoder(r, it) ==
    Decoding(Bits(r.low, 15, 5) = \b11101011110 /\ Bit(r.high, 15) = 0,
             Unpredictable(AnySpOrPc({Rd(r), Rn(r), Rm(r)})),
             New("kRsbRegister", SetFlagsIfS(r) \cup {"k32Bit"},
                 [shift_res |-> DecodeImmShift(Bits(r.high, 5, 4), ImmShift5(r)), m |-> Rm(r), n |-> Rn(r),
                     d |-> Rd(r)]))

UmlalT1Decoder(r, it) ==
    Decoding(Bits(r.low, 15, 4) = \b111110111110 /\ Bits(r.high, 7, 4) = \b0000,
             Unpredictable(AnySpOrPc({Rt(r), Rd(r), Rn(r), Rm(r)}) \/ Rd(r) = Rt(r)),
             New("kUmlal", {"k32Bit"}, [dHi |-> Rd(r), dLo |-> Rt(r), m |-> Rm(r), n |-> Rn(r)]))

\* Mutant: only the equality of the two destinations is refused.
UmullT1DecoderUnchecked(r, it) ==
    Decoding(Bits(r.low, 15, 4) = \b111110111010 /\ Bits(r.high, 7, 4) = \b0000,
             Unpredictable(Rd(r) = Rt(r)),
             New("kUmull", {"k32Bit"}, [dHi |-> Rd(r), dLo |-> Rt(r), m |-> Rm(r), n |-> Rn(r)]))

UmullT1Decoder(r, it) ==
    Decoding(Bits(r.low, 15, 4) = \b111110111010 /\ Bits(r.high, 7, 4) = \b0000,
             Unpredictable(AnySpOrPc({Rt(r), Rd(r), Rn(r), Rm(r)}) \/ Rd(r) = Rt(r)),
             New("kUmull", {"k32Bit"}, [dHi |-> Rd(r), dLo |-> Rt(r), m |-> Rm(r), n |-> Rn(r)]))

SmullT1Decoder(r, it) ==
    Decoding(Bits(r.low, 15, 4) = \b111110111000 /\ Bits(r.high, 7, 4) = \b0000,
             Unpredictable(Rd(r) = Rt(r)),
             New("kSmull", {"k32Bit"}, [dHi |-> Rd(r), dLo |-> Rt(r), m |-> Rm(r), n |-> Rn(r)]))

MulT2Decoder(r, it) ==
    Decoding(Bits(r.low, 15, 4) = \b111110110000 /\ Rt(r) = \b1111 /\ Bits(r.high, 7, 4) = \b0000,
             Unpredictable(AnySpOrPc({Rd(r), Rn(r), Rm(r)})),
             New("kMul", {"k32Bit"}, [d |-> Rd(r), m |-> Rm(r), n |-> Rn(r)]))

UdivT1Decoder(r, it) ==
    Decoding(Bits(r.low, 15, 4) = \b111110111011 /\ Rt(r) = \b1111 /\ Bits(r.high, 7, 4) = \b1111,
             Unpredictable(AnySpOrPc({Rd(r), Rn(r), Rm(r)})),
             New("kUdiv", {"k32Bit"}, [d |-> Rd(r), m |-> Rm(r), n |-> Rn(r)]))

SdivT1Decoder(r, it) ==
    Decoding(Bits(r.low, 15, 4) = \b111110111001 /\ Rt(r) = \b1111 /\ Bits(r.high, 7, 4) = \b1111,
             Unpredictable(AnySpOrPc({Rd(r), Rn(r), Rm(r)})),
             New("kSdiv", {"k32Bit"}, [d |-> Rd(r), m |-> Rm(r), n |-> Rn(r)]))

MlsT1Decoder(r, it) ==
    Decoding(Bits(r.low, 15, 4) = \b111110110000 /\ Bits(r.high, 7, 4) = \b0001,
             Unpredictable(AnySpOrPc({Rd(r), Rn(r), Rm(r), Rt(r)})),
             New("kMls", {"k32Bit"}, [a |-> Rt(r), d |-> Rd(r), m |-> Rm(r), n |-> Rn(r)]))

MlaT1Decoder(r, it) ==
    Decoding(Bits(r.low, 15, 4) = \b111110110000 /\ Bits(r.high, 7, 4) = \b0000 /\ Rt(r) # \b1111,
             Unpredictable(AnySpOrPc({Rd(r), Rn(r), Rm(r), Rt(r)})),
             New("kMla", {"k32Bit"}, [a |-> Rt(r), d |-> Rd(r), m |-> Rm(r), n |-> Rn(r)]))

AddRegisterT3Decoder(r, it) ==
    Decoding(/\ Bits(r.low, 15, 5) = \b11101011000
             /\ Bit(r.high, 15) = 0
             /\ Rd(r) # \b1111 \/ SBit(r) # 1
             /\ Rm(r) # \b1101,
             Unpredictable(Rd(r) = 13 \/ (Rd(r) = 15 /\ SBit(r) = 0) \/ Rn(r) = 15 \/ Rm(r) \in {13, 15}),
             New("kAddRegister", SetFlagsIfS(r) \cup {"k32Bit"},
                 [shift_res |-> DecodeImmShift(Bits(r.high, 5, 4), ImmShift5(r)), m |-> Rm(r), n |-> Rn(r),
                     d |-> Rd(r)]))

AdcRegisterT2Decoder(r, it) ==
    Decoding(Bits(r.low, 15, 5) = \b11101011010 /\ Bit(r.high, 15) = 0,
             Unpredictable(AnySpOrPc({Rd(r), Rn(r), Rm(r)})),
             New("kAdcRegister", SetFlagsIfS(r) \cup {"k32Bit"},
                 [shift_res |-> DecodeImmShift(Bits(r.high, 5, 4), ImmShift5(r)), m |-> Rm(r), n |-> Rn(r),
                     d |-> Rd(r)]))

StmdbT1Decoder(r, it) ==
    LET W == Bit(r.low, 5)
        registers == Bit(r.high, 14) * 16384 + Bits(r.high, 12, 0)
    IN  Decoding(/\ FALSE
                 /\ Bits(r.low, 15, 6) = \b1110100100
                 /\ SBit(r) = 0
                 /\ Bit(r.high, 15) = 0
                 /\ Bit(r.high, 13) = 0
                 /\ W # 1 \/ Rn(r) # \b1101,
                 Unpredictable(Rn(r) = 15 \/ BitCount(registers) < 2),
                 New("kStmdb", When(W = 1, "kWBack") \cup {"k32Bit"},
                     [n |-> Rn(r), registers |-> registers]))

PushT2Decoder(r, it) ==
    LET registers == Bit(r.high, 14) * 16384 + Bits(r.high, 12, 0)
    IN  Decoding(r.low = \b1110100100101101 /\ Bit(r.high, 15) = 0 /\ Bit(r.high, 13) = 0,
                 Unpredictable(BitCount(registers) < 2),
                 New("kPush", {"k32Bit"}, [registers |-> registers]))

PushT3Decoder(r, it) ==
    Decoding(r.low = \b1111100001001101 /\ Bits(r.high, 11, 0) = \b110100000100,
             Unpredictable(Rt(r) \in {13, 15}),
             New("kPush", {"kUnalignedAllow", "k32Bit"}, [registers |-> 2^Rt(r)]))

LdmT2Decoder(r, it) ==
    LET W == Bit(r.low, 5)
        P == Bit(r.high, 15)
        M == Bit(r.high, 14)
        registers == P * 32768 + M * 16384 + Bits(r.high, 12, 0)
        flags == When(W = 1, "kWBack") \cup {"k32Bit"}
    IN  Decoding(/\ Bits(r.low, 15, 6) = \b1110100010
                 /\ SBit(r) = 1
                 /\ Bit(r.high, 13) = 0
                 /\ W # 1 \/ Rn(r) # \b1101,
                 Unpredictable(Rn(r) = 15 \/ BitCount(registers) < 2 \/ (P = 1 /\ M = 1)
                     \/ (Bits(registers, 15, 15) = 1 /\ MidITBlock(it))
                         \/ ("kWBack" \in flags /\ Bit(registers, Rn(r)) # 0)),
                 New("kLdm", flags, [registers |-> registers, n |-> Rn(r)]))

StmT2Decoder(r, it) ==
    LET registers == Bit(r.high, 14) * 16384 + Bits(r.high, 12, 0)
        flags == When(Bit(r.low, 5) = 1, "kWBack") \cup {"k32Bit"}
    IN  Decoding(/\ Bits(r.low, 15, 6) = \b1110100010
                 /\ SBit(r) = 0
                 /\ Bit(r.high, 15) = 0
                 /\ Bit(r.high, 13) = 0,
                 Unpredictable(Rn(r) = 15 \/ BitCount(registers) < 2
                     \/ ("kWBack" \in flags /\ Bit(registers, Rn(r)) # 0)),
                 New("kStm", flags, [registers |-> registers, n |-> Rn(r)]))

SxthT2Decoder(r, it) ==
    Decoding(r.low = \b1111101000001111 /\ Rt(r) = \b1111 /\ Bits(r.high, 7, 6) = \b10,
             Unpredictable(AnySpOrPc({Rd(r), Rm(r)})),
             New("kSxth", {"k32Bit"}, [m |-> Rm(r), d |-> Rd(r), rotation |-> Bits(r.high, 5, 4) * 8]))

UxtbT2Decoder(r, it) ==
    Decoding(r.low = \b1111101001011111 /\ Rt(r) = \b1111 /\ Bits(r.high, 7, 6) = \b10,
             Unpredictable(AnySpOrPc({Rd(r), Rm(r)})),
             New("kUxtb", {"k32Bit"}, [m |-> Rm(r), d |-> Rd(r), rotation |-> Bits(r.high, 5, 4) * 8]))

SxtbT2Decoder(r, it) ==
    Decoding(r.low = \b1111101001001111 /\ Rt(r) = \b1111 /\ Bits(r.high, 7, 6) = \b10,
             Unpredictable(AnySpOrPc({Rd(r), Rm(r)})),
             New("kSxtb", {"k32Bit"}, [m |-> Rm(r), d |-> Rd(r), rotation |-> Bits(r.high, 5, 4) * 8]))

UxthT2Decoder(r, it) ==
    Decoding(r.low = \b1111101000011111 /\ Rt(r) = \b1111 /\ Bits(r.high, 7, 6) = \b10,
             Unpredictable(AnySpOrPc({Rd(r), Rm(r)})),
             New("kUxth", {"k32Bit"}, [m |-> Rm(r), d |-> Rd(r), rotation |-> Bits(r.high, 5, 4) * 8]))

BfiT1Decoder(r, it) ==
    Decoding(Bits(r.low, 15, 4) = \b111100110110 /\ Bit(r.high, 15) = 0 /\ Bit(r.high, 5) = 0,
             Unpredictable(Rd(r) \in {13, 15} \/ Rn(r) = 13),
             New("kBfi", {"k32Bit"},
                 [d |-> Rd(r), n |-> Rn(r), lsbit |-> ImmShift5(r), msbit |-> Bits(r.high, 4, 0)]))

UbfxT1Decoder(r, it) ==
    Decoding(Bits(r.low, 15, 4) = \b111100111100 /\ Bit(r.high, 15) = 0 /\ Bit(r.high, 5) = 0,
             Unpredictable(AnySpOrPc({Rd(r), Rn(r)})),
             New("kUbfx", {"k32Bit"},
                 [d |-> Rd(r), n |-> Rn(r), lsbit |-> ImmShift5(r), widthminus1 |-> Bits(r.high, 4, 0)]))

EorRegisterT2Decoder(r, it) ==
    Decoding(/\ Bits(r.low, 15, 5) = \b11101010100
             /\ Bit(r.high, 15) = 0
             /\ Rd(r) # \b1111 \/ SBit(r) # 1,
             Unpredictable(Rd(r) = 13 \/ (Rd(r) = 15 /\ SBit(r) = 0) \/ Rn(r) = 15 \/ Rm(r) \in {13, 15}),
             New("kEorRegister", SetFlagsIfS(r) \cup {"k32Bit"},
                 [n |-> Rn(r), d |-> Rd(r), m |-> Rm(r), shift_res |-> DecodeImmShift(Bits(r.high, 5, 4),
                     ImmShift5(r))]))

SbcRegisterT2Decoder(r, it) ==
    Decoding(Bits(r.low, 15, 5) = \b11101011011 /\ Bit(r.high, 15) = 0,
             Unpredictable(AnySpOrPc({Rd(r), Rn(r), Rm(r)})),
             New("kSbcRegister", SetFlagsIfS(r) \cup {"k32Bit"},
                 [n |-> Rn(r), d |-> Rd(r), m |-> Rm(r), shift_res |-> DecodeImmShift(Bits(r.high, 5, 4),
                     ImmShift5(r))]))

OrrRegisterT2Decoder(r, it) ==
    Decoding(Bits(r.low, 15, 5) = \b11101010010 /\ Bit(r.high, 15) = 0 /\ Rn(r) # \b1111,
             Unpredictable(AnySpOrPc({Rd(r), Rm(r)}) \/ Rn(r) = 15),
             New("kOrrRegister", SetFlagsIfS(r) \cup {"k32Bit"},
                 [n |-> Rn(r), d |-> Rd(r), m |-> Rm(r), shift_res |-> DecodeImmShift(Bits(r.high, 5, 4),
                     ImmShift5(r))]))

AndRegisterT2Decoder(r, it) ==
    Decoding(/\ Bits(r.low, 15, 5) = \b11101010000
             /\ Bit(r.high, 15) = 0
             /\ Rd(r) # \b1111 \/ SBit(r) # 1,
             Unpredictable(Rd(r) = 13 \/ (Rd(r) = 15 /\ SBit(r) = 0) \/ AnySpOrPc({Rn(r), Rm(r)})),
             New("kAndRegister", SetFlagsIfS(r) \cup {"k32Bit"},
                 [n |-> Rn(r), d |-> Rd(r), m |-> Rm(r), shift_res |-> DecodeImmShift(Bits(r.high, 5, 4),
                     ImmShift5(r))]))

BicImmediateT1Decoder(r, it) ==
    Decoding(Bits(r.low, 9, 5) = \b00001 /\ Bit(r.high, 15) = 0,
             Expandable(r, Unpredictable(AnySpOrPc({Rd(r), Rn(r)}))),
             New("kBicImmediate", SetFlagsIfS(r) \cup {"k32Bit"},
                 [n |-> Rn(r), d |-> Rd(r), imm32_carry |-> ExpandedImm_C(r)]))

BicRegisterT2Decoder(r, it) ==
    Decoding(Bits(r.low, 15, 5) = \b11101010001 /\ Bit(r.high, 15) = 0,
             Unpredictable(AnySpOrPc({Rd(r), Rn(r), Rm(r)})),
             New("kBicRegister", SetFlagsIfS(r) \cup {"k32Bit"},
                 [n |-> Rn(r), d |-> Rd(r), m |-> Rm(r), shift_res |-> DecodeImmShift(Bits(r.high, 5, 4),
                     ImmShift5(r))]))

LsrRegisterT2Decoder(r, it) ==
    Decoding(Bits(r.low, 15, 5) = \b11111010001 /\ Rt(r) = \b1111 /\ Bits(r.high, 7, 4) = \b0000,
             Unpredictable(AnySpOrPc({Rd(r), Rn(r), Rm(r)})),
             New("kLsrRegister", SetFlagsIfS(r) \cup {"k32Bit"},
                 [n |-> Rn(r), d |-> Rd(r), m |-> Rm(r)]))

AsrRegisterT2Decoder(r, it) ==
    Decoding(Bits(r.low, 15, 5) = \b11111010010 /\ Rt(r) = \b1111 /\ Bits(r.high, 7, 4) = \b0000,
             Unpredictable(AnySpOrPc({Rd(r), Rn(r), Rm(r)})),
             New("kAsrRegister", SetFlagsIfS(r) \cup {"k32Bit"},
                 [n |-> Rn(r), d |-> Rd(r), m |-> Rm(r)]))

LsrImmediateT2Decoder(r, it) ==
    LET shift_res == DecodeImmShift(\b01, ImmShift5(r))
    IN  Decoding(/\ Bits(r.low, 15, 5) = \b11101010010
                 /\ Rn(r) = \b1111
                 /\ Bit(r.high, 15) = 0
                 /\ Bits(r.high, 5, 4) = \b01
                 /\ shift_res.type = "LSR",
                 Unpredictable(AnySpOrPc({Rd(r), Rm(r)})),
                 New("kLsrImmediate", SetFlagsIfS(r) \cup {"k32Bit"},
                     [m |-> Rm(r), d |-> Rd(r), shift_res |-> shift_res]))

MvnRegisterT2Decoder(r, it) ==
    Decoding(Bits(r.low, 15, 5) = \b11101010011 /\ Rn(r) = \b1111 /\ Bit(r.high, 15) = 0,
             Unpredictable(AnySpOrPc({Rd(r), Rm(r)})),
             New("kMvnRegister", SetFlagsIfS(r) \cup {"k32Bit"},
                 [m |-> Rm(r), d |-> Rd(r), shift_res |-> DecodeImmShift(Bits(r.high, 5, 4), ImmShift5(r))]))

AsrImmediateT2Decoder(r, it) ==
    LET shift_res == DecodeImmShift(\b10, ImmShift5(r))
    IN  Decoding(/\ Bits(r.low, 15, 5) = \b11101010010
                 /\ Rn(r) = \b1111
                 /\ Bit(r.high, 15) = 0
                 /\ Bits(r.high, 5, 4) = \b10
                 /\ shift_res.type = "ASR",
                 Unpredictable(AnySpOrPc({Rd(r), Rm(r)})),
                 New("kAsrImmediate", SetFlagsIfS(r) \cup {"k32Bit"},
                     [m |-> Rm(r), d |-> Rd(r), shift_res |-> shift_res]))

StrRegisterT2Decoder(r, it) ==
    Decoding(Bits(r.low, 15, 4) = \b111110000100 /\ Bits(r.high, 11, 6) = \b000000,
             Unpredictable(Rt(r) = 15 \/ Rm(r) \in {13, 15}),
             New("kStrRegister", {"kAdd", "kIndex", "k32Bit"},
                 [n |-> Rn(r), m |-> Rm(r), t |-> Rt(r), shift_res |-> ImmShift("LSL", Bits(r.high, 5, 4))]))

StrbRegisterT2Decoder(r, it) ==
    Decoding(Bits(r.low, 15, 4) = \b111110000000 /\ Bits(r.high, 11, 6) = \b000000,
             IF Rn(r) = \b1111 THEN "kDecoderUndefined" ELSE Unpredictable(AnySpOrPc({Rt(r), Rm(r)})),
             New("kStrbRegister", {"kAdd", "kIndex", "k32Bit"},
                 [n |-> Rn(r), m |-> Rm(r), t |-> Rt(r), shift_res |-> ImmShift("LSL", Bits(r.high, 5, 4))]))

StrhRegisterT2Decoder(r, it) ==
    Decoding(Bits(r.low, 15, 4) = \b111110000010 /\ Bits(r.high, 11, 6) = \b000000,
             IF Rn(r) = \b1111 THEN "kDecoderUndefined" ELSE Unpredictable(AnySpOrPc({Rt(r), Rm(r)})),
             New("kStrhRegister", {"kAdd", "kIndex", "k32Bit"},
                 [n |-> Rn(r), m |-> Rm(r), t |-> Rt(r), shift_res |-> ImmShift("LSL", Bits(r.high, 5, 4))]))

LdrRegisterT2Decoder(r, it) ==
    Decoding(Bits(r.low, 15, 4) = \b111110000101 /\ Bits(r.high, 11, 6) = \b000000 /\ Rn(r) # \b1111,
             Unpredictable(Rm(r) \in {13, 15} \/ (Rt(r) = 15 /\ MidITBlock(it))),
             New("kLdrRegister", {"kAdd", "kIndex", "k32Bit"},
                 [m |-> Rm(r), n |-> Rn(r), t |-> Rt(r), shift_res |-> ImmShift("LSL", Bits(r.high, 5, 4))]))

LdrhRegisterT2Decoder(r, it) ==
    Decoding(/\ Bits(r.low, 15, 4) = \b111110000011
             /\ Bits(r.high, 11, 6) = \b000000
             /\ Rn(r) # \b1111
             /\ Rt(r) # \b1111,
             Unpredictable(Rt(r) = 13 \/ Rm(r) \in {13, 15}),
             New("kLdrhRegister", {"kAdd", "kIndex", "k32Bit"},
                 [m |-> Rm(r), n |-> Rn(r), t |-> Rt(r), shift_res |-> ImmShift("LSL", Bits(r.high, 5, 4))]))

StrdImmediateT1Decoder(r, it) ==
    LET P == Bit(r.low, 8)
        W == Bit(r.low, 5)
        flags == IndexFlags(P, Bit(r.low, 7), W)
    IN  Decoding(Bits(r.low, 15, 9) = \b1110100 /\ Bit(r.low, 6) = 1 /\ SBit(r) = 0 /\ (P # 0 \/ W # 0),
                 Unpredictable(("kWBack" \in flags /\ (Rn(r) = Rt(r) \/ Rn(r) = Rd(r))) \/ Rn(r) = 15
                     \/ AnySpOrPc({Rt(r), Rd(r)})),
                 New("kStrdImmediate", flags,
                     [n |-> Rn(r), t |-> Rt(r), t2 |-> Rd(r), imm32 |-> Bits(r.high, 7, 0) * 4]))

StrhImmediateT2Decoder(r, it) ==
    Decoding(Bits(r.low, 15, 4) = \b111110001010, Unpredictable(Rt(r) \in {13, 15}),
             New("kStrhImmediate", {"kAdd", "kIndex", "k32Bit"},
                 [n |-> Rn(r), t |-> Rt(r), imm32 |-> Bits(r.high, 11, 0)]))

StrhImmediateT3Decoder(r, it) ==
    LET U == Bit(r.high, 9)
        P == Bit(r.high, 10)
        W == Bit(r.high, 8)
        flags == IndexFlags(P, U, W)
    IN  Decoding(Bits(r.low, 15, 4) = \b111110000010 /\ Bit(r.high, 11) = 1 /\ (P # 1 \/ U # 1 \/ W # 0),
                 IF Rn(r) = 15 \/ (P = 0 /\ W = 0) THEN "kDecoderUndefined"
                     ELSE Unpredictable((Rt(r) \in {13, 15}) /\ "kWBack" \in flags /\ Rn(r) = Rt(r)),
                 New("kStrhImmediate", flags, [n |-> Rn(r), t |-> Rt(r), imm32 |-> Bits(r.high, 7, 0)]))

StrbImmediateT2Decoder(r, it) ==
    Decoding(Bits(r.low, 15, 4) = \b111110001000,
             IF Rn(r) = \b1111 THEN "kDecoderUndefined" ELSE Unpredictable(Rt(r) \in {13, 15}),
             New("kStrbImmediate", {"kAdd", "kIndex", "k32Bit"},
                 [n |-> Rn(r), t |-> Rt(r), imm32 |-> Bits(r.high, 11, 0)]))

StrbImmediateT3Decoder(r, it) ==
    LET U == Bit(r.high, 9)
        P == Bit(r.high, 10)
        W == Bit(r.high, 8)
        flags == IndexFlags(P, U, W)
    IN  Decoding(Bits(r.low, 15, 4) = \b111110000000 /\ Bit(r.high, 11) = 1 /\ (P # 1 \/ U # 1 \/ W # 0),
                 IF Rn(r) = 15 \/ (P = 0 /\ W = 0) THEN "kDecoderUndefined"
                     ELSE Unpredictable(Rt(r) \in {13, 15} \/ ("kWBack" \in flags /\ Rn(r) = Rt(r))),
                 New("kStrbImmediate", flags, [n |-> Rn(r), t |-> Rt(r), imm32 |-> Bits(r.high, 7, 0)]))

StrImmediateT3Decoder(r, it) ==
    Decoding(Bits(r.low, 15, 4) = \b111110001100,
             IF Rn(r) = \b1111 THEN "kDecoderUndefined" ELSE Unpredictable(Rt(r) = 15),
             New("kStrImmediate", {"kAdd", "kIndex", "k32Bit"},
                 [n |-> Rn(r), t |-> Rt(r), imm32 |-> Bits(r.high, 11, 0)]))

StrImmediateT4Decoder(r, it) ==
    LET U == Bit(r.high, 9)
        P == Bit(r.high, 10)
        W == Bit(r.high, 8)
        flags == IndexFlags(P, U, W)
    IN  IF Rn(r) = 13 /\ P = 1 /\ U = 0 /\ W = 1 /\ Bits(r.high, 7, 0) = 4 THEN PushT3Decoder(r, it) ELSE
        Decoding(Bits(r.low, 15, 4) = \b111110000100 /\ Bit(r.high, 11) = 1 /\ (P # 1 \/ U # 1 \/ W # 0),
                 IF Rn(r) = 15 \/ (P = 0 /\ W = 0) THEN "kDecoderUndefined"
                     ELSE Unpredictable(Rt(r) = 15 \/ ("kWBack" \in flags /\ Rn(r) = Rt(r))),
                 New("kStrImmediate", flags, [n |-> Rn(r), t |-> Rt(r), imm32 |-> Bits(r.high, 7, 0)]))

StrexT1Decoder(r, it) ==
    Decoding(Bits(r.low, 15, 4) = \b111010000100, Unpredictable(Rd(r) = Rn(r) \/ Rd(r) = Rt(r)),
             New("kStrex", {"kAdd", "kIndex", "k32Bit"},
                 [n |-> Rn(r), t |-> Rt(r), d |-> Rd(r), imm32 |-> Bits(r.high, 7, 0)]))

MsrT1Decoder(r, it) ==
    LET mask == Bits(r.high, 11, 10)
        SYSm == Bits(r.high, 7, 0)
    IN  Decoding(Bits(r.low, 15, 4) = \b111100111000 /\ Rt(r) = \b1000 /\ Bits(r.high, 9, 8) = \b00,
                 Unpredictable(mask = 0 \/ (mask # \b10 /\ SYSm \notin {0, 1, 2, 3}) \/ Rn(r) \in {13, 15}
                     \/ SYSm \notin {0, 1, 2, 3, 5, 6, 7, 8, 9, 16, 17, 18, 19, 20}),
                 New("kMsr", {"k32Bit"}, [n |-> Rn(r), mask |-> mask, SYSm |-> SYSm]))

MrsT1Decoder(r, it) ==
    LET SYSm == Bits(r.high, 7, 0)
    IN  Decoding(r.low = \b1111001111101111 /\ Rt(r) = \b1000,
                 Unpredictable(Rd(r) \in {13, 15}
                     \/ SYSm \notin {0, 1, 2, 3, 5, 6, 7, 8, 9, 16, 17, 18, 19, 20}),
                 New("kMrs", {"k32Bit"}, [d |-> Rd(r), mask |-> Bits(r.high, 11, 10), SYSm |-> SYSm]))
==============================================================================
