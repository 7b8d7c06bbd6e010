----------------------------- MODULE DecoderTree -------------------------------
(***************************************************************************)
(* The tree of splitters that chooses the decoder of a raw instruction     *)
(* (decoder/op_decoders.h, from Splitter16bit_op00000 to call_decoder).    *)
(* The conditions of each chain are disjoint, so a chain is a CASE.        *)
(***************************************************************************)
EXTENDS NarrowDecoders, WideDecoders

Splitter16bit_op00000(r, it) ==
    IF Bits(r.low, 13, 11) # 0 THEN UnknownOpCode
    ELSE IF Bits(r.low, 10, 6) = 0 THEN MovRegisterT2Decoder(r, it)
    ELSE LslImmediateT1Decoder(r, it)

Splitter16bit_op00011(r, it) ==
    LET opcode == Bits(r.low, 13, 9)
    IN  CASE opcode = \b01100 -> AddRegisterT1Decoder(r, it)
          [] opcode = \b01110 -> AddImmediateT1Decoder(r, it)
          [] opcode = \b01101 -> SubRegisterT1Decoder(r, it)
          [] opcode = \b01111 -> SubImmediateT1Decoder(r, it)
          [] OTHER -> UnknownOpCode

Splitter16bit_op01010(r, it) ==
    LET op_b == Bits(r.low, 11, 9)
    IN  IF Bits(r.low, 15, 12) # \b0101 THEN UnknownOpCode
        ELSE CASE op_b = \b000 -> StrRegisterT1Decoder(r, it)
               [] op_b = \b010 -> StrbRegisterT1Decoder(r, it)
               [] OTHER -> UnknownOpCode

Splitter16bit_op10111(r, it) ==
    LET opcode == Bits(r.low, 11, 5)
        op63 == Bits(opcode, 6, 3)
    IN  CASE op63 \in {\b1001, \b1011} -> CbNZT1Decoder(r, it)
          [] Bits(opcode, 6, 4) = \b110 -> PopT1Decoder(r, it)
          [] op63 = \b1110 -> BkptT1Decoder(r, it)
          [] op63 = \b1111 /\ Bits(r.low, 3, 0) # 0 -> ItT1Decoder(r, it)
          [] op63 = \b1111 /\ Bits(r.low, 7, 0) = 0 -> NopT1Decoder(r, it)
          [] OTHER -> UnknownOpCode

Splitter16bit_op10110(r, it) ==
    LET opcode == Bits(r.low, 11, 5)
        op61 == Bits(opcode, 6, 1)
    IN  CASE Bits(opcode, 6, 2) = \b00000 -> AddSpPlusImmediateT2Decoder(r, it)
          [] Bits(opcode, 6, 2) = \b00001 -> SubSpMinusImmediateT1Decoder(r, it)
          [] Bits(opcode, 6, 3) \in {\b0001, \b0011} -> CbNZT1Decoder(r, it)
          [] op61 = \b001001 -> SxtbT1Decoder(r, it)
          [] op61 = \b001011 -> UxtbT1Decoder(r, it)
          [] op61 = \b001010 -> UxthT1Decoder(r, it)
          [] op61 = \b001000 -> SxthT1Decoder(r, it)
          [] Bits(opcode, 6, 4) = \b010 -> PushT1Decoder(r, it)
          [] OTHER -> UnknownOpCode

SpecialData(r, it) ==
    LET op98 == Bits(r.low, 9, 8)
    IN  CASE op98 = \b00 -> AddRegisterT2Decoder(r, it)
          [] op98 = \b10 -> MovRegisterT1Decoder(r, it)
          [] op98 = \b01 -> CmpRegisterT2Decoder(r, it)
          [] op98 = \b11 -> IF Bit(r.low, 7) = 0 THEN BxT1Decoder(r, it) ELSE BlxT1Decoder(r, it)

DataProcessing16(r, it) ==
    LET opcode == Bits(r.low, 9, 6)
    IN  CASE opcode = \b0000 -> AndRegisterT1Decoder(r, it)
          [] opcode = \b0001 -> EorRegisterT1Decoder(r, it)
          [] opcode = \b0010 -> LslRegisterT1Decoder(r, it)
          [] opcode = \b0011 -> LsrRegisterT1Decoder(r, it)
          [] opcode = \b0100 -> AsrRegisterT1Decoder(r, it)
          [] opcode = \b0101 -> AdcRegisterT1Decoder(r, it)
          [] opcode = \b1000 -> TstRegisterT1Decoder(r, it)
          [] opcode = \b1001 -> RsbImmediateT1Decoder(r, it)
          [] opcode = \b1010 -> CmpRegisterT1Decoder(r, it)
          [] opcode = \b1100 -> OrrRegisterT1Decoder(r, it)
          [] opcode = \b1110 -> BicRegisterT1Decoder(r, it)
          [] OTHER -> UnknownOpCode

Splitter16bit_op01000(r, it) ==
    IF Bit(r.low, 10) = 1 THEN SpecialData(r, it) ELSE DataProcessing16(r, it)

Splitter16bit_op01011(r, it) ==
    LET opB == Bits(r.low, 11, 9)
    IN  CASE opB = \b100 -> LdrRegisterT1Decoder(r, it)
          [] opB = \b110 -> LdrbRegisterT1Decoder(r, it)
          [] OTHER -> UnknownOpCode

Splitter16bit_op01101(r, it) ==
    IF Bit(r.low, 11) = 1 THEN LdrImmediateT1Decoder(r, it) ELSE UnknownOpCode

Splitter16bit_op11011(r, it) ==
    CASE Bits(r.low, 11, 9) # \b111 -> BT1Decoder(r, it)
      [] Bits(r.low, 11, 8) = \b1111 -> SvcT1Decoder(r, it)
      [] OTHER -> UnknownOpCode

MoveAndShift(r, it) ==
    LET type == Bits(r.high, 5, 4)
        zero == ImmShift5(r) = 0
    IN  CASE type = \b00 /\ zero -> MovRegisterT3Decoder(r, it)
          [] type = \b00 /\ ~zero -> LslImmediateT2Decoder(r, it)
          [] type = \b01 -> LsrImmediateT2Decoder(r, it)
          [] type = \b10 -> AsrImmediateT2Decoder(r, it)
          [] type = \b11 /\ zero -> RrxT1Decoder(r, it)
          [] OTHER -> UnknownOpCode

ShiftedRegister(r, it) ==
    LET op == Bits(r.low, 8, 5)
        rd15 == Rd(r) = 15
        rn15 == Rn(r) = 15
    IN  CASE op = \b0000 /\ ~rd15 -> AndRegisterT2Decoder(r, it)
          [] op = \b0001 -> BicRegisterT2Decoder(r, it)
          [] op = \b0011 /\ rn15 -> MvnRegisterT2Decoder(r, it)
          [] op = \b1000 /\ ~rd15 -> AddRegisterT3Decoder(r, it)
          [] op = \b1110 -> RsbRegisterT1Decoder(r, it)
          [] op = \b0010 /\ rn15 -> MoveAndShift(r, it)
          [] op = \b0010 /\ ~rn15 -> OrrRegisterT2Decoder(r, it)
          [] op = \b0100 /\ ~rd15 -> EorRegisterT2Decoder(r, it)
          [] op = \b0100 /\ rd15 /\ SBit(r) = 1 -> TeqRegisterT1Decoder(r, it)
          [] op = \b0100 /\ rd15 /\ SBit(r) = 0 -> Failed("kDecoderUnpredictable")
          [] op = \b1101 /\ ~rd15 -> SubRegisterT2Decoder(r, it)
          [] op = \b1010 -> AdcRegisterT2Decoder(r, it)
          [] op = \b1011 -> SbcRegisterT2Decoder(r, it)
          [] op = \b1101 /\ rd15 -> CmpRegisterT3Decoder(r, it)
          [] OTHER -> UnknownOpCode

LoadStoreMultiple(r, it) ==
    LET op == Bits(r.low, 8, 7)
        L == SBit(r)
        spWBack == Bit(r.low, 5) = 1 /\ Rn(r) = 13
    IN  CASE op = \b10 /\ L = 0 /\ spWBack -> PushT2Decoder(r, it)
          [] op = \b10 /\ L = 0 /\ ~spWBack -> StmdbT1Decoder(r, it)
          [] op = \b01 /\ L = 0 -> StmT2Decoder(r, it)
          [] op = \b01 /\ L = 1 /\ ~spWBack -> LdmT2Decoder(r, it)
          [] op = \b01 /\ L = 1 /\ spWBack -> PopT2Decoder(r, it)
          [] OTHER -> UnknownOpCode

DualExclusiveTable(r, it) ==
    LET op1 == Bits(r.low, 8, 7)
        op2 == Bits(r.low, 5, 4)
        op3 == Bits(r.high, 7, 4)
        dual == op1 \in {2, 3} \/ op2 \in {2, 3}
    IN  CASE dual /\ SBit(r) = 0 -> StrdImmediateT1Decoder(r, it)
          [] dual /\ SBit(r) = 1 -> LdrdImmediateT1Decoder(r, it)
          [] op1 = 0 /\ op2 = 0 -> StrexT1Decoder(r, it)
          [] op1 = 0 /\ op2 = 1 -> LdrexT1Decoder(r, it)
          [] op1 = 1 /\ op2 = 1 /\ op3 \in {0, 1} -> TbbHT1Decoder(r, it)
          [] OTHER -> UnknownOpCode

Splitter32bit_op11101(r, it) ==
    CASE Bits(r.low, 10, 9) = \b01 -> ShiftedRegister(r, it)
      [] Bits(r.low, 10, 9) = \b00 /\ Bit(r.low, 6) = 0 -> LoadStoreMultiple(r, it)
      [] Bits(r.low, 10, 9) = \b00 /\ Bit(r.low, 6) = 1 -> DualExclusiveTable(r, it)
      [] OTHER -> UnknownOpCode

BranchesAndControl(r, it) ==
    LET op1 == Bits(r.high, 14, 12)
        op == Bits(r.low, 10, 4)
    IN  CASE op1 \in {\b001, \b011} -> BT4Decoder(r, it)
          [] op1 \in {\b101, \b111} -> BlT1Decoder(r, it)
          [] op1 \in {\b000, \b010} /\ Bits(op, 5, 3) # \b111 -> BT3Decoder(r, it)
          [] op1 \in {\b000, \b010} /\ Bits(op, 6, 1) = \b011100 -> MsrT1Decoder(r, it)
          [] op1 \in {\b000, \b010} /\ Bits(op, 6, 1) = \b011111 -> MrsT1Decoder(r, it)
          [] op1 \in {\b000, \b010} /\ op = \b0111011 /\ Bits(r.high, 7, 4) = \b0101 -> DmbT1Decoder(r, it)
          [] OTHER -> UnknownOpCode

ModifiedImmediate(r, it) ==
    LET op == Bits(r.low, 8, 5)
        rd15 == Rd(r) = 15
        rn15 == Rn(r) = 15
    IN  CASE op = \b0000 /\ rd15 -> TstImmediateT1Decoder(r, it)
          [] op = \b0000 /\ ~rd15 -> AndImmediateT1Decoder(r, it)
          [] op = \b0001 -> BicImmediateT1Decoder(r, it)
          [] op = \b0010 /\ ~rn15 -> OrrImmediateT1Decoder(r, it)
          [] op = \b0010 /\ rn15 -> MovImmediateT2Decoder(r, it)
          [] op = \b0011 /\ rn15 -> MvnImmediateT1Decoder(r, it)
          [] op = \b0100 /\ ~rd15 -> EorImmediateT1Decoder(r, it)
          [] op = \b0100 /\ rd15 -> TeqImmediateT1Decoder(r, it)
          [] op = \b1000 /\ ~rd15 -> AddImmediateT3Decoder(r, it)
          [] op = \b1000 /\ rd15 -> CmnImmediateT1Decoder(r, it)
          [] op = \b1010 -> AdcImmediateT1Decoder(r, it)
          [] op = \b1011 -> SbcImmediateT1Decoder(r, it)
          [] op = \b1101 /\ ~rd15 -> SubImmediateT3Decoder(r, it)
          [] op = \b1101 /\ rd15 -> CmpImmediateT2Decoder(r, it)
          [] op = \b1110 -> RsbImmediateT2Decoder(r, it)
          [] OTHER -> UnknownOpCode

PlainImmediate(r, it) ==
    LET op == Bits(r.low, 8, 4)
        rn15 == Rn(r) = 15
    IN  CASE op = \b00100 -> MovImmediateT3Decoder(r, it)
          [] op = \b00000 /\ ~rn15 -> AddImmediateT4Decoder(r, it)
          [] op = \b01010 /\ ~rn15 -> SubImmediateT4Decoder(r, it)
          [] op = \b10110 /\ ~rn15 -> BfiT1Decoder(r, it)
          [] op = \b11100 -> UbfxT1Decoder(r, it)
          [] OTHER -> UnknownOpCode

Splitter32bit_op11110(r, it) ==
    IF Bit(r.high, 15) = 1 THEN BranchesAndControl(r, it)
    ELSE IF Bit(r.low, 9) = 0 THEN ModifiedImmediate(r, it)
    ELSE PlainImmediate(r, it)

StoreSingle(r, it) ==
    LET op1 == Bits(r.low, 7, 5)
        immediate == Bit(r.high, 11) = 1
    IN  CASE op1 = \b100 -> StrbImmediateT2Decoder(r, it)
          [] op1 = \b101 -> StrhImmediateT2Decoder(r, it)
          [] op1 = \b110 -> StrImmediateT3Decoder(r, it)
          [] op1 = \b000 /\ immediate -> StrbImmediateT3Decoder(r, it)
          [] op1 = \b001 /\ immediate -> StrhImmediateT3Decoder(r, it)
          [] op1 = \b010 /\ immediate -> StrImmediateT4Decoder(r, it)
          [] op1 = \b000 /\ ~immediate -> StrbRegisterT2Decoder(r, it)
          [] op1 = \b001 /\ ~immediate -> StrhRegisterT2Decoder(r, it)
          [] op1 = \b010 /\ ~immediate -> StrRegisterT2Decoder(r, it)
          [] OTHER -> UnknownOpCode

Indexed(r) == Bit(r.high, 11) = 1 /\ (Bit(r.high, 8) = 1 \/ Bits(r.high, 11, 8) = \b1100)

LoadByte(r, it) ==
    LET op1 == Bits(r.low, 8, 7)
    IN  IF 15 \in {Rn(r), Rt(r)} THEN UnknownOpCode
        ELSE CASE op1 = \b01 -> LdrbImmediateT2Decoder(r, it)
               [] op1 = \b00 /\ Indexed(r) -> LdrbImmediateT3Decoder(r, it)
               [] op1 = \b11 -> LdrsbImmediateT1Decoder(r, it)
               [] OTHER -> UnknownOpCode

LoadHalfword(r, it) ==
    LET op1 == Bits(r.low, 8, 7)
    IN  IF 15 \in {Rn(r), Rt(r)} THEN UnknownOpCode
        ELSE CASE op1 = \b01 -> LdrhImmediateT2Decoder(r, it)
               [] op1 = \b00 /\ Bits(r.high, 11, 6) = 0 -> LdrhRegisterT2Decoder(r, it)
               [] op1 = \b11 -> LdrshImmediateT1Decoder(r, it)
               [] op1 = \b00 /\ Indexed(r) -> LdrhImmediateT3Decoder(r, it)
               [] op1 = \b10 /\ Indexed(r) -> LdrshImmediateT2Decoder(r, it)
               [] OTHER -> UnknownOpCode

LoadWord(r, it) ==
    LET op1 == Bits(r.low, 8, 7)
        rn15 == Rn(r) = 15
    IN  CASE op1 \in {0, 1} /\ rn15 -> LdrLiteralT2Decoder(r, it)
          [] op1 = \b01 /\ ~rn15 -> LdrImmediateT3Decoder(r, it)
          [] op1 = \b00 /\ Indexed(r) /\ ~rn15 -> LdrImmediateT4Decoder(r, it)
          [] op1 = \b00 /\ Bits(r.high, 11, 6) = 0 /\ ~rn15 -> LdrRegisterT2Decoder(r, it)
          [] OTHER -> UnknownOpCode

DataProcessingRegister(r, it) ==
    LET op1 == Bits(r.low, 7, 4)
        op2 == Bits(r.high, 7, 4)
        extend == Bit(r.high, 7) = 1 /\ Rn(r) = 15
    IN  CASE Bits(op1, 3, 1) = \b000 /\ op2 = 0 -> LslRegisterT2Decoder(r, it)
          [] Bits(op1, 3, 1) = \b001 /\ op2 = 0 -> LsrRegisterT2Decoder(r, it)
          [] Bits(op1, 3, 1) = \b010 /\ op2 = 0 -> AsrRegisterT2Decoder(r, it)
          [] op1 = \b0001 /\ extend -> UxthT2Decoder(r, it)
          [] op1 = \b0100 /\ extend -> SxtbT2Decoder(r, it)
          [] op1 = \b0000 /\ extend -> SxthT2Decoder(r, it)
          [] op1 = \b0101 /\ extend -> UxtbT2Decoder(r, it)
          [] op1 = \b1011 /\ op2 = \b1000 -> ClzT1Decoder(r, it)
          [] OTHER -> UnknownOpCode

Multiply(r, it) ==
    LET op2 == Bits(r.high, 5, 4)
    IN  IF Bits(r.low, 6, 4) # 0 THEN UnknownOpCode
        ELSE CASE op2 = \b00 /\ Rt(r) = 15 -> MulT2Decoder(r, it)
               [] op2 = \b00 /\ Rt(r) # 15 -> MlaT1Decoder(r, it)
               [] op2 = \b01 -> MlsT1Decoder(r, it)
               [] OTHER -> UnknownOpCode

LongMultiply(r, it) ==
    LET op1 == Bits(r.low, 6, 4)
        op2 == Bits(r.high, 7, 4)
    IN  CASE op1 = \b010 /\ op2 = \b0000 -> UmullT1Decoder(r, it)
          [] op1 = \b000 /\ op2 = \b0000 -> SmullT1Decoder(r, it)
          [] op1 = \b011 /\ op2 = \b1111 -> UdivT1Decoder(r, it)
          [] op1 = \b001 /\ op2 = \b1111 -> SdivT1Decoder(r, it)
          [] op1 = \b110 /\ op2 = \b0000 -> UmlalT1Decoder(r, it)
          [] OTHER -> UnknownOpCode

Splitter32bit_op11111(r, it) ==
    LET op2 == Bits(r.low, 10, 4)
    IN  CASE Bits(op2, 6, 4) = \b000 /\ Bit(op2, 0) = 0 -> StoreSingle(r, it)
          [] Bits(op2, 6, 5) = \b00 /\ Bits(op2, 2, 0) = \b001 -> LoadByte(r, it)
          [] Bits(op2, 6, 5) = \b00 /\ Bits(op2, 2, 0) = \b011 -> LoadHalfword(r, it)
          [] Bits(op2, 6, 5) = \b00 /\ Bits(op2, 2, 0) = \b101 -> LoadWord(r, it)
          [] Bits(op2, 6, 4) = \b010 -> DataProcessingRegister(r, it)
          [] Bits(op2, 6, 3) = \b0110 -> Multiply(r, it)
          [] Bits(op2, 6, 3) = \b0111 -> LongMultiply(r, it)
          [] OTHER -> UnknownOpCode

call_decoder(r, it) ==
    LET opc == Bits(r.low, 15, 11)
    IN  CASE opc = \b00000 -> Splitter16bit_op00000(r, it)
          [] opc = \b00001 -> LsrImmediateT1Decoder(r, it)
          [] opc = \b00010 -> AsrImmediateT1Decoder(r, it)
          [] opc = \b00011 -> Splitter16bit_op00011(r, it)
          [] opc = \b00100 -> MovImmediateT1Decoder(r, it)
          [] opc = \b00101 -> CmpImmediateT1Decoder(r, it)
          [] opc = \b00110 -> AddImmediateT2Decoder(r, it)
          [] opc = \b00111 -> SubImmediateT2Decoder(r, it)
          [] opc = \b01000 -> Splitter16bit_op01000(r, it)
          [] opc = \b01001 -> LdrLiteralT1Decoder(r, it)
          [] opc = \b01010 -> Splitter16bit_op01010(r, it)
          [] opc = \b01011 -> Splitter16bit_op01011(r, it)
          [] opc = \b01100 -> StrImmediateT1Decoder(r, it)
          [] opc = \b01101 -> Splitter16bit_op01101(r, it)
          [] opc = \b01110 -> StrbImmediateT1Decoder(r, it)
          [] opc = \b01111 -> LdrbImmediateT1Decoder(r, it)
          [] opc = \b10000 -> StrhImmediateT1Decoder(r, it)
          [] opc = \b10001 -> LdrhImmediateT1Decoder(r, it)
          [] opc = \b10010 -> StrImmediateT2Decoder(r, it)
          [] opc = \b10011 -> LdrImmediateT2Decoder(r, it)
          [] opc = \b10100 -> AddPcPlusImmediateT1Decoder(r, it)
          [] opc = \b10101 -> AddSpPlusImmediateT1Decoder(r, it)
          [] opc = \b10110 -> Splitter16bit_op10110(r, it)
          [] opc = \b10111 -> Splitter16bit_op10111(r, it)
          [] opc = \b11000 -> StmT1Decoder(r, it)
          [] opc = \b11001 -> LdmT1Decoder(r, it)
          [] opc = \b11010 -> BT1Decoder(r, it)
          [] opc = \b11011 -> Splitter16bit_op11011(r, it)
          [] opc = \b11100 -> BT2Decoder(r, it)
          [] opc = \b11101 -> Splitter32bit_op11101(r, it)
          [] opc = \b11110 -> Splitter32bit_op11110(r, it)
          [] opc = \b11111 -> Splitter32bit_op11111(r, it)
          [] OTHER -> UnknownOpCode
==============================================================================
