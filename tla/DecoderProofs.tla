------------------------------ MODULE DecoderProofs ------------------------------
(***************************************************************************)
(* What the decoders let through is what the executor expects, for every   *)
(* raw instruction and every IT state.  Sound says so of what a decoder    *)
(* returns; a lemma proves it of each decoder, then of each splitter that  *)
(* chooses among decoders, and SoundWide and SoundNarrow of the whole tree.*)
(* Fits says what the executor's table has for an instruction, and         *)
(* PlacesFit that it reads the fields where the decoders write them.       *)
(***************************************************************************)
EXTENDS DecoderTree, ExecutorTable, TLAPS

Registers == 0 .. 15

\* The fields that the decoders fill, and with what.
Shaped(i) ==
    /\ i.id \in {"kNop", "kDmb"} => DOMAIN i.fields = {}
    /\ i.id = "kLdrLiteral" => i.fields \in [t : Registers, imm32 : Int]
    /\ i.id \in {"kClz", "kMovRegister", "kRrx"} => i.fields \in [d : Registers, m : Registers]
    /\ i.id \in {"kLdrImmediate", "kLdrbImmediate", "kLdrhImmediate", "kLdrsbImmediate",
                 "kLdrshImmediate", "kLdrex", "kStrImmediate", "kStrbImmediate", "kStrhImmediate"} =>
           i.fields \in [t : Registers, n : Registers, imm32 : Int]
    /\ i.id \in {"kUmull", "kUmlal", "kSmull"} =>
           i.fields \in [dLo : Registers, dHi : Registers, n : Registers, m : Registers]
    /\ i.id = "kMsr" => i.fields \in [n : Registers, mask : Nat, SYSm : Nat]
    /\ i.id = "kMrs" => i.fields \in [d : Registers, mask : Nat, SYSm : Nat]
    /\ i.id \in {"kLdrdImmediate", "kStrdImmediate"} =>
           i.fields \in [t : Registers, t2 : Registers, n : Registers, imm32 : Int]
    /\ i.id \in {"kLslImmediate", "kLsrImmediate", "kAsrImmediate", "kMvnRegister"} =>
           i.fields \in [d : Registers, m : Registers, shift_res : Shifts]
    /\ i.id \in {"kLslRegister", "kLsrRegister", "kAsrRegister", "kUdiv", "kSdiv", "kMul"} =>
           i.fields \in [d : Registers, n : Registers, m : Registers]
    /\ i.id \in {"kCmpRegister", "kTstRegister", "kTeqRegister"} =>
           i.fields \in [n : Registers, m : Registers, shift_res : Shifts]
    /\ i.id \in {"kCmpImmediate", "kCmnImmediate", "kCbNZ"} => i.fields \in [n : Registers, imm32 : Int]
    /\ i.id = "kIt" => i.fields \in [firstcond : Registers, mask : Registers]
    /\ i.id \in {"kMovImmediate", "kMvnImmediate"} => i.fields \in [d : Registers, imm32_carry : Carries]
    /\ i.id \in {"kUxtb", "kSxtb", "kUxth", "kSxth"} =>
           i.fields \in [d : Registers, m : Registers, rotation : Nat]
    /\ i.id = "kBCond" => i.fields \in [cond : Registers, imm32 : Int]
    /\ i.id = "kTbbH" => i.fields \in [n : Registers, m : Registers]
    /\ i.id \in {"kB", "kBl", "kSvc", "kBkpt"} => i.fields \in [imm32 : Int]
    /\ i.id \in {"kBx", "kBlx"} => i.fields \in [m : Registers]
    /\ i.id \in {"kAddImmediate", "kAdcImmediate", "kSubImmediate", "kSbcImmediate", "kRsbImmediate"} =>
           i.fields \in [d : Registers, n : Registers, imm32 : Int]
    /\ i.id \in {"kAddPcPlusImmediate", "kAddSpPlusImmediate", "kSubSpMinusImmediate"} =>
           i.fields \in [d : Registers, imm32 : Int]
    /\ i.id \in {"kTstImmediate", "kTeqImmediate"} => i.fields \in [n : Registers, imm32_carry : Carries]
    /\ i.id \in {"kAndImmediate", "kOrrImmediate", "kEorImmediate", "kBicImmediate"} =>
           i.fields \in [d : Registers, n : Registers, imm32_carry : Carries]
    /\ i.id = "kUbfx" => i.fields \in [d : Registers, n : Registers, lsbit : Nat, widthminus1 : Nat]
    /\ i.id = "kBfi" => i.fields \in [d : Registers, n : Registers, lsbit : Nat, msbit : Nat]
    /\ i.id \in {"kMls", "kMla"} => i.fields \in [d : Registers, n : Registers, m : Registers, a : Registers]
    /\ i.id \in {"kAddRegister", "kAdcRegister", "kSubRegister", "kSbcRegister", "kRsbRegister",
                 "kOrrRegister", "kEorRegister", "kAndRegister", "kBicRegister"} =>
           i.fields \in [d : Registers, n : Registers, m : Registers, shift_res : Shifts]
    /\ i.id \in {"kPush", "kPop"} => i.fields \in [registers : Nat]
    /\ i.id \in {"kStm", "kLdm"} => i.fields \in [n : Registers, registers : Nat]
    /\ i.id \in {"kStrRegister", "kStrbRegister", "kStrhRegister", "kLdrRegister", "kLdrbRegister",
                 "kLdrhRegister"} =>
           i.fields \in [t : Registers, n : Registers, m : Registers, shift_res : Shifts]
    /\ i.id = "kStrex" => i.fields \in [t : Registers, n : Registers, d : Registers, imm32 : Int]

IndexedLoads ==
    {"kLdrImmediate", "kLdrbImmediate", "kLdrhImmediate", "kLdrsbImmediate", "kLdrshImmediate"}

\* What holds of every instruction that is let through in the IT state it, whether or not
\* the decoder's assertions do.  wide tells whether it was fetched as two halfwords.
Formed(i, it, wide) ==
    /\ i.id \in DOMAIN Cases \/ (i.id = "kStmdb" /\ wide)
    /\ Shaped(i)
    /\ "k32Bit" \in i.flags <=> wide
    /\ "kSetFlags" \in i.flags => wide \/ ~InITBlock(it)
    /\ i.id \in {"kIt", "kBCond", "kCbNZ"} => ~InITBlock(it)
    /\ i.id \in IndexedLoads /\ "kWBack" \in i.flags => i.fields.n \notin {15, i.fields.t}
    /\ i.id = "kIt" => i.fields.mask # 0
    /\ i.id = "kBl" => wide
    /\ i.id = "kBlx" => ~wide

Loads == IndexedLoads \cup {"kLdrLiteral", "kLdrRegister", "kLdrbRegister", "kLdrhRegister", "kLdrex"}

\* What holds if its assertions do.
Valid(i, it, wide) ==
    /\ i.id # "kStmdb"
    /\ MidITBlock(it) =>
           /\ i.id \notin {"kB", "kBl", "kBx", "kBlx", "kTbbH"}
           /\ i.id \in Loads => i.fields.t # 15
           /\ i.id \in {"kPop", "kLdm"} => Bit(i.fields.registers, 15) # 1
           /\ i.id = "kMovRegister" /\ ~wide => i.fields.d # 15
    /\ "d" \in DOMAIN i.fields /\ i.id \notin {"kMovRegister", "kAddRegister", "kStrex"} => i.fields.d # 15
    /\ "n" \in DOMAIN i.fields /\ ("kWBack" \in i.flags \/ i.id = "kLdm") => i.fields.n # 15
    /\ i.id \in {"kUmull", "kUmlal"} => 15 \notin {i.fields.dLo, i.fields.dHi}
    /\ i.id = "kLdrdImmediate" => 15 \notin {i.fields.t, i.fields.t2}
    /\ i.id \in {"kStrRegister", "kStrbRegister", "kStrhRegister"} => "kAdd" \in i.flags

Sound(d, it, wide) ==
    /\ d.failed \subseteq {"decoder"}
    /\ d.status = "kSuccess" =>
        /\ Formed(d.instr, it, wide)
        /\ d.failed = {} => Valid(d.instr, it, wide)

Raw == [low : Nat, high : Nat]
TwoHalfwords(r) == Bits(r.low, 15, 11) \in {\b11101, \b11110, \b11111}

\* The ranges of the fields that the decoders cut out of a halfword.
CutFields(w) ==
    /\ Bit(w, 4) \in 0 .. 1 /\ Bit(w, 5) \in 0 .. 1 /\ Bit(w, 7) \in 0 .. 1
    /\ Bit(w, 8) \in 0 .. 1 /\ Bit(w, 9) \in 0 .. 1 /\ Bit(w, 10) \in 0 .. 1
    /\ Bit(w, 11) \in 0 .. 1 /\ Bit(w, 13) \in 0 .. 1 /\ Bit(w, 14) \in 0 .. 1
    /\ Bit(w, 15) \in 0 .. 1
    /\ Bits(w, 2, 0) \in 0 .. 7 /\ Bits(w, 5, 3) \in 0 .. 7 /\ Bits(w, 8, 6) \in 0 .. 7
    /\ Bits(w, 10, 8) \in 0 .. 7 /\ Bits(w, 14, 12) \in 0 .. 7
    /\ Bits(w, 3, 0) \in 0 .. 15 /\ Bits(w, 6, 3) \in 0 .. 15 /\ Bits(w, 7, 4) \in 0 .. 15
    /\ Bits(w, 11, 8) \in 0 .. 15 /\ Bits(w, 15, 12) \in 0 .. 15
    /\ Bits(w, 5, 4) \in 0 .. 3 /\ Bits(w, 7, 6) \in 0 .. 3 /\ Bits(w, 11, 10) \in 0 .. 3
    /\ Bits(w, 4, 0) \in Nat /\ Bits(w, 5, 0) \in Nat /\ Bits(w, 6, 0) \in Nat
    /\ Bits(w, 7, 0) \in Nat /\ Bits(w, 7, 3) \in Nat /\ Bits(w, 9, 0) \in Nat
    /\ Bits(w, 10, 0) \in Nat /\ Bits(w, 10, 6) \in Nat /\ Bits(w, 11, 0) \in Nat
    /\ Bits(w, 12, 0) \in Nat /\ Bits(w, 9, 6) \in 0 .. 15

LEMMA Cuts ==
    ASSUME NEW w \in Nat
    PROVE  CutFields(w)
<1>1. \A k \in Nat \ {0} : w \div k \in Nat
  OBVIOUS
<1>2. \A v \in Nat : v % 2 \in 0 .. 1
  OBVIOUS
<1>3. QED
  BY <1>1, <1>2 DEF Bit, Bits, CutFields

LEMMA SmallPowers == \A k \in 0 .. 24 : 2^k \in Nat
<1>1. /\ 2^0 \in Nat /\ 2^1 \in Nat /\ 2^2 \in Nat /\ 2^3 \in Nat /\ 2^4 \in Nat
      /\ 2^5 \in Nat /\ 2^6 \in Nat /\ 2^7 \in Nat /\ 2^8 \in Nat /\ 2^9 \in Nat
      /\ 2^10 \in Nat /\ 2^11 \in Nat /\ 2^12 \in Nat /\ 2^13 \in Nat /\ 2^14 \in Nat
      /\ 2^15 \in Nat /\ 2^16 \in Nat /\ 2^17 \in Nat /\ 2^18 \in Nat /\ 2^19 \in Nat
      /\ 2^20 \in Nat /\ 2^21 \in Nat /\ 2^22 \in Nat /\ 2^23 \in Nat /\ 2^24 \in Nat
  OBVIOUS
<1>2. SUFFICES ASSUME NEW k \in 0 .. 24 PROVE 2^k \in Nat
  OBVIOUS
<1>3. \/ k = 0 \/ k = 1 \/ k = 2 \/ k = 3 \/ k = 4 \/ k = 5 \/ k = 6 \/ k = 7 \/ k = 8
      \/ k = 9 \/ k = 10 \/ k = 11 \/ k = 12 \/ k = 13 \/ k = 14 \/ k = 15 \/ k = 16
      \/ k = 17 \/ k = 18 \/ k = 19 \/ k = 20 \/ k = 21 \/ k = 22 \/ k = 23 \/ k = 24
  OBVIOUS
<1>4. QED
  BY <1>1, <1>3, Zenon

LEMMA SignExtended ==
    ASSUME NEW w \in Nat
    PROVE  /\ SignExtend(w, 7) \in Int /\ SignExtend(w, 8) \in Int /\ SignExtend(w, 11) \in Int
           /\ SignExtend(w, 15) \in Int /\ SignExtend(w, 20) \in Int /\ SignExtend(w, 24) \in Int
  BY DEF SignExtend

LEMMA ShiftDecodes ==
    ASSUME NEW type \in 0 .. 3, NEW imm5 \in Nat
    PROVE  DecodeImmShift(type, imm5) \in Shifts
  BY DEF DecodeImmShift, ImmShift, Shifts

LEMMA Expanded ==
    ASSUME NEW imm12 \in Nat
    PROVE  ThumbExpandImm_C(imm12) \in Carries
<1> DEFINE byte == Bits(imm12, 7, 0)
           top == SignExtend(byte, 7) * 2^24
           unrotated == 128 + Bits(imm12, 6, 0)
           rotation == Bits(imm12, 11, 7)
<1>1. byte \in Nat /\ unrotated \in Nat /\ top \in Int
  <2>1. byte \in Nat /\ Bits(imm12, 6, 0) \in Nat
    BY Cuts DEF CutFields
  <2> HIDE DEF byte
  <2>2. SignExtend(byte, 7) \in Int
    BY <2>1, SignExtended
  <2>3. QED
    BY <2>1, <2>2
<1>2. Bits(imm12, 11, 10) # 0 /\ rotation # 8 => 32 - rotation \in 0 .. 24
  BY DEF Bits
<1>3. Bits(imm12, 11, 10) # 0 /\ rotation # 8 => 2^(32 - rotation) \in Nat
  BY <1>2, SmallPowers
<1>4. Bits(imm12, 9, 8) \in 0 .. 3
  BY DEF Bits
<1> HIDE DEF rotation, byte, unrotated
<1>5. CASE Bits(imm12, 11, 10) = 0
  BY <1>1, <1>4, <1>5 DEF ThumbExpandImm_C, ImmCarry, Carries, byte
<1>6. CASE Bits(imm12, 11, 10) # 0
  BY <1>1, <1>3, <1>6 DEF ThumbExpandImm_C, ImmCarry, Carries, rotation, unrotated
<1>7. QED
  BY <1>5, <1>6


LEMMA HighRegister == \A k \in 0 .. 15 : Bit(2^k, 15) = 1 => k = 15
<1>1. /\ Bit(2^0, 15) = 0 /\ Bit(2^1, 15) = 0 /\ Bit(2^2, 15) = 0 /\ Bit(2^3, 15) = 0
      /\ Bit(2^4, 15) = 0 /\ Bit(2^5, 15) = 0 /\ Bit(2^6, 15) = 0 /\ Bit(2^7, 15) = 0
      /\ Bit(2^8, 15) = 0 /\ Bit(2^9, 15) = 0 /\ Bit(2^10, 15) = 0 /\ Bit(2^11, 15) = 0
      /\ Bit(2^12, 15) = 0 /\ Bit(2^13, 15) = 0 /\ Bit(2^14, 15) = 0
  BY DEF Bit
<1>2. SUFFICES ASSUME NEW k \in 0 .. 15, Bit(2^k, 15) = 1 PROVE k = 15
  OBVIOUS
<1>3. \/ k = 0 \/ k = 1 \/ k = 2 \/ k = 3 \/ k = 4 \/ k = 5 \/ k = 6 \/ k = 7 \/ k = 8
      \/ k = 9 \/ k = 10 \/ k = 11 \/ k = 12 \/ k = 13 \/ k = 14 \/ k = 15
  OBVIOUS
<1>4. 0 # 1
  OBVIOUS
<1>5. QED
  BY <1>1, <1>2, <1>3, <1>4, Zenon

\* What the decoders cut out of a raw instruction.
WellCut(r) ==
    /\ CutFields(r.low) /\ CutFields(r.high)
    /\ Rn(r) \in Registers /\ Rm(r) \in Registers /\ Rd(r) \in Registers
    /\ Rt(r) \in Registers /\ SBit(r) \in 0 .. 1
    /\ ImmShift5(r) \in Nat /\ ModImm12(r) \in Nat /\ Bits(r.high, 5, 4) * 8 \in Nat
    /\ BranchOffset24(r) \in Int /\ BranchOffset20(r) \in Int
    /\ SignExtend(Bits(r.low, 7, 0) * 2, 8) \in Int
    /\ SignExtend(Bits(r.low, 10, 0) * 2, 11) \in Int
    /\ ExpandedImm(r) \in Int /\ ExpandedImm_C(r) \in Carries
    /\ DecodeImmShift(\b00, ImmShift5(r)) \in Shifts
    /\ DecodeImmShift(\b01, ImmShift5(r)) \in Shifts
    /\ DecodeImmShift(\b10, ImmShift5(r)) \in Shifts
    /\ DecodeImmShift(Bits(r.high, 5, 4), ImmShift5(r)) \in Shifts
    /\ DecodeImmShift(\b00, Bits(r.low, 10, 6)) \in Shifts
    /\ DecodeImmShift(\b01, Bits(r.low, 10, 6)) \in Shifts
    /\ DecodeImmShift(\b10, Bits(r.low, 10, 6)) \in Shifts
    \* The pc in a list of registers.
    /\ \A w \in Nat : Bits(w, 15, 15) = Bit(w, 15)
    /\ Bit(Bits(r.low, 7, 0), 15) = 0
    /\ 2^Rt(r) \in Nat
    /\ Bit(2^Rt(r), 15) = 1 => Rt(r) = 15

LEMMA Pieces ==
    ASSUME NEW r \in Raw
    PROVE  WellCut(r)
<1>1. r.low \in Nat /\ r.high \in Nat
  BY DEF Raw
<1>C. CutFields(r.low) /\ CutFields(r.high)
  BY <1>1, Cuts
<1>2. /\ Rn(r) \in Registers /\ Rm(r) \in Registers /\ Rd(r) \in Registers
      /\ Rt(r) \in Registers /\ SBit(r) \in 0 .. 1
      /\ ImmShift5(r) \in Nat /\ ModImm12(r) \in Nat /\ Bits(r.low, 10, 6) \in Nat
      /\ Bits(r.high, 5, 4) \in 0 .. 3
  BY <1>C DEF CutFields, Rn, Rm, Rd, Rt, SBit, Registers, ImmShift5, ModImm12
<1>3. BranchOffset24(r) \in Int
  <2> DEFINE S == Bit(r.low, 10)
             NotXorS(b) == IF Bit(r.high, b) = S THEN 1 ELSE 0
             offset == S * 2^24 + NotXorS(13) * 2^23 + NotXorS(11) * 2^22
                         + Bits(r.low, 9, 0) * 4096 + Bits(r.high, 10, 0) * 2
  <2>1. offset \in Nat
    BY <1>C DEF CutFields
  <2> HIDE DEF offset
  <2>2. SignExtend(offset, 24) \in Int
    BY <2>1, SignExtended
  <2>3. QED
    BY <2>2 DEF BranchOffset24, offset
<1>4. BranchOffset20(r) \in Int
  <2> DEFINE offset == Bit(r.low, 10) * 2^20 + Bit(r.high, 11) * 2^19 + Bit(r.high, 13) * 2^18
                         + Bits(r.low, 5, 0) * 4096 + Bits(r.high, 10, 0) * 2
  <2>1. offset \in Nat
    BY <1>C DEF CutFields
  <2> HIDE DEF offset
  <2>2. SignExtend(offset, 20) \in Int
    BY <2>1, SignExtended
  <2>3. QED
    BY <2>2 DEF BranchOffset20, offset
<1>5. ExpandedImm(r) \in Int /\ ExpandedImm_C(r) \in Carries
  BY <1>2, Expanded DEF ExpandedImm, ExpandedImm_C, ThumbExpandImm, Carries
<1>6. /\ DecodeImmShift(\b00, ImmShift5(r)) \in Shifts
      /\ DecodeImmShift(\b01, ImmShift5(r)) \in Shifts
      /\ DecodeImmShift(\b10, ImmShift5(r)) \in Shifts
      /\ DecodeImmShift(Bits(r.high, 5, 4), ImmShift5(r)) \in Shifts
      /\ DecodeImmShift(\b00, Bits(r.low, 10, 6)) \in Shifts
      /\ DecodeImmShift(\b01, Bits(r.low, 10, 6)) \in Shifts
      /\ DecodeImmShift(\b10, Bits(r.low, 10, 6)) \in Shifts
  BY <1>2, ShiftDecodes
<1>7. /\ SignExtend(Bits(r.low, 7, 0) * 2, 8) \in Int
      /\ SignExtend(Bits(r.low, 10, 0) * 2, 11) \in Int
  <2>1. Bits(r.low, 7, 0) * 2 \in Nat /\ Bits(r.low, 10, 0) * 2 \in Nat
    BY <1>C DEF CutFields
  <2>2. QED
    BY <2>1, SignExtended
<1>8. \A w \in Nat : Bits(w, 15, 15) = Bit(w, 15)
  BY DEF Bits, Bit
<1>9. Bit(Bits(r.low, 7, 0), 15) = 0
  BY <1>1 DEF Bits, Bit
<1>10. 2^Rt(r) \in Nat /\ (Bit(2^Rt(r), 15) = 1 => Rt(r) = 15)
  <2>1. Rt(r) \in 0 .. 15 /\ Rt(r) \in 0 .. 24
    BY <1>2 DEF Registers
  <2>2. 2^Rt(r) \in Nat
    BY <2>1, SmallPowers, Zenon
  <2>3. Bit(2^Rt(r), 15) = 1 => Rt(r) = 15
    BY <2>1, HighRegister, Zenon
  <2>4. QED
    BY <2>2, <2>3
<1>11. Bits(r.high, 5, 4) * 8 \in Nat
  BY <1>2
<1>12. QED
  BY <1>C, <1>2, <1>3, <1>4, <1>5, <1>6, <1>7, <1>8, <1>9, <1>10, <1>11 DEF WellCut

------------------------------------------------------------------------------
(* The decoders *)

LEMMA PartsOfCases == /\ DOMAIN CasesLdrLiteralToAsrImmediate \subseteq DOMAIN Cases
 /\ DOMAIN CasesLslImmediateToSxth \subseteq DOMAIN Cases
 /\ DOMAIN CasesUxthToAddPcPlusImmediate \subseteq DOMAIN Cases
 /\ DOMAIN CasesAddSpPlusImmediateToSubRegister \subseteq DOMAIN Cases
 /\ DOMAIN CasesRsbRegisterToBicImmediate \subseteq DOMAIN Cases
 /\ DOMAIN CasesMvnRegisterToDmb \subseteq DOMAIN Cases
  BY DEF Cases, Merge

LEMMA NopT1DecoderSound ==
  ASSUME NEW r \in Raw, NEW it, WellCut(r) PROVE Sound(NopT1Decoder(r, it), it, FALSE)
<1> DEFINE d == NopT1Decoder(r, it)
           i == d.instr
<1>1. /\ i.id = "kNop"
      /\ DOMAIN i.fields = {}
      /\ "k32Bit" \notin i.flags /\ "kSetFlags" \notin i.flags
      /\ d.failed \subseteq {"decoder"}
  BY DEF WellCut, Registers, Decoding, New, NopT1Decoder, NoFields, When
<1> HIDE DEF d
<1>2. Shaped(i) /\ i.id \in DOMAIN Cases
  BY <1>1, PartsOfCases DEF Shaped, CasesMvnRegisterToDmb
<1>3. QED
  BY <1>1, <1>2 DEF Sound, Formed, Valid, IndexedLoads, Loads, d

LEMMA AddPcPlusImmediateT1DecoderSound ==
  ASSUME NEW r \in Raw, NEW it, WellCut(r) PROVE Sound(AddPcPlusImmediateT1Decoder(r, it), it, FALSE)
<1> DEFINE d == AddPcPlusImmediateT1Decoder(r, it)
           i == d.instr
<1>1. /\ i.id = "kAddPcPlusImmediate"
      /\ i.fields \in [d : Registers, imm32 : Int]
      /\ "k32Bit" \notin i.flags /\ "kSetFlags" \notin i.flags
      /\ d.failed \subseteq {"decoder"}
  BY DEF WellCut, CutFields, Registers, Decoding, New, AddPcPlusImmediateT1Decoder, When
<1>2. d.status = "kSuccess" /\ d.failed = {} => i.fields.d # 15
  BY DEF WellCut, CutFields, Registers, Decoding, New, AddPcPlusImmediateT1Decoder, When
<1> HIDE DEF d
<1>3. Shaped(i) /\ i.id \in DOMAIN Cases
  BY <1>1, PartsOfCases DEF Shaped, CasesUxthToAddPcPlusImmediate
<1>4. QED
  BY <1>1, <1>2, <1>3 DEF Sound, Formed, Valid, IndexedLoads, Loads, d

LEMMA LslImmediateT1DecoderSound ==
  ASSUME NEW r \in Raw, NEW it, WellCut(r) PROVE Sound(LslImmediateT1Decoder(r, it), it, FALSE)
<1> DEFINE d == LslImmediateT1Decoder(r, it)
           i == d.instr
<1>1. /\ i.id = "kLslImmediate"
      /\ i.fields \in [d : Registers, m : Registers, shift_res : Shifts]
      /\ "k32Bit" \notin i.flags /\ ("kSetFlags" \in i.flags => ~InITBlock(it))
      /\ d.failed \subseteq {"decoder"}
  BY DEF WellCut, CutFields, Registers, Decoding, New, LslImmediateT1Decoder, SetFlagsOutside, When
<1>2. d.status = "kSuccess" /\ d.failed = {} => i.fields.d # 15
  BY DEF WellCut, CutFields, Registers, Decoding, New, LslImmediateT1Decoder, When
<1> HIDE DEF d
<1>3. Shaped(i) /\ i.id \in DOMAIN Cases
  BY <1>1, PartsOfCases DEF Shaped, CasesLslImmediateToSxth
<1>4. QED
  BY <1>1, <1>2, <1>3 DEF Sound, Formed, Valid, IndexedLoads, Loads, d

LEMMA LslRegisterT1DecoderSound ==
  ASSUME NEW r \in Raw, NEW it, WellCut(r) PROVE Sound(LslRegisterT1Decoder(r, it), it, FALSE)
<1> DEFINE d == LslRegisterT1Decoder(r, it)
           i == d.instr
<1>1. /\ i.id = "kLslRegister"
      /\ i.fields \in [d : Registers, n : Registers, m : Registers]
      /\ "k32Bit" \notin i.flags /\ ("kSetFlags" \in i.flags => ~InITBlock(it)) /\ "kWBack" \notin i.flags
      /\ d.failed \subseteq {"decoder"}
  BY DEF WellCut, CutFields, Registers, Decoding, New, LslRegisterT1Decoder, SetFlagsOutside, When
<1>2. d.status = "kSuccess" /\ d.failed = {} => i.fields.d # 15
  BY DEF WellCut, CutFields, Registers, Decoding, New, LslRegisterT1Decoder, When
<1> HIDE DEF d
<1>3. Shaped(i) /\ i.id \in DOMAIN Cases
  BY <1>1, PartsOfCases DEF Shaped, CasesLslImmediateToSxth
<1>4. QED
  BY <1>1, <1>2, <1>3 DEF Sound, Formed, Valid, IndexedLoads, Loads, d

LEMMA AsrImmediateT1DecoderSound ==
  ASSUME NEW r \in Raw, NEW it, WellCut(r) PROVE Sound(AsrImmediateT1Decoder(r, it), it, FALSE)
<1> DEFINE d == AsrImmediateT1Decoder(r, it)
           i == d.instr
<1>1. /\ i.id = "kAsrImmediate"
      /\ i.fields \in [d : Registers, m : Registers, shift_res : Shifts]
      /\ "k32Bit" \notin i.flags /\ ("kSetFlags" \in i.flags => ~InITBlock(it))
      /\ d.failed \subseteq {"decoder"}
  BY DEF WellCut, CutFields, Registers, Decoding, New, AsrImmediateT1Decoder, SetFlagsOutside, When
<1>2. d.status = "kSuccess" /\ d.failed = {} => i.fields.d # 15
  BY DEF WellCut, CutFields, Registers, Decoding, New, AsrImmediateT1Decoder, When
<1> HIDE DEF d
<1>3. Shaped(i) /\ i.id \in DOMAIN Cases
  BY <1>1, PartsOfCases DEF Shaped, CasesLdrLiteralToAsrImmediate
<1>4. QED
  BY <1>1, <1>2, <1>3 DEF Sound, Formed, Valid, IndexedLoads, Loads, d

LEMMA CmpRegisterT1DecoderSound ==
  ASSUME NEW r \in Raw, NEW it, WellCut(r) PROVE Sound(CmpRegisterT1Decoder(r, it), it, FALSE)
<1> DEFINE d == CmpRegisterT1Decoder(r, it)
           i == d.instr
<1>1. /\ i.id = "kCmpRegister"
      /\ i.fields \in [n : Registers, m : Registers, shift_res : Shifts]
      /\ "k32Bit" \notin i.flags /\ "kSetFlags" \notin i.flags /\ "kWBack" \notin i.flags
      /\ d.failed \subseteq {"decoder"}
  BY DEF WellCut, CutFields, Registers, Decoding, New, CmpRegisterT1Decoder, ImmShift, Shifts, When
<1> HIDE DEF d
<1>2. Shaped(i) /\ i.id \in DOMAIN Cases
  BY <1>1, PartsOfCases DEF Shaped, CasesLslImmediateToSxth
<1>3. QED
  BY <1>1, <1>2 DEF Sound, Formed, Valid, IndexedLoads, Loads, d

LEMMA CmpRegisterT2DecoderSound ==
  ASSUME NEW r \in Raw, NEW it, WellCut(r) PROVE Sound(CmpRegisterT2Decoder(r, it), it, FALSE)
<1> DEFINE d == CmpRegisterT2Decoder(r, it)
           i == d.instr
<1>1. /\ i.id = "kCmpRegister"
      /\ i.fields \in [n : Registers, m : Registers, shift_res : Shifts]
      /\ "k32Bit" \notin i.flags /\ "kSetFlags" \notin i.flags /\ "kWBack" \notin i.flags
      /\ d.failed \subseteq {"decoder"}
  BY DEF WellCut, CutFields, Registers, Decoding, New, CmpRegisterT2Decoder, Unpredictable, Refuse,
        ImmShift, Shifts, When
<1> HIDE DEF d
<1>2. Shaped(i) /\ i.id \in DOMAIN Cases
  BY <1>1, PartsOfCases DEF Shaped, CasesLslImmediateToSxth
<1>3. QED
  BY <1>1, <1>2 DEF Sound, Formed, Valid, IndexedLoads, Loads, d

LEMMA CmpImmediateT1DecoderSound ==
  ASSUME NEW r \in Raw, NEW it, WellCut(r) PROVE Sound(CmpImmediateT1Decoder(r, it), it, FALSE)
<1> DEFINE d == CmpImmediateT1Decoder(r, it)
           i == d.instr
<1>1. /\ i.id = "kCmpImmediate"
      /\ i.fields \in [n : Registers, imm32 : Int]
      /\ "k32Bit" \notin i.flags /\ "kSetFlags" \notin i.flags /\ "kWBack" \notin i.flags
      /\ d.failed \subseteq {"decoder"}
  BY DEF WellCut, CutFields, Registers, Decoding, New, CmpImmediateT1Decoder, When
<1> HIDE DEF d
<1>2. Shaped(i) /\ i.id \in DOMAIN Cases
  BY <1>1, PartsOfCases DEF Shaped, CasesLslImmediateToSxth
<1>3. QED
  BY <1>1, <1>2 DEF Sound, Formed, Valid, IndexedLoads, Loads, d

LEMMA MovImmediateT1DecoderSound ==
  ASSUME NEW r \in Raw, NEW it, WellCut(r) PROVE Sound(MovImmediateT1Decoder(r, it), it, FALSE)
<1> DEFINE d == MovImmediateT1Decoder(r, it)
           i == d.instr
<1>1. /\ i.id = "kMovImmediate"
      /\ i.fields \in [d : Registers, imm32_carry : Carries]
      /\ "k32Bit" \notin i.flags /\ ("kSetFlags" \in i.flags => ~InITBlock(it))
      /\ d.failed \subseteq {"decoder"}
  BY DEF WellCut, CutFields, Registers, Decoding, New, MovImmediateT1Decoder, SetFlagsOutside, When,
        ImmCarry, Carries
<1>2. d.status = "kSuccess" /\ d.failed = {} => i.fields.d # 15
  BY DEF WellCut, CutFields, Registers, Decoding, New, MovImmediateT1Decoder, When
<1> HIDE DEF d
<1>3. Shaped(i) /\ i.id \in DOMAIN Cases
  BY <1>1, PartsOfCases DEF Shaped, CasesLslImmediateToSxth
<1>4. QED
  BY <1>1, <1>2, <1>3 DEF Sound, Formed, Valid, IndexedLoads, Loads, d

LEMMA RsbImmediateT1DecoderSound ==
  ASSUME NEW r \in Raw, NEW it, WellCut(r) PROVE Sound(RsbImmediateT1Decoder(r, it), it, FALSE)
<1> DEFINE d == RsbImmediateT1Decoder(r, it)
           i == d.instr
<1>1. /\ i.id = "kRsbImmediate"
      /\ i.fields \in [d : Registers, n : Registers, imm32 : Int]
      /\ "k32Bit" \notin i.flags /\ ("kSetFlags" \in i.flags => ~InITBlock(it)) /\ "kWBack" \notin i.flags
      /\ d.failed \subseteq {"decoder"}
  BY DEF WellCut, CutFields, Registers, Decoding, New, RsbImmediateT1Decoder, SetFlagsOutside, When
<1>2. d.status = "kSuccess" /\ d.failed = {} => i.fields.d # 15
  BY DEF WellCut, CutFields, Registers, Decoding, New, RsbImmediateT1Decoder, When
<1> HIDE DEF d
<1>3. Shaped(i) /\ i.id \in DOMAIN Cases
  BY <1>1, PartsOfCases DEF Shaped, CasesUxthToAddPcPlusImmediate
<1>4. QED
  BY <1>1, <1>2, <1>3 DEF Sound, Formed, Valid, IndexedLoads, Loads, d

LEMMA MovRegisterT1DecoderSound ==
  ASSUME NEW r \in Raw, NEW it, WellCut(r) PROVE Sound(MovRegisterT1Decoder(r, it), it, FALSE)
<1> DEFINE d == MovRegisterT1Decoder(r, it)
           i == d.instr
<1>1. /\ i.id = "kMovRegister"
      /\ i.fields \in [d : Registers, m : Registers]
      /\ "k32Bit" \notin i.flags /\ "kSetFlags" \notin i.flags
      /\ d.failed \subseteq {"decoder"}
  BY DEF WellCut, CutFields, Registers, Decoding, New, MovRegisterT1Decoder, Unpredictable, Refuse, When
<1>2. d.status = "kSuccess" /\ d.failed = {} => (MidITBlock(it) => i.fields.d # 15)
  BY DEF Decoding, New, MovRegisterT1Decoder, Unpredictable, Refuse, When
<1> HIDE DEF d
<1>3. Shaped(i) /\ i.id \in DOMAIN Cases
  BY <1>1, PartsOfCases DEF Shaped, CasesLslImmediateToSxth
<1>4. QED
  BY <1>1, <1>2, <1>3 DEF Sound, Formed, Valid, IndexedLoads, Loads, d

LEMMA MovRegisterT2DecoderSound ==
  ASSUME NEW r \in Raw, NEW it, WellCut(r) PROVE Sound(MovRegisterT2Decoder(r, it), it, FALSE)
<1> DEFINE d == MovRegisterT2Decoder(r, it)
           i == d.instr
<1>1. /\ i.id = "kMovRegister"
      /\ i.fields \in [d : Registers, m : Registers]
      /\ "k32Bit" \notin i.flags
      /\ d.failed \subseteq {"decoder"}
  BY DEF WellCut, CutFields, Registers, Decoding, New, MovRegisterT2Decoder, Unpredictable, Refuse, When
<1>2. /\ d.status = "kSuccess" => ~InITBlock(it)
      /\ d.status = "kSuccess" /\ d.failed = {} => (MidITBlock(it) => i.fields.d # 15)
  BY DEF WellCut, CutFields, Registers, Decoding, New, MovRegisterT2Decoder, Unpredictable, Refuse,
        When
<1> HIDE DEF d
<1>3. Shaped(i) /\ i.id \in DOMAIN Cases
  BY <1>1, PartsOfCases DEF Shaped, CasesLslImmediateToSxth
<1>4. QED
  BY <1>1, <1>2, <1>3 DEF Sound, Formed, Valid, IndexedLoads, Loads, d

LEMMA LdrLiteralT1DecoderSound ==
  ASSUME NEW r \in Raw, NEW it, WellCut(r) PROVE Sound(LdrLiteralT1Decoder(r, it), it, FALSE)
<1> DEFINE d == LdrLiteralT1Decoder(r, it)
           i == d.instr
<1>1. /\ i.id = "kLdrLiteral"
      /\ i.fields \in [t : Registers, imm32 : Int]
      /\ "k32Bit" \notin i.flags /\ "kSetFlags" \notin i.flags
      /\ d.failed \subseteq {"decoder"}
  BY DEF WellCut, CutFields, Registers, Decoding, New, LdrLiteralT1Decoder, When
<1>2. d.status = "kSuccess" /\ d.failed = {} => (MidITBlock(it) => i.fields.t # 15)
  BY DEF WellCut, CutFields, Registers, Decoding, New, LdrLiteralT1Decoder, When
<1> HIDE DEF d
<1>3. Shaped(i) /\ i.id \in DOMAIN Cases
  BY <1>1, PartsOfCases DEF Shaped, CasesLdrLiteralToAsrImmediate
<1>4. QED
  BY <1>1, <1>2, <1>3 DEF Sound, Formed, Valid, IndexedLoads, Loads, d

LEMMA LdrbImmediateT1DecoderSound ==
  ASSUME NEW r \in Raw, NEW it, WellCut(r) PROVE Sound(LdrbImmediateT1Decoder(r, it), it, FALSE)
<1> DEFINE d == LdrbImmediateT1Decoder(r, it)
           i == d.instr
<1>1. /\ i.id = "kLdrbImmediate"
      /\ i.fields \in [t : Registers, n : Registers, imm32 : Int]
      /\ "k32Bit" \notin i.flags /\ "kSetFlags" \notin i.flags /\ "kWBack" \notin i.flags
      /\ d.failed \subseteq {"decoder"}
  BY DEF WellCut, CutFields, Registers, Decoding, New, LdrbImmediateT1Decoder, When
<1>2. d.status = "kSuccess" /\ d.failed = {} => (MidITBlock(it) => i.fields.t # 15)
  BY DEF WellCut, CutFields, Registers, Decoding, New, LdrbImmediateT1Decoder, When
<1> HIDE DEF d
<1>3. Shaped(i) /\ i.id \in DOMAIN Cases
  BY <1>1, PartsOfCases DEF Shaped, CasesLdrLiteralToAsrImmediate
<1>4. QED
  BY <1>1, <1>2, <1>3 DEF Sound, Formed, Valid, IndexedLoads, Loads, d

LEMMA LdrhImmediateT1DecoderSound ==
  ASSUME NEW r \in Raw, NEW it, WellCut(r) PROVE Sound(LdrhImmediateT1Decoder(r, it), it, FALSE)
<1> DEFINE d == LdrhImmediateT1Decoder(r, it)
           i == d.instr
<1>1. /\ i.id = "kLdrhImmediate"
      /\ i.fields \in [t : Registers, n : Registers, imm32 : Int]
      /\ "k32Bit" \notin i.flags /\ "kSetFlags" \notin i.flags /\ "kWBack" \notin i.flags
      /\ d.failed \subseteq {"decoder"}
  BY DEF WellCut, CutFields, Registers, Decoding, New, LdrhImmediateT1Decoder, When
<1>2. d.status = "kSuccess" /\ d.failed = {} => (MidITBlock(it) => i.fields.t # 15)
  BY DEF WellCut, CutFields, Registers, Decoding, New, LdrhImmediateT1Decoder, When
<1> HIDE DEF d
<1>3. Shaped(i) /\ i.id \in DOMAIN Cases
  BY <1>1, PartsOfCases DEF Shaped, CasesLdrLiteralToAsrImmediate
<1>4. QED
  BY <1>1, <1>2, <1>3 DEF Sound, Formed, Valid, IndexedLoads, Loads, d

LEMMA PopT1DecoderSound ==
  ASSUME NEW r \in Raw, NEW it, WellCut(r) PROVE Sound(PopT1Decoder(r, it), it, FALSE)
<1> DEFINE d == PopT1Decoder(r, it)
           i == d.instr
<1>1. /\ i.id = "kPop"
      /\ i.fields \in [registers : Nat]
      /\ "k32Bit" \notin i.flags /\ "kSetFlags" \notin i.flags
      /\ d.failed \subseteq {"decoder"}
  BY DEF WellCut, CutFields, Registers, Decoding, New, PopT1Decoder, Unpredictable, Refuse, When
<1>2. d.status = "kSuccess" /\ d.failed = {} => (MidITBlock(it) => Bit(i.fields.registers, 15) # 1)
  BY DEF WellCut, CutFields, Registers, Decoding, New, PopT1Decoder, Unpredictable, Refuse, When
<1> HIDE DEF d
<1>3. Shaped(i) /\ i.id \in DOMAIN Cases
  BY <1>1, PartsOfCases DEF Shaped, CasesRsbRegisterToBicImmediate
<1>4. QED
  BY <1>1, <1>2, <1>3 DEF Sound, Formed, Valid, IndexedLoads, Loads, d

LEMMA LdrImmediateT1DecoderSound ==
  ASSUME NEW r \in Raw, NEW it, WellCut(r) PROVE Sound(LdrImmediateT1Decoder(r, it), it, FALSE)
<1> DEFINE d == LdrImmediateT1Decoder(r, it)
           i == d.instr
<1>1. /\ i.id = "kLdrImmediate"
      /\ i.fields \in [t : Registers, n : Registers, imm32 : Int]
      /\ "k32Bit" \notin i.flags /\ "kSetFlags" \notin i.flags /\ "kWBack" \notin i.flags
      /\ d.failed \subseteq {"decoder"}
  BY DEF WellCut, CutFields, Registers, Decoding, New, LdrImmediateT1Decoder, When
<1>2. d.status = "kSuccess" /\ d.failed = {} => (MidITBlock(it) => i.fields.t # 15)
  BY DEF WellCut, CutFields, Registers, Decoding, New, LdrImmediateT1Decoder, When
<1> HIDE DEF d
<1>3. Shaped(i) /\ i.id \in DOMAIN Cases
  BY <1>1, PartsOfCases DEF Shaped, CasesLdrLiteralToAsrImmediate
<1>4. QED
  BY <1>1, <1>2, <1>3 DEF Sound, Formed, Valid, IndexedLoads, Loads, d

LEMMA LdrImmediateT2DecoderSound ==
  ASSUME NEW r \in Raw, NEW it, WellCut(r) PROVE Sound(LdrImmediateT2Decoder(r, it), it, FALSE)
<1> DEFINE d == LdrImmediateT2Decoder(r, it)
           i == d.instr
<1>1. /\ i.id = "kLdrImmediate"
      /\ i.fields \in [t : Registers, n : Registers, imm32 : Int]
      /\ "k32Bit" \notin i.flags /\ "kSetFlags" \notin i.flags /\ "kWBack" \notin i.flags
      /\ d.failed \subseteq {"decoder"}
  BY DEF WellCut, CutFields, Registers, Decoding, New, LdrImmediateT2Decoder, When
<1>2. d.status = "kSuccess" /\ d.failed = {} => (MidITBlock(it) => i.fields.t # 15)
  BY DEF WellCut, CutFields, Registers, Decoding, New, LdrImmediateT2Decoder, When
<1> HIDE DEF d
<1>3. Shaped(i) /\ i.id \in DOMAIN Cases
  BY <1>1, PartsOfCases DEF Shaped, CasesLdrLiteralToAsrImmediate
<1>4. QED
  BY <1>1, <1>2, <1>3 DEF Sound, Formed, Valid, IndexedLoads, Loads, d

LEMMA ItT1DecoderSound ==
  ASSUME NEW r \in Raw, NEW it, WellCut(r), Bits(r.low, 3, 0) # 0 PROVE Sound(ItT1Decoder(r, it), it, FALSE)
<1> DEFINE d == ItT1Decoder(r, it)
           i == d.instr
<1>1. /\ i.id = "kIt"
      /\ i.fields \in [firstcond : Registers, mask : Registers]
      /\ "k32Bit" \notin i.flags /\ "kSetFlags" \notin i.flags
      /\ d.failed \subseteq {"decoder"}
  BY DEF WellCut, CutFields, Registers, Decoding, New, ItT1Decoder, Unpredictable, Refuse, When
<1>2. d.status = "kSuccess" => ~InITBlock(it) /\ i.fields.mask # 0
  BY DEF Decoding, New, ItT1Decoder, Unpredictable, Refuse, When
<1> HIDE DEF d
<1>3. Shaped(i) /\ i.id \in DOMAIN Cases
  BY <1>1, PartsOfCases DEF Shaped, CasesLslImmediateToSxth
<1>4. QED
  BY <1>1, <1>2, <1>3 DEF Sound, Formed, Valid, IndexedLoads, Loads, d

LEMMA BxT1DecoderSound ==
  ASSUME NEW r \in Raw, NEW it, WellCut(r) PROVE Sound(BxT1Decoder(r, it), it, FALSE)
<1> DEFINE d == BxT1Decoder(r, it)
           i == d.instr
<1>1. /\ i.id = "kBx"
      /\ i.fields \in [m : Registers]
      /\ "k32Bit" \notin i.flags /\ "kSetFlags" \notin i.flags
      /\ d.failed \subseteq {"decoder"}
  BY DEF WellCut, CutFields, Registers, Decoding, New, BxT1Decoder, Unpredictable, Refuse, When
<1>2. d.status = "kSuccess" /\ d.failed = {} => ~MidITBlock(it)
  BY DEF Decoding, New, BxT1Decoder, Unpredictable, Refuse, When
<1> HIDE DEF d
<1>3. Shaped(i) /\ i.id \in DOMAIN Cases
  BY <1>1, PartsOfCases DEF Shaped, CasesUxthToAddPcPlusImmediate
<1>4. QED
  BY <1>1, <1>2, <1>3 DEF Sound, Formed, Valid, IndexedLoads, Loads, d

LEMMA BlxT1DecoderSound ==
  ASSUME NEW r \in Raw, NEW it, WellCut(r) PROVE Sound(BlxT1Decoder(r, it), it, FALSE)
<1> DEFINE d == BlxT1Decoder(r, it)
           i == d.instr
<1>1. /\ i.id = "kBlx"
      /\ i.fields \in [m : Registers]
      /\ "k32Bit" \notin i.flags /\ "kSetFlags" \notin i.flags
      /\ d.failed \subseteq {"decoder"}
  BY DEF WellCut, CutFields, Registers, Decoding, New, BlxT1Decoder, Unpredictable, Refuse, When
<1>2. d.status = "kSuccess" /\ d.failed = {} => ~MidITBlock(it)
  BY DEF Decoding, New, BlxT1Decoder, Unpredictable, Refuse, When
<1> HIDE DEF d
<1>3. Shaped(i) /\ i.id \in DOMAIN Cases
  BY <1>1, PartsOfCases DEF Shaped, CasesUxthToAddPcPlusImmediate
<1>4. QED
  BY <1>1, <1>2, <1>3 DEF Sound, Formed, Valid, IndexedLoads, Loads, d

LEMMA BT1DecoderSound ==
  ASSUME NEW r \in Raw, NEW it, WellCut(r) PROVE Sound(BT1Decoder(r, it), it, FALSE)
<1> DEFINE d == BT1Decoder(r, it)
           i == d.instr
<1>1. /\ i.id = "kBCond"
      /\ i.fields \in [cond : Registers, imm32 : Int]
      /\ "k32Bit" \notin i.flags /\ "kSetFlags" \notin i.flags
      /\ d.failed \subseteq {"decoder"}
  BY DEF WellCut, CutFields, Registers, Decoding, New, BT1Decoder, Unpredictable, Refuse, When
<1>2. d.status = "kSuccess" => ~InITBlock(it)
  BY DEF Decoding, New, BT1Decoder, Unpredictable, Refuse, When
<1> HIDE DEF d
<1>3. Shaped(i) /\ i.id \in DOMAIN Cases
  BY <1>1, PartsOfCases DEF Shaped, CasesUxthToAddPcPlusImmediate
<1>4. QED
  BY <1>1, <1>2, <1>3 DEF Sound, Formed, Valid, IndexedLoads, Loads, d

LEMMA BT2DecoderSound ==
  ASSUME NEW r \in Raw, NEW it, WellCut(r) PROVE Sound(BT2Decoder(r, it), it, FALSE)
<1> DEFINE d == BT2Decoder(r, it)
           i == d.instr
<1>1. /\ i.id = "kB"
      /\ i.fields \in [imm32 : Int]
      /\ "k32Bit" \notin i.flags /\ "kSetFlags" \notin i.flags
      /\ d.failed \subseteq {"decoder"}
  BY DEF WellCut, CutFields, Registers, Decoding, New, BT2Decoder, Unpredictable, Refuse, When
<1>2. d.status = "kSuccess" /\ d.failed = {} => ~MidITBlock(it)
  BY DEF Decoding, New, BT2Decoder, Unpredictable, Refuse, When
<1> HIDE DEF d
<1>3. Shaped(i) /\ i.id \in DOMAIN Cases
  BY <1>1, PartsOfCases DEF Shaped, CasesUxthToAddPcPlusImmediate
<1>4. QED
  BY <1>1, <1>2, <1>3 DEF Sound, Formed, Valid, IndexedLoads, Loads, d

LEMMA SubSpMinusImmediateT1DecoderSound ==
  ASSUME NEW r \in Raw, NEW it, WellCut(r) PROVE Sound(SubSpMinusImmediateT1Decoder(r, it), it, FALSE)
<1> DEFINE d == SubSpMinusImmediateT1Decoder(r, it)
           i == d.instr
<1>1. /\ i.id = "kSubSpMinusImmediate"
      /\ i.fields \in [d : Registers, imm32 : Int]
      /\ "k32Bit" \notin i.flags /\ "kSetFlags" \notin i.flags
      /\ d.failed \subseteq {"decoder"}
  BY DEF WellCut, CutFields, Registers, Decoding, New, SubSpMinusImmediateT1Decoder, When
<1>2. d.status = "kSuccess" /\ d.failed = {} => i.fields.d # 15
  BY DEF Decoding, New, SubSpMinusImmediateT1Decoder, When
<1> HIDE DEF d
<1>3. Shaped(i) /\ i.id \in DOMAIN Cases
  BY <1>1, PartsOfCases DEF Shaped, CasesUxthToAddPcPlusImmediate
<1>4. QED
  BY <1>1, <1>2, <1>3 DEF Sound, Formed, Valid, IndexedLoads, Loads, d

LEMMA SubImmediateT1DecoderSound ==
  ASSUME NEW r \in Raw, NEW it, WellCut(r) PROVE Sound(SubImmediateT1Decoder(r, it), it, FALSE)
<1> DEFINE d == SubImmediateT1Decoder(r, it)
           i == d.instr
<1>1. /\ i.id = "kSubImmediate"
      /\ i.fields \in [d : Registers, n : Registers, imm32 : Int]
      /\ "k32Bit" \notin i.flags /\ ("kSetFlags" \in i.flags => ~InITBlock(it)) /\ "kWBack" \notin i.flags
      /\ d.failed \subseteq {"decoder"}
  BY DEF WellCut, CutFields, Registers, Decoding, New, SubImmediateT1Decoder, SetFlagsOutside, When
<1>2. d.status = "kSuccess" /\ d.failed = {} => i.fields.d # 15
  BY DEF WellCut, CutFields, Registers, Decoding, New, SubImmediateT1Decoder, When
<1> HIDE DEF d
<1>3. Shaped(i) /\ i.id \in DOMAIN Cases
  BY <1>1, PartsOfCases DEF Shaped, CasesUxthToAddPcPlusImmediate
<1>4. QED
  BY <1>1, <1>2, <1>3 DEF Sound, Formed, Valid, IndexedLoads, Loads, d

LEMMA SubImmediateT2DecoderSound ==
  ASSUME NEW r \in Raw, NEW it, WellCut(r) PROVE Sound(SubImmediateT2Decoder(r, it), it, FALSE)
<1> DEFINE d == SubImmediateT2Decoder(r, it)
           i == d.instr
<1>1. /\ i.id = "kSubImmediate"
      /\ i.fields \in [d : Registers, n : Registers, imm32 : Int]
      /\ "k32Bit" \notin i.flags /\ ("kSetFlags" \in i.flags => ~InITBlock(it)) /\ "kWBack" \notin i.flags
      /\ d.failed \subseteq {"decoder"}
  BY DEF WellCut, CutFields, Registers, Decoding, New, SubImmediateT2Decoder, SetFlagsOutside, When
<1>2. d.status = "kSuccess" /\ d.failed = {} => i.fields.d # 15
  BY DEF WellCut, CutFields, Registers, Decoding, New, SubImmediateT2Decoder, When
<1> HIDE DEF d
<1>3. Shaped(i) /\ i.id \in DOMAIN Cases
  BY <1>1, PartsOfCases DEF Shaped, CasesUxthToAddPcPlusImmediate
<1>4. QED
  BY <1>1, <1>2, <1>3 DEF Sound, Formed, Valid, IndexedLoads, Loads, d

LEMMA AddSpPlusImmediateT1DecoderSound ==
  ASSUME NEW r \in Raw, NEW it, WellCut(r) PROVE Sound(AddSpPlusImmediateT1Decoder(r, it), it, FALSE)
<1> DEFINE d == AddSpPlusImmediateT1Decoder(r, it)
           i == d.instr
<1>1. /\ i.id = "kAddSpPlusImmediate"
      /\ i.fields \in [d : Registers, imm32 : Int]
      /\ "k32Bit" \notin i.flags /\ "kSetFlags" \notin i.flags
      /\ d.failed \subseteq {"decoder"}
  BY DEF WellCut, CutFields, Registers, Decoding, New, AddSpPlusImmediateT1Decoder, When
<1>2. d.status = "kSuccess" /\ d.failed = {} => i.fields.d # 15
  BY DEF WellCut, CutFields, Registers, Decoding, New, AddSpPlusImmediateT1Decoder, When
<1> HIDE DEF d
<1>3. Shaped(i) /\ i.id \in DOMAIN Cases
  BY <1>1, PartsOfCases DEF Shaped, CasesAddSpPlusImmediateToSubRegister
<1>4. QED
  BY <1>1, <1>2, <1>3 DEF Sound, Formed, Valid, IndexedLoads, Loads, d

LEMMA AddSpPlusImmediateT2DecoderSound ==
  ASSUME NEW r \in Raw, NEW it, WellCut(r) PROVE Sound(AddSpPlusImmediateT2Decoder(r, it), it, FALSE)
<1> DEFINE d == AddSpPlusImmediateT2Decoder(r, it)
           i == d.instr
<1>1. /\ i.id = "kAddSpPlusImmediate"
      /\ i.fields \in [d : Registers, imm32 : Int]
      /\ "k32Bit" \notin i.flags /\ "kSetFlags" \notin i.flags
      /\ d.failed \subseteq {"decoder"}
  BY DEF WellCut, CutFields, Registers, Decoding, New, AddSpPlusImmediateT2Decoder, When
<1>2. d.status = "kSuccess" /\ d.failed = {} => i.fields.d # 15
  BY DEF Decoding, New, AddSpPlusImmediateT2Decoder, When
<1> HIDE DEF d
<1>3. Shaped(i) /\ i.id \in DOMAIN Cases
  BY <1>1, PartsOfCases DEF Shaped, CasesAddSpPlusImmediateToSubRegister
<1>4. QED
  BY <1>1, <1>2, <1>3 DEF Sound, Formed, Valid, IndexedLoads, Loads, d

LEMMA AddImmediateT1DecoderSound ==
  ASSUME NEW r \in Raw, NEW it, WellCut(r) PROVE Sound(AddImmediateT1Decoder(r, it), it, FALSE)
<1> DEFINE d == AddImmediateT1Decoder(r, it)
           i == d.instr
<1>1. /\ i.id = "kAddImmediate"
      /\ i.fields \in [d : Registers, n : Registers, imm32 : Int]
      /\ "k32Bit" \notin i.flags /\ ("kSetFlags" \in i.flags => ~InITBlock(it)) /\ "kWBack" \notin i.flags
      /\ d.failed \subseteq {"decoder"}
  BY DEF WellCut, CutFields, Registers, Decoding, New, AddImmediateT1Decoder, SetFlagsOutside, When
<1>2. d.status = "kSuccess" /\ d.failed = {} => i.fields.d # 15
  BY DEF WellCut, CutFields, Registers, Decoding, New, AddImmediateT1Decoder, When
<1> HIDE DEF d
<1>3. Shaped(i) /\ i.id \in DOMAIN Cases
  BY <1>1, PartsOfCases DEF Shaped, CasesUxthToAddPcPlusImmediate
<1>4. QED
  BY <1>1, <1>2, <1>3 DEF Sound, Formed, Valid, IndexedLoads, Loads, d

LEMMA AddImmediateT2DecoderSound ==
  ASSUME NEW r \in Raw, NEW it, WellCut(r) PROVE Sound(AddImmediateT2Decoder(r, it), it, FALSE)
<1> DEFINE d == AddImmediateT2Decoder(r, it)
           i == d.instr
<1>1. /\ i.id = "kAddImmediate"
      /\ i.fields \in [d : Registers, n : Registers, imm32 : Int]
      /\ "k32Bit" \notin i.flags /\ ("kSetFlags" \in i.flags => ~InITBlock(it)) /\ "kWBack" \notin i.flags
      /\ d.failed \subseteq {"decoder"}
  BY DEF WellCut, CutFields, Registers, Decoding, New, AddImmediateT2Decoder, SetFlagsOutside, When
<1>2. d.status = "kSuccess" /\ d.failed = {} => i.fields.d # 15
  BY DEF WellCut, CutFields, Registers, Decoding, New, AddImmediateT2Decoder, When
<1> HIDE DEF d
<1>3. Shaped(i) /\ i.id \in DOMAIN Cases
  BY <1>1, PartsOfCases DEF Shaped, CasesUxthToAddPcPlusImmediate
<1>4. QED
  BY <1>1, <1>2, <1>3 DEF Sound, Formed, Valid, IndexedLoads, Loads, d

LEMMA TstRegisterT1DecoderSound ==
  ASSUME NEW r \in Raw, NEW it, WellCut(r) PROVE Sound(TstRegisterT1Decoder(r, it), it, FALSE)
<1> DEFINE d == TstRegisterT1Decoder(r, it)
           i == d.instr
<1>1. /\ i.id = "kTstRegister"
      /\ i.fields \in [n : Registers, m : Registers, shift_res : Shifts]
      /\ "k32Bit" \notin i.flags /\ "kSetFlags" \notin i.flags /\ "kWBack" \notin i.flags
      /\ d.failed \subseteq {"decoder"}
  BY DEF WellCut, CutFields, Registers, Decoding, New, TstRegisterT1Decoder, ImmShift, Shifts, When
<1> HIDE DEF d
<1>2. Shaped(i) /\ i.id \in DOMAIN Cases
  BY <1>1, PartsOfCases DEF Shaped, CasesAddSpPlusImmediateToSubRegister
<1>3. QED
  BY <1>1, <1>2 DEF Sound, Formed, Valid, IndexedLoads, Loads, d

LEMMA SubRegisterT1DecoderSound ==
  ASSUME NEW r \in Raw, NEW it, WellCut(r) PROVE Sound(SubRegisterT1Decoder(r, it), it, FALSE)
<1> DEFINE d == SubRegisterT1Decoder(r, it)
           i == d.instr
<1>1. /\ i.id = "kSubRegister"
      /\ i.fields \in [d : Registers, n : Registers, m : Registers, shift_res : Shifts]
      /\ "k32Bit" \notin i.flags /\ ("kSetFlags" \in i.flags => ~InITBlock(it)) /\ "kWBack" \notin i.flags
      /\ d.failed \subseteq {"decoder"}
  BY DEF WellCut, CutFields, Registers, Decoding, New, SubRegisterT1Decoder, SetFlagsOutside, When,
        ImmShift, Shifts
<1>2. d.status = "kSuccess" /\ d.failed = {} => i.fields.d # 15
  BY DEF WellCut, CutFields, Registers, Decoding, New, SubRegisterT1Decoder, When
<1> HIDE DEF d
<1>3. Shaped(i) /\ i.id \in DOMAIN Cases
  BY <1>1, PartsOfCases DEF Shaped, CasesAddSpPlusImmediateToSubRegister
<1>4. QED
  BY <1>1, <1>2, <1>3 DEF Sound, Formed, Valid, IndexedLoads, Loads, d

LEMMA AddRegisterT1DecoderSound ==
  ASSUME NEW r \in Raw, NEW it, WellCut(r) PROVE Sound(AddRegisterT1Decoder(r, it), it, FALSE)
<1> DEFINE d == AddRegisterT1Decoder(r, it)
           i == d.instr
<1>1. /\ i.id = "kAddRegister"
      /\ i.fields \in [d : Registers, n : Registers, m : Registers, shift_res : Shifts]
      /\ "k32Bit" \notin i.flags /\ ("kSetFlags" \in i.flags => ~InITBlock(it)) /\ "kWBack" \notin i.flags
      /\ d.failed \subseteq {"decoder"}
  BY DEF WellCut, CutFields, Registers, Decoding, New, AddRegisterT1Decoder, SetFlagsOutside, When,
        ImmShift, Shifts
<1> HIDE DEF d
<1>2. Shaped(i) /\ i.id \in DOMAIN Cases
  BY <1>1, PartsOfCases DEF Shaped, CasesRsbRegisterToBicImmediate
<1>3. QED
  BY <1>1, <1>2 DEF Sound, Formed, Valid, IndexedLoads, Loads, d

LEMMA AddRegisterT2DecoderSound ==
  ASSUME NEW r \in Raw, NEW it, WellCut(r) PROVE Sound(AddRegisterT2Decoder(r, it), it, FALSE)
<1> DEFINE d == AddRegisterT2Decoder(r, it)
           i == d.instr
<1>1. /\ i.id = "kAddRegister"
      /\ i.fields \in [d : Registers, n : Registers, m : Registers, shift_res : Shifts]
      /\ "k32Bit" \notin i.flags /\ "kSetFlags" \notin i.flags /\ "kWBack" \notin i.flags
      /\ d.failed \subseteq {"decoder"}
  BY DEF WellCut, CutFields, Registers, Decoding, New, AddRegisterT2Decoder, Unpredictable, Refuse,
        ImmShift, Shifts, When
<1> HIDE DEF d
<1>2. Shaped(i) /\ i.id \in DOMAIN Cases
  BY <1>1, PartsOfCases DEF Shaped, CasesRsbRegisterToBicImmediate
<1>3. QED
  BY <1>1, <1>2 DEF Sound, Formed, Valid, IndexedLoads, Loads, d

LEMMA AdcRegisterT1DecoderSound ==
  ASSUME NEW r \in Raw, NEW it, WellCut(r) PROVE Sound(AdcRegisterT1Decoder(r, it), it, FALSE)
<1> DEFINE d == AdcRegisterT1Decoder(r, it)
           i == d.instr
<1>1. /\ i.id = "kAdcRegister"
      /\ i.fields \in [d : Registers, n : Registers, m : Registers, shift_res : Shifts]
      /\ "k32Bit" \notin i.flags /\ ("kSetFlags" \in i.flags => ~InITBlock(it)) /\ "kWBack" \notin i.flags
      /\ d.failed \subseteq {"decoder"}
  BY DEF WellCut, CutFields, Registers, Decoding, New, AdcRegisterT1Decoder, SetFlagsOutside, When,
        ImmShift, Shifts
<1>2. d.status = "kSuccess" /\ d.failed = {} => i.fields.d # 15
  BY DEF WellCut, CutFields, Registers, Decoding, New, AdcRegisterT1Decoder, When
<1> HIDE DEF d
<1>3. Shaped(i) /\ i.id \in DOMAIN Cases
  BY <1>1, PartsOfCases DEF Shaped, CasesRsbRegisterToBicImmediate
<1>4. QED
  BY <1>1, <1>2, <1>3 DEF Sound, Formed, Valid, IndexedLoads, Loads, d

LEMMA PushT1DecoderSound ==
  ASSUME NEW r \in Raw, NEW it, WellCut(r) PROVE Sound(PushT1Decoder(r, it), it, FALSE)
<1> DEFINE d == PushT1Decoder(r, it)
           i == d.instr
<1>1. /\ i.id = "kPush"
      /\ i.fields \in [registers : Nat]
      /\ "k32Bit" \notin i.flags /\ "kSetFlags" \notin i.flags
      /\ d.failed \subseteq {"decoder"}
  BY DEF WellCut, CutFields, Registers, Decoding, New, PushT1Decoder, Unpredictable, Refuse, When
<1> HIDE DEF d
<1>2. Shaped(i) /\ i.id \in DOMAIN Cases
  BY <1>1, PartsOfCases DEF Shaped, CasesRsbRegisterToBicImmediate
<1>3. QED
  BY <1>1, <1>2 DEF Sound, Formed, Valid, IndexedLoads, Loads, d

LEMMA LdmT1DecoderSound ==
  ASSUME NEW r \in Raw, NEW it, WellCut(r) PROVE Sound(LdmT1Decoder(r, it), it, FALSE)
<1> DEFINE d == LdmT1Decoder(r, it)
           i == d.instr
<1>1. /\ i.id = "kLdm"
      /\ i.fields \in [n : Registers, registers : Nat]
      /\ "k32Bit" \notin i.flags /\ "kSetFlags" \notin i.flags
      /\ d.failed \subseteq {"decoder"}
  BY DEF WellCut, CutFields, Registers, Decoding, New, LdmT1Decoder, Unpredictable, Refuse, When
<1>2. d.status = "kSuccess" /\ d.failed = {} =>
        (MidITBlock(it) => Bit(i.fields.registers, 15) # 1) /\ i.fields.n # 15
  BY DEF WellCut, CutFields, Registers, Decoding, New, LdmT1Decoder, Unpredictable, Refuse, When
<1> HIDE DEF d
<1>3. Shaped(i) /\ i.id \in DOMAIN Cases
  BY <1>1, PartsOfCases DEF Shaped, CasesRsbRegisterToBicImmediate
<1>4. QED
  BY <1>1, <1>2, <1>3 DEF Sound, Formed, Valid, IndexedLoads, Loads, d

LEMMA StmT1DecoderSound ==
  ASSUME NEW r \in Raw, NEW it, WellCut(r) PROVE Sound(StmT1Decoder(r, it), it, FALSE)
<1> DEFINE d == StmT1Decoder(r, it)
           i == d.instr
<1>1. /\ i.id = "kStm"
      /\ i.fields \in [n : Registers, registers : Nat]
      /\ "k32Bit" \notin i.flags /\ "kSetFlags" \notin i.flags
      /\ d.failed \subseteq {"decoder"}
  BY DEF WellCut, CutFields, Registers, Decoding, New, StmT1Decoder, When
<1>2. d.status = "kSuccess" /\ d.failed = {} => ("kWBack" \in i.flags => i.fields.n # 15)
  BY DEF WellCut, CutFields, Registers, Decoding, New, StmT1Decoder, When
<1> HIDE DEF d
<1>3. Shaped(i) /\ i.id \in DOMAIN Cases
  BY <1>1, PartsOfCases DEF Shaped, CasesRsbRegisterToBicImmediate
<1>4. QED
  BY <1>1, <1>2, <1>3 DEF Sound, Formed, Valid, IndexedLoads, Loads, d

LEMMA SxthT1DecoderSound ==
  ASSUME NEW r \in Raw, NEW it, WellCut(r) PROVE Sound(SxthT1Decoder(r, it), it, FALSE)
<1> DEFINE d == SxthT1Decoder(r, it)
           i == d.instr
<1>1. /\ i.id = "kSxth"
      /\ i.fields \in [d : Registers, m : Registers, rotation : Nat]
      /\ "k32Bit" \notin i.flags /\ "kSetFlags" \notin i.flags
      /\ d.failed \subseteq {"decoder"}
  BY DEF WellCut, CutFields, Registers, Decoding, New, SxthT1Decoder, When
<1>2. d.status = "kSuccess" /\ d.failed = {} => i.fields.d # 15
  BY DEF WellCut, CutFields, Registers, Decoding, New, SxthT1Decoder, When
<1> HIDE DEF d
<1>3. Shaped(i) /\ i.id \in DOMAIN Cases
  BY <1>1, PartsOfCases DEF Shaped, CasesLslImmediateToSxth
<1>4. QED
  BY <1>1, <1>2, <1>3 DEF Sound, Formed, Valid, IndexedLoads, Loads, d

LEMMA UxtbT1DecoderSound ==
  ASSUME NEW r \in Raw, NEW it, WellCut(r) PROVE Sound(UxtbT1Decoder(r, it), it, FALSE)
<1> DEFINE d == UxtbT1Decoder(r, it)
           i == d.instr
<1>1. /\ i.id = "kUxtb"
      /\ i.fields \in [d : Registers, m : Registers, rotation : Nat]
      /\ "k32Bit" \notin i.flags /\ "kSetFlags" \notin i.flags
      /\ d.failed \subseteq {"decoder"}
  BY DEF WellCut, CutFields, Registers, Decoding, New, UxtbT1Decoder, When
<1>2. d.status = "kSuccess" /\ d.failed = {} => i.fields.d # 15
  BY DEF WellCut, CutFields, Registers, Decoding, New, UxtbT1Decoder, When
<1> HIDE DEF d
<1>3. Shaped(i) /\ i.id \in DOMAIN Cases
  BY <1>1, PartsOfCases DEF Shaped, CasesLslImmediateToSxth
<1>4. QED
  BY <1>1, <1>2, <1>3 DEF Sound, Formed, Valid, IndexedLoads, Loads, d

LEMMA SxtbT1DecoderSound ==
  ASSUME NEW r \in Raw, NEW it, WellCut(r) PROVE Sound(SxtbT1Decoder(r, it), it, FALSE)
<1> DEFINE d == SxtbT1Decoder(r, it)
           i == d.instr
<1>1. /\ i.id = "kSxtb"
      /\ i.fields \in [d : Registers, m : Registers, rotation : Nat]
      /\ "k32Bit" \notin i.flags /\ "kSetFlags" \notin i.flags
      /\ d.failed \subseteq {"decoder"}
  BY DEF WellCut, CutFields, Registers, Decoding, New, SxtbT1Decoder, When
<1>2. d.status = "kSuccess" /\ d.failed = {} => i.fields.d # 15
  BY DEF WellCut, CutFields, Registers, Decoding, New, SxtbT1Decoder, When
<1> HIDE DEF d
<1>3. Shaped(i) /\ i.id \in DOMAIN Cases
  BY <1>1, PartsOfCases DEF Shaped, CasesLslImmediateToSxth
<1>4. QED
  BY <1>1, <1>2, <1>3 DEF Sound, Formed, Valid, IndexedLoads, Loads, d

LEMMA UxthT1DecoderSound ==
  ASSUME NEW r \in Raw, NEW it, WellCut(r) PROVE Sound(UxthT1Decoder(r, it), it, FALSE)
<1> DEFINE d == UxthT1Decoder(r, it)
           i == d.instr
<1>1. /\ i.id = "kUxth"
      /\ i.fields \in [d : Registers, m : Registers, rotation : Nat]
      /\ "k32Bit" \notin i.flags /\ "kSetFlags" \notin i.flags
      /\ d.failed \subseteq {"decoder"}
  BY DEF WellCut, CutFields, Registers, Decoding, New, UxthT1Decoder, When
<1>2. d.status = "kSuccess" /\ d.failed = {} => i.fields.d # 15
  BY DEF WellCut, CutFields, Registers, Decoding, New, UxthT1Decoder, When
<1> HIDE DEF d
<1>3. Shaped(i) /\ i.id \in DOMAIN Cases
  BY <1>1, PartsOfCases DEF Shaped, CasesUxthToAddPcPlusImmediate
<1>4. QED
  BY <1>1, <1>2, <1>3 DEF Sound, Formed, Valid, IndexedLoads, Loads, d

LEMMA EorRegisterT1DecoderSound ==
  ASSUME NEW r \in Raw, NEW it, WellCut(r) PROVE Sound(EorRegisterT1Decoder(r, it), it, FALSE)
<1> DEFINE d == EorRegisterT1Decoder(r, it)
           i == d.instr
<1>1. /\ i.id = "kEorRegister"
      /\ i.fields \in [d : Registers, n : Registers, m : Registers, shift_res : Shifts]
      /\ "k32Bit" \notin i.flags /\ ("kSetFlags" \in i.flags => ~InITBlock(it)) /\ "kWBack" \notin i.flags
      /\ d.failed \subseteq {"decoder"}
  BY DEF WellCut, CutFields, Registers, Decoding, New, EorRegisterT1Decoder, SetFlagsOutside, When,
        ImmShift, Shifts
<1>2. d.status = "kSuccess" /\ d.failed = {} => i.fields.d # 15
  BY DEF WellCut, CutFields, Registers, Decoding, New, EorRegisterT1Decoder, When
<1> HIDE DEF d
<1>3. Shaped(i) /\ i.id \in DOMAIN Cases
  BY <1>1, PartsOfCases DEF Shaped, CasesRsbRegisterToBicImmediate
<1>4. QED
  BY <1>1, <1>2, <1>3 DEF Sound, Formed, Valid, IndexedLoads, Loads, d

LEMMA OrrRegisterT1DecoderSound ==
  ASSUME NEW r \in Raw, NEW it, WellCut(r) PROVE Sound(OrrRegisterT1Decoder(r, it), it, FALSE)
<1> DEFINE d == OrrRegisterT1Decoder(r, it)
           i == d.instr
<1>1. /\ i.id = "kOrrRegister"
      /\ i.fields \in [d : Registers, n : Registers, m : Registers, shift_res : Shifts]
      /\ "k32Bit" \notin i.flags /\ ("kSetFlags" \in i.flags => ~InITBlock(it)) /\ "kWBack" \notin i.flags
      /\ d.failed \subseteq {"decoder"}
  BY DEF WellCut, CutFields, Registers, Decoding, New, OrrRegisterT1Decoder, SetFlagsOutside, When,
        ImmShift, Shifts
<1>2. d.status = "kSuccess" /\ d.failed = {} => i.fields.d # 15
  BY DEF WellCut, CutFields, Registers, Decoding, New, OrrRegisterT1Decoder, When
<1> HIDE DEF d
<1>3. Shaped(i) /\ i.id \in DOMAIN Cases
  BY <1>1, PartsOfCases DEF Shaped, CasesRsbRegisterToBicImmediate
<1>4. QED
  BY <1>1, <1>2, <1>3 DEF Sound, Formed, Valid, IndexedLoads, Loads, d

LEMMA AndRegisterT1DecoderSound ==
  ASSUME NEW r \in Raw, NEW it, WellCut(r) PROVE Sound(AndRegisterT1Decoder(r, it), it, FALSE)
<1> DEFINE d == AndRegisterT1Decoder(r, it)
           i == d.instr
<1>1. /\ i.id = "kAndRegister"
      /\ i.fields \in [d : Registers, n : Registers, m : Registers, shift_res : Shifts]
      /\ "k32Bit" \notin i.flags /\ ("kSetFlags" \in i.flags => ~InITBlock(it)) /\ "kWBack" \notin i.flags
      /\ d.failed \subseteq {"decoder"}
  BY DEF WellCut, CutFields, Registers, Decoding, New, AndRegisterT1Decoder, SetFlagsOutside, When,
        ImmShift, Shifts
<1>2. d.status = "kSuccess" /\ d.failed = {} => i.fields.d # 15
  BY DEF WellCut, CutFields, Registers, Decoding, New, AndRegisterT1Decoder, When
<1> HIDE DEF d
<1>3. Shaped(i) /\ i.id \in DOMAIN Cases
  BY <1>1, PartsOfCases DEF Shaped, CasesRsbRegisterToBicImmediate
<1>4. QED
  BY <1>1, <1>2, <1>3 DEF Sound, Formed, Valid, IndexedLoads, Loads, d

LEMMA BicRegisterT1DecoderSound ==
  ASSUME NEW r \in Raw, NEW it, WellCut(r) PROVE Sound(BicRegisterT1Decoder(r, it), it, FALSE)
<1> DEFINE d == BicRegisterT1Decoder(r, it)
           i == d.instr
<1>1. /\ i.id = "kBicRegister"
      /\ i.fields \in [d : Registers, n : Registers, m : Registers, shift_res : Shifts]
      /\ "k32Bit" \notin i.flags /\ ("kSetFlags" \in i.flags => ~InITBlock(it)) /\ "kWBack" \notin i.flags
      /\ d.failed \subseteq {"decoder"}
  BY DEF WellCut, CutFields, Registers, Decoding, New, BicRegisterT1Decoder, SetFlagsOutside, When,
        ImmShift, Shifts
<1>2. d.status = "kSuccess" /\ d.failed = {} => i.fields.d # 15
  BY DEF WellCut, CutFields, Registers, Decoding, New, BicRegisterT1Decoder, When
<1> HIDE DEF d
<1>3. Shaped(i) /\ i.id \in DOMAIN Cases
  BY <1>1, PartsOfCases DEF Shaped, CasesRsbRegisterToBicImmediate
<1>4. QED
  BY <1>1, <1>2, <1>3 DEF Sound, Formed, Valid, IndexedLoads, Loads, d

LEMMA LsrRegisterT1DecoderSound ==
  ASSUME NEW r \in Raw, NEW it, WellCut(r) PROVE Sound(LsrRegisterT1Decoder(r, it), it, FALSE)
<1> DEFINE d == LsrRegisterT1Decoder(r, it)
           i == d.instr
<1>1. /\ i.id = "kLsrRegister"
      /\ i.fields \in [d : Registers, n : Registers, m : Registers]
      /\ "k32Bit" \notin i.flags /\ ("kSetFlags" \in i.flags => ~InITBlock(it)) /\ "kWBack" \notin i.flags
      /\ d.failed \subseteq {"decoder"}
  BY DEF WellCut, CutFields, Registers, Decoding, New, LsrRegisterT1Decoder, SetFlagsOutside, When
<1>2. d.status = "kSuccess" /\ d.failed = {} => i.fields.d # 15
  BY DEF WellCut, CutFields, Registers, Decoding, New, LsrRegisterT1Decoder, When
<1> HIDE DEF d
<1>3. Shaped(i) /\ i.id \in DOMAIN Cases
  BY <1>1, PartsOfCases DEF Shaped, CasesLslImmediateToSxth
<1>4. QED
  BY <1>1, <1>2, <1>3 DEF Sound, Formed, Valid, IndexedLoads, Loads, d

LEMMA AsrRegisterT1DecoderSound ==
  ASSUME NEW r \in Raw, NEW it, WellCut(r) PROVE Sound(AsrRegisterT1Decoder(r, it), it, FALSE)
<1> DEFINE d == AsrRegisterT1Decoder(r, it)
           i == d.instr
<1>1. /\ i.id = "kAsrRegister"
      /\ i.fields \in [d : Registers, n : Registers, m : Registers]
      /\ "k32Bit" \notin i.flags /\ ("kSetFlags" \in i.flags => ~InITBlock(it)) /\ "kWBack" \notin i.flags
      /\ d.failed \subseteq {"decoder"}
  BY DEF WellCut, CutFields, Registers, Decoding, New, AsrRegisterT1Decoder, SetFlagsOutside, When
<1>2. d.status = "kSuccess" /\ d.failed = {} => i.fields.d # 15
  BY DEF WellCut, CutFields, Registers, Decoding, New, AsrRegisterT1Decoder, When
<1> HIDE DEF d
<1>3. Shaped(i) /\ i.id \in DOMAIN Cases
  BY <1>1, PartsOfCases DEF Shaped, CasesLslImmediateToSxth
<1>4. QED
  BY <1>1, <1>2, <1>3 DEF Sound, Formed, Valid, IndexedLoads, Loads, d

LEMMA LsrImmediateT1DecoderSound ==
  ASSUME NEW r \in Raw, NEW it, WellCut(r) PROVE Sound(LsrImmediateT1Decoder(r, it), it, FALSE)
<1> DEFINE d == LsrImmediateT1Decoder(r, it)
           i == d.instr
<1>1. /\ i.id = "kLsrImmediate"
      /\ i.fields \in [d : Registers, m : Registers, shift_res : Shifts]
      /\ "k32Bit" \notin i.flags /\ ("kSetFlags" \in i.flags => ~InITBlock(it))
      /\ d.failed \subseteq {"decoder"}
  BY DEF WellCut, CutFields, Registers, Decoding, New, LsrImmediateT1Decoder, SetFlagsOutside, When
<1>2. d.status = "kSuccess" /\ d.failed = {} => i.fields.d # 15
  BY DEF WellCut, CutFields, Registers, Decoding, New, LsrImmediateT1Decoder, When
<1> HIDE DEF d
<1>3. Shaped(i) /\ i.id \in DOMAIN Cases
  BY <1>1, PartsOfCases DEF Shaped, CasesMvnRegisterToDmb
<1>4. QED
  BY <1>1, <1>2, <1>3 DEF Sound, Formed, Valid, IndexedLoads, Loads, d

LEMMA StrRegisterT1DecoderSound ==
  ASSUME NEW r \in Raw, NEW it, WellCut(r) PROVE Sound(StrRegisterT1Decoder(r, it), it, FALSE)
<1> DEFINE d == StrRegisterT1Decoder(r, it)
           i == d.instr
<1>1. /\ i.id = "kStrRegister"
      /\ i.fields \in [t : Registers, n : Registers, m : Registers, shift_res : Shifts]
      /\ "k32Bit" \notin i.flags /\ "kSetFlags" \notin i.flags /\ "kWBack" \notin i.flags /\ "kAdd" \in i.flags
      /\ d.failed \subseteq {"decoder"}
  BY DEF WellCut, CutFields, Registers, Decoding, New, StrRegisterT1Decoder, ImmShift, Shifts, When
<1> HIDE DEF d
<1>2. Shaped(i) /\ i.id \in DOMAIN Cases
  BY <1>1, PartsOfCases DEF Shaped, CasesMvnRegisterToDmb
<1>3. QED
  BY <1>1, <1>2 DEF Sound, Formed, Valid, IndexedLoads, Loads, d

LEMMA StrbRegisterT1DecoderSound ==
  ASSUME NEW r \in Raw, NEW it, WellCut(r) PROVE Sound(StrbRegisterT1Decoder(r, it), it, FALSE)
<1> DEFINE d == StrbRegisterT1Decoder(r, it)
           i == d.instr
<1>1. /\ i.id = "kStrbRegister"
      /\ i.fields \in [t : Registers, n : Registers, m : Registers, shift_res : Shifts]
      /\ "k32Bit" \notin i.flags /\ "kSetFlags" \notin i.flags /\ "kWBack" \notin i.flags /\ "kAdd" \in i.flags
      /\ d.failed \subseteq {"decoder"}
  BY DEF WellCut, CutFields, Registers, Decoding, New, StrbRegisterT1Decoder, ImmShift, Shifts, When
<1> HIDE DEF d
<1>2. Shaped(i) /\ i.id \in DOMAIN Cases
  BY <1>1, PartsOfCases DEF Shaped, CasesMvnRegisterToDmb
<1>3. QED
  BY <1>1, <1>2 DEF Sound, Formed, Valid, IndexedLoads, Loads, d

LEMMA LdrbRegisterT1DecoderSound ==
  ASSUME NEW r \in Raw, NEW it, WellCut(r) PROVE Sound(LdrbRegisterT1Decoder(r, it), it, FALSE)
<1> DEFINE d == LdrbRegisterT1Decoder(r, it)
           i == d.instr
<1>1. /\ i.id = "kLdrbRegister"
      /\ i.fields \in [t : Registers, n : Registers, m : Registers, shift_res : Shifts]
      /\ "k32Bit" \notin i.flags /\ "kSetFlags" \notin i.flags /\ "kWBack" \notin i.flags
      /\ d.failed \subseteq {"decoder"}
  BY DEF WellCut, CutFields, Registers, Decoding, New, LdrbRegisterT1Decoder, ImmShift, Shifts, When
<1>2. d.status = "kSuccess" /\ d.failed = {} => (MidITBlock(it) => i.fields.t # 15)
  BY DEF WellCut, CutFields, Registers, Decoding, New, LdrbRegisterT1Decoder, When
<1> HIDE DEF d
<1>3. Shaped(i) /\ i.id \in DOMAIN Cases
  BY <1>1, PartsOfCases DEF Shaped, CasesMvnRegisterToDmb
<1>4. QED
  BY <1>1, <1>2, <1>3 DEF Sound, Formed, Valid, IndexedLoads, Loads, d

LEMMA LdrRegisterT1DecoderSound ==
  ASSUME NEW r \in Raw, NEW it, WellCut(r) PROVE Sound(LdrRegisterT1Decoder(r, it), it, FALSE)
<1> DEFINE d == LdrRegisterT1Decoder(r, it)
           i == d.instr
<1>1. /\ i.id = "kLdrRegister"
      /\ i.fields \in [t : Registers, n : Registers, m : Registers, shift_res : Shifts]
      /\ "k32Bit" \notin i.flags /\ "kSetFlags" \notin i.flags /\ "kWBack" \notin i.flags
      /\ d.failed \subseteq {"decoder"}
  BY DEF WellCut, CutFields, Registers, Decoding, New, LdrRegisterT1Decoder, ImmShift, Shifts, When
<1>2. d.status = "kSuccess" /\ d.failed = {} => (MidITBlock(it) => i.fields.t # 15)
  BY DEF WellCut, CutFields, Registers, Decoding, New, LdrRegisterT1Decoder, When
<1> HIDE DEF d
<1>3. Shaped(i) /\ i.id \in DOMAIN Cases
  BY <1>1, PartsOfCases DEF Shaped, CasesMvnRegisterToDmb
<1>4. QED
  BY <1>1, <1>2, <1>3 DEF Sound, Formed, Valid, IndexedLoads, Loads, d

LEMMA StrhImmediateT1DecoderSound ==
  ASSUME NEW r \in Raw, NEW it, WellCut(r) PROVE Sound(StrhImmediateT1Decoder(r, it), it, FALSE)
<1> DEFINE d == StrhImmediateT1Decoder(r, it)
           i == d.instr
<1>1. /\ i.id = "kStrhImmediate"
      /\ i.fields \in [t : Registers, n : Registers, imm32 : Int]
      /\ "k32Bit" \notin i.flags /\ "kSetFlags" \notin i.flags /\ "kWBack" \notin i.flags
      /\ d.failed \subseteq {"decoder"}
  BY DEF WellCut, CutFields, Registers, Decoding, New, StrhImmediateT1Decoder, When
<1> HIDE DEF d
<1>2. Shaped(i) /\ i.id \in DOMAIN Cases
  BY <1>1, PartsOfCases DEF Shaped, CasesMvnRegisterToDmb
<1>3. QED
  BY <1>1, <1>2 DEF Sound, Formed, Valid, IndexedLoads, Loads, d

LEMMA StrbImmediateT1DecoderSound ==
  ASSUME NEW r \in Raw, NEW it, WellCut(r) PROVE Sound(StrbImmediateT1Decoder(r, it), it, FALSE)
<1> DEFINE d == StrbImmediateT1Decoder(r, it)
           i == d.instr
<1>1. /\ i.id = "kStrbImmediate"
      /\ i.fields \in [t : Registers, n : Registers, imm32 : Int]
      /\ "k32Bit" \notin i.flags /\ "kSetFlags" \notin i.flags /\ "kWBack" \notin i.flags
      /\ d.failed \subseteq {"decoder"}
  BY DEF WellCut, CutFields, Registers, Decoding, New, StrbImmediateT1Decoder, When
<1> HIDE DEF d
<1>2. Shaped(i) /\ i.id \in DOMAIN Cases
  BY <1>1, PartsOfCases DEF Shaped, CasesMvnRegisterToDmb
<1>3. QED
  BY <1>1, <1>2 DEF Sound, Formed, Valid, IndexedLoads, Loads, d

LEMMA StrImmediateT1DecoderSound ==
  ASSUME NEW r \in Raw, NEW it, WellCut(r) PROVE Sound(StrImmediateT1Decoder(r, it), it, FALSE)
<1> DEFINE d == StrImmediateT1Decoder(r, it)
           i == d.instr
<1>1. /\ i.id = "kStrImmediate"
      /\ i.fields \in [t : Registers, n : Registers, imm32 : Int]
      /\ "k32Bit" \notin i.flags /\ "kSetFlags" \notin i.flags /\ "kWBack" \notin i.flags
      /\ d.failed \subseteq {"decoder"}
  BY DEF WellCut, CutFields, Registers, Decoding, New, StrImmediateT1Decoder, When
<1> HIDE DEF d
<1>2. Shaped(i) /\ i.id \in DOMAIN Cases
  BY <1>1, PartsOfCases DEF Shaped, CasesMvnRegisterToDmb
<1>3. QED
  BY <1>1, <1>2 DEF Sound, Formed, Valid, IndexedLoads, Loads, d

LEMMA StrImmediateT2DecoderSound ==
  ASSUME NEW r \in Raw, NEW it, WellCut(r) PROVE Sound(StrImmediateT2Decoder(r, it), it, FALSE)
<1> DEFINE d == StrImmediateT2Decoder(r, it)
           i == d.instr
<1>1. /\ i.id = "kStrImmediate"
      /\ i.fields \in [t : Registers, n : Registers, imm32 : Int]
      /\ "k32Bit" \notin i.flags /\ "kSetFlags" \notin i.flags /\ "kWBack" \notin i.flags
      /\ d.failed \subseteq {"decoder"}
  BY DEF WellCut, CutFields, Registers, Decoding, New, StrImmediateT2Decoder, When
<1> HIDE DEF d
<1>2. Shaped(i) /\ i.id \in DOMAIN Cases
  BY <1>1, PartsOfCases DEF Shaped, CasesMvnRegisterToDmb
<1>3. QED
  BY <1>1, <1>2 DEF Sound, Formed, Valid, IndexedLoads, Loads, d

LEMMA CbNZT1DecoderSound ==
  ASSUME NEW r \in Raw, NEW it, WellCut(r) PROVE Sound(CbNZT1Decoder(r, it), it, FALSE)
<1> DEFINE d == CbNZT1Decoder(r, it)
           i == d.instr
<1>1. /\ i.id = "kCbNZ"
      /\ i.fields \in [n : Registers, imm32 : Int]
      /\ "k32Bit" \notin i.flags /\ "kSetFlags" \notin i.flags /\ "kWBack" \notin i.flags
      /\ d.failed \subseteq {"decoder"}
  BY DEF WellCut, CutFields, Registers, Decoding, New, CbNZT1Decoder, Unpredictable, Refuse, When
<1>2. d.status = "kSuccess" => ~InITBlock(it)
  BY DEF Decoding, New, CbNZT1Decoder, Unpredictable, Refuse, When
<1> HIDE DEF d
<1>3. Shaped(i) /\ i.id \in DOMAIN Cases
  BY <1>1, PartsOfCases DEF Shaped, CasesUxthToAddPcPlusImmediate
<1>4. QED
  BY <1>1, <1>2, <1>3 DEF Sound, Formed, Valid, IndexedLoads, Loads, d

LEMMA SvcT1DecoderSound ==
  ASSUME NEW r \in Raw, NEW it, WellCut(r) PROVE Sound(SvcT1Decoder(r, it), it, FALSE)
<1> DEFINE d == SvcT1Decoder(r, it)
           i == d.instr
<1>1. /\ i.id = "kSvc"
      /\ i.fields \in [imm32 : Int]
      /\ "k32Bit" \notin i.flags /\ "kSetFlags" \notin i.flags
      /\ d.failed \subseteq {"decoder"}
  BY DEF WellCut, CutFields, Registers, Decoding, New, SvcT1Decoder, When
<1> HIDE DEF d
<1>2. Shaped(i) /\ i.id \in DOMAIN Cases
  BY <1>1, PartsOfCases DEF Shaped, CasesMvnRegisterToDmb
<1>3. QED
  BY <1>1, <1>2 DEF Sound, Formed, Valid, IndexedLoads, Loads, d

LEMMA BkptT1DecoderSound ==
  ASSUME NEW r \in Raw, NEW it, WellCut(r) PROVE Sound(BkptT1Decoder(r, it), it, FALSE)
<1> DEFINE d == BkptT1Decoder(r, it)
           i == d.instr
<1>1. /\ i.id = "kBkpt"
      /\ i.fields \in [imm32 : Int]
      /\ "k32Bit" \notin i.flags /\ "kSetFlags" \notin i.flags
      /\ d.failed \subseteq {"decoder"}
  BY DEF WellCut, CutFields, Registers, Decoding, New, BkptT1Decoder, When
<1> HIDE DEF d
<1>2. Shaped(i) /\ i.id \in DOMAIN Cases
  BY <1>1, PartsOfCases DEF Shaped, CasesMvnRegisterToDmb
<1>3. QED
  BY <1>1, <1>2 DEF Sound, Formed, Valid, IndexedLoads, Loads, d

LEMMA DmbT1DecoderSound ==
  ASSUME NEW r \in Raw, NEW it, WellCut(r) PROVE Sound(DmbT1Decoder(r, it), it, TRUE)
<1> DEFINE d == DmbT1Decoder(r, it)
           i == d.instr
<1>1. /\ i.id = "kDmb"
      /\ DOMAIN i.fields = {}
      /\ "k32Bit" \in i.flags
      /\ d.failed \subseteq {"decoder"}
  BY DEF WellCut, Registers, Decoding, New, DmbT1Decoder, NoFields, When
<1> HIDE DEF d
<1>2. Shaped(i) /\ i.id \in DOMAIN Cases
  BY <1>1, PartsOfCases DEF Shaped, CasesMvnRegisterToDmb
<1>3. QED
  BY <1>1, <1>2 DEF Sound, Formed, Valid, IndexedLoads, Loads, d

LEMMA LslImmediateT2DecoderSound ==
  ASSUME NEW r \in Raw, NEW it, WellCut(r) PROVE Sound(LslImmediateT2Decoder(r, it), it, TRUE)
<1> DEFINE d == LslImmediateT2Decoder(r, it)
           i == d.instr
<1>1. /\ i.id = "kLslImmediate"
      /\ i.fields \in [d : Registers, m : Registers, shift_res : Shifts]
      /\ "k32Bit" \in i.flags
      /\ d.failed \subseteq {"decoder"}
  BY DEF WellCut, CutFields, Registers, Decoding, New, LslImmediateT2Decoder, Unpredictable, Refuse,
        SetFlagsIfS, When
<1>2. d.status = "kSuccess" /\ d.failed = {} => i.fields.d # 15
  <2>1. AnySpOrPc({Rd(r), Rm(r)}) <=> Rd(r) \in {13, 15} \/ Rm(r) \in {13, 15}
    BY DEF AnySpOrPc
  <2>2. QED
    BY <2>1 DEF Decoding, New, LslImmediateT2Decoder, Unpredictable, Refuse, When
<1> HIDE DEF d
<1>3. Shaped(i) /\ i.id \in DOMAIN Cases
  BY <1>1, PartsOfCases DEF Shaped, CasesLslImmediateToSxth
<1>4. QED
  BY <1>1, <1>2, <1>3 DEF Sound, Formed, Valid, IndexedLoads, Loads, d

LEMMA LslRegisterT2DecoderSound ==
  ASSUME NEW r \in Raw, NEW it, WellCut(r) PROVE Sound(LslRegisterT2Decoder(r, it), it, TRUE)
<1> DEFINE d == LslRegisterT2Decoder(r, it)
           i == d.instr
<1>1. /\ i.id = "kLslRegister"
      /\ i.fields \in [d : Registers, n : Registers, m : Registers]
      /\ "k32Bit" \in i.flags /\ "kWBack" \notin i.flags
      /\ d.failed \subseteq {"decoder"}
  BY DEF WellCut, CutFields, Registers, Decoding, New, LslRegisterT2Decoder, Unpredictable, Refuse,
        SetFlagsIfS, When
<1>2. d.status = "kSuccess" /\ d.failed = {} => i.fields.d # 15
  <2>1. AnySpOrPc({Rd(r), Rn(r), Rm(r)}) <=> 
          Rd(r) \in {13, 15} \/ Rn(r) \in {13, 15} \/ Rm(r) \in {13, 15}
    BY DEF AnySpOrPc
  <2>2. QED
    BY <2>1 DEF Decoding, New, LslRegisterT2Decoder, Unpredictable, Refuse, When
<1> HIDE DEF d
<1>3. Shaped(i) /\ i.id \in DOMAIN Cases
  BY <1>1, PartsOfCases DEF Shaped, CasesLslImmediateToSxth
<1>4. QED
  BY <1>1, <1>2, <1>3 DEF Sound, Formed, Valid, IndexedLoads, Loads, d

LEMMA ClzT1DecoderSound ==
  ASSUME NEW r \in Raw, NEW it, WellCut(r) PROVE Sound(ClzT1Decoder(r, it), it, TRUE)
<1> DEFINE d == ClzT1Decoder(r, it)
           i == d.instr
<1>1. /\ i.id = "kClz"
      /\ i.fields \in [d : Registers, m : Registers]
      /\ "k32Bit" \in i.flags
      /\ d.failed \subseteq {"decoder"}
  BY DEF WellCut, CutFields, Registers, Decoding, New, ClzT1Decoder, Unpredictable, Refuse, When
<1>2. d.status = "kSuccess" /\ d.failed = {} => i.fields.d # 15
  <2>1. AnySpOrPc({Rd(r), Rn(r)}) <=> Rd(r) \in {13, 15} \/ Rn(r) \in {13, 15}
    BY DEF AnySpOrPc
  <2>2. QED
    BY <2>1 DEF Decoding, New, ClzT1Decoder, Unpredictable, Refuse, When
<1> HIDE DEF d
<1>3. Shaped(i) /\ i.id \in DOMAIN Cases
  BY <1>1, PartsOfCases DEF Shaped, CasesLdrLiteralToAsrImmediate
<1>4. QED
  BY <1>1, <1>2, <1>3 DEF Sound, Formed, Valid, IndexedLoads, Loads, d

LEMMA CmpRegisterT3DecoderSound ==
  ASSUME NEW r \in Raw, NEW it, WellCut(r) PROVE Sound(CmpRegisterT3Decoder(r, it), it, TRUE)
<1> DEFINE d == CmpRegisterT3Decoder(r, it)
           i == d.instr
<1>1. /\ i.id = "kCmpRegister"
      /\ i.fields \in [n : Registers, m : Registers, shift_res : Shifts]
      /\ "k32Bit" \in i.flags /\ "kWBack" \notin i.flags
      /\ d.failed \subseteq {"decoder"}
  BY DEF WellCut, CutFields, Registers, Decoding, New, CmpRegisterT3Decoder, Unpredictable, Refuse, When
<1> HIDE DEF d
<1>2. Shaped(i) /\ i.id \in DOMAIN Cases
  BY <1>1, PartsOfCases DEF Shaped, CasesLslImmediateToSxth
<1>3. QED
  BY <1>1, <1>2 DEF Sound, Formed, Valid, IndexedLoads, Loads, d

LEMMA CmpImmediateT2DecoderSound ==
  ASSUME NEW r \in Raw, NEW it, WellCut(r) PROVE Sound(CmpImmediateT2Decoder(r, it), it, TRUE)
<1> DEFINE d == CmpImmediateT2Decoder(r, it)
           i == d.instr
<1>1. /\ i.id = "kCmpImmediate"
      /\ i.fields \in [n : Registers, imm32 : Int]
      /\ "k32Bit" \in i.flags /\ "kWBack" \notin i.flags
      /\ d.failed \subseteq {"decoder"}
  BY DEF WellCut, CutFields, Registers, Decoding, New, CmpImmediateT2Decoder, Unpredictable, Refuse,
        Expandable, When
<1> HIDE DEF d
<1>2. Shaped(i) /\ i.id \in DOMAIN Cases
  BY <1>1, PartsOfCases DEF Shaped, CasesLslImmediateToSxth
<1>3. QED
  BY <1>1, <1>2 DEF Sound, Formed, Valid, IndexedLoads, Loads, d

LEMMA CmnImmediateT1DecoderSound ==
  ASSUME NEW r \in Raw, NEW it, WellCut(r) PROVE Sound(CmnImmediateT1Decoder(r, it), it, TRUE)
<1> DEFINE d == CmnImmediateT1Decoder(r, it)
           i == d.instr
<1>1. /\ i.id = "kCmnImmediate"
      /\ i.fields \in [n : Registers, imm32 : Int]
      /\ "k32Bit" \in i.flags /\ "kWBack" \notin i.flags
      /\ d.failed \subseteq {"decoder"}
  BY DEF WellCut, CutFields, Registers, Decoding, New, CmnImmediateT1Decoder, Unpredictable, Refuse,
        Expandable, When
<1> HIDE DEF d
<1>2. Shaped(i) /\ i.id \in DOMAIN Cases
  BY <1>1, PartsOfCases DEF Shaped, CasesLslImmediateToSxth
<1>3. QED
  BY <1>1, <1>2 DEF Sound, Formed, Valid, IndexedLoads, Loads, d

LEMMA MovImmediateT2DecoderSound ==
  ASSUME NEW r \in Raw, NEW it, WellCut(r) PROVE Sound(MovImmediateT2Decoder(r, it), it, TRUE)
<1> DEFINE d == MovImmediateT2Decoder(r, it)
           i == d.instr
<1>1. /\ i.id = "kMovImmediate"
      /\ i.fields \in [d : Registers, imm32_carry : Carries]
      /\ "k32Bit" \in i.flags
      /\ d.failed \subseteq {"decoder"}
  BY DEF WellCut, CutFields, Registers, Decoding, New, MovImmediateT2Decoder, Unpredictable, Refuse,
        Expandable, SetFlagsIfS, When
<1>2. d.status = "kSuccess" /\ d.failed = {} => i.fields.d # 15
  BY DEF Decoding, New, MovImmediateT2Decoder, Unpredictable, Refuse, Expandable, When
<1> HIDE DEF d
<1>3. Shaped(i) /\ i.id \in DOMAIN Cases
  BY <1>1, PartsOfCases DEF Shaped, CasesLslImmediateToSxth
<1>4. QED
  BY <1>1, <1>2, <1>3 DEF Sound, Formed, Valid, IndexedLoads, Loads, d

LEMMA MovImmediateT3DecoderSound ==
  ASSUME NEW r \in Raw, NEW it, WellCut(r) PROVE Sound(MovImmediateT3Decoder(r, it), it, TRUE)
<1> DEFINE d == MovImmediateT3Decoder(r, it)
           i == d.instr
<1>1. /\ i.id = "kMovImmediate"
      /\ i.fields \in [d : Registers, imm32_carry : Carries]
      /\ "k32Bit" \in i.flags
      /\ d.failed \subseteq {"decoder"}
  BY DEF WellCut, CutFields, Registers, Decoding, New, MovImmediateT3Decoder, Unpredictable, Refuse,
        ImmCarry, Carries, When
<1>2. d.status = "kSuccess" /\ d.failed = {} => i.fields.d # 15
  BY DEF Decoding, New, MovImmediateT3Decoder, Unpredictable, Refuse, When
<1> HIDE DEF d
<1>3. Shaped(i) /\ i.id \in DOMAIN Cases
  BY <1>1, PartsOfCases DEF Shaped, CasesLslImmediateToSxth
<1>4. QED
  BY <1>1, <1>2, <1>3 DEF Sound, Formed, Valid, IndexedLoads, Loads, d

LEMMA MvnImmediateT1DecoderSound ==
  ASSUME NEW r \in Raw, NEW it, WellCut(r) PROVE Sound(MvnImmediateT1Decoder(r, it), it, TRUE)
<1> DEFINE d == MvnImmediateT1Decoder(r, it)
           i == d.instr
<1>1. /\ i.id = "kMvnImmediate"
      /\ i.fields \in [d : Registers, imm32_carry : Carries]
      /\ "k32Bit" \in i.flags
      /\ d.failed \subseteq {"decoder"}
  BY DEF WellCut, CutFields, Registers, Decoding, New, MvnImmediateT1Decoder, Unpredictable, Refuse,
        Expandable, SetFlagsIfS, When
<1>2. d.status = "kSuccess" /\ d.failed = {} => i.fields.d # 15
  BY DEF Decoding, New, MvnImmediateT1Decoder, Unpredictable, Refuse, Expandable, When
<1> HIDE DEF d
<1>3. Shaped(i) /\ i.id \in DOMAIN Cases
  BY <1>1, PartsOfCases DEF Shaped, CasesLslImmediateToSxth
<1>4. QED
  BY <1>1, <1>2, <1>3 DEF Sound, Formed, Valid, IndexedLoads, Loads, d

LEMMA TbbHT1DecoderSound ==
  ASSUME NEW r \in Raw, NEW it, WellCut(r) PROVE Sound(TbbHT1Decoder(r, it), it, TRUE)
<1> DEFINE d == TbbHT1Decoder(r, it)
           i == d.instr
<1>1. /\ i.id = "kTbbH"
      /\ i.fields \in [n : Registers, m : Registers]
      /\ "k32Bit" \in i.flags /\ "kWBack" \notin i.flags
      /\ d.failed \subseteq {"decoder"}
  BY DEF WellCut, CutFields, Registers, Decoding, New, TbbHT1Decoder, Unpredictable, Refuse, When
<1>2. d.status = "kSuccess" /\ d.failed = {} => ~MidITBlock(it)
  BY DEF Decoding, New, TbbHT1Decoder, Unpredictable, Refuse, When
<1> HIDE DEF d
<1>3. Shaped(i) /\ i.id \in DOMAIN Cases
  BY <1>1, PartsOfCases DEF Shaped, CasesUxthToAddPcPlusImmediate
<1>4. QED
  BY <1>1, <1>2, <1>3 DEF Sound, Formed, Valid, IndexedLoads, Loads, d

LEMMA RsbImmediateT2DecoderSound ==
  ASSUME NEW r \in Raw, NEW it, WellCut(r) PROVE Sound(RsbImmediateT2Decoder(r, it), it, TRUE)
<1> DEFINE d == RsbImmediateT2Decoder(r, it)
           i == d.instr
<1>1. /\ i.id = "kRsbImmediate"
      /\ i.fields \in [d : Registers, n : Registers, imm32 : Int]
      /\ "k32Bit" \in i.flags /\ "kWBack" \notin i.flags
      /\ d.failed \subseteq {"decoder"}
  BY DEF WellCut, CutFields, Registers, Decoding, New, RsbImmediateT2Decoder, Unpredictable, Refuse,
        Expandable, SetFlagsIfS, When
<1>2. d.status = "kSuccess" /\ d.failed = {} => i.fields.d # 15
  <2>1. AnySpOrPc({Rd(r), Rn(r)}) <=> Rd(r) \in {13, 15} \/ Rn(r) \in {13, 15}
    BY DEF AnySpOrPc
  <2>2. QED
    BY <2>1 DEF Decoding, New, RsbImmediateT2Decoder, Unpredictable, Refuse, Expandable, When
<1> HIDE DEF d
<1>3. Shaped(i) /\ i.id \in DOMAIN Cases
  BY <1>1, PartsOfCases DEF Shaped, CasesUxthToAddPcPlusImmediate
<1>4. QED
  BY <1>1, <1>2, <1>3 DEF Sound, Formed, Valid, IndexedLoads, Loads, d

LEMMA MovRegisterT3DecoderSound ==
  ASSUME NEW r \in Raw, NEW it, WellCut(r) PROVE Sound(MovRegisterT3Decoder(r, it), it, TRUE)
<1> DEFINE d == MovRegisterT3Decoder(r, it)
           i == d.instr
<1>1. /\ i.id = "kMovRegister"
      /\ i.fields \in [d : Registers, m : Registers]
      /\ "k32Bit" \in i.flags
      /\ d.failed \subseteq {"decoder"}
  BY DEF WellCut, CutFields, Registers, Decoding, New, MovRegisterT3Decoder, Unpredictable, Refuse,
        SetFlagsIfS, When
<1> HIDE DEF d
<1>2. Shaped(i) /\ i.id \in DOMAIN Cases
  BY <1>1, PartsOfCases DEF Shaped, CasesLslImmediateToSxth
<1>3. QED
  BY <1>1, <1>2 DEF Sound, Formed, Valid, IndexedLoads, Loads, d

LEMMA RrxT1DecoderSound ==
  ASSUME NEW r \in Raw, NEW it, WellCut(r) PROVE Sound(RrxT1Decoder(r, it), it, TRUE)
<1> DEFINE d == RrxT1Decoder(r, it)
           i == d.instr
<1>1. /\ i.id = "kRrx"
      /\ i.fields \in [d : Registers, m : Registers]
      /\ "k32Bit" \in i.flags
      /\ d.failed \subseteq {"decoder"}
  BY DEF WellCut, CutFields, Registers, Decoding, New, RrxT1Decoder, Unpredictable, Refuse,
        SetFlagsIfS, When
<1>2. d.status = "kSuccess" /\ d.failed = {} => i.fields.d # 15
  <2>1. AnySpOrPc({Rd(r), Rm(r)}) <=> Rd(r) \in {13, 15} \/ Rm(r) \in {13, 15}
    BY DEF AnySpOrPc
  <2>2. QED
    BY <2>1 DEF Decoding, New, RrxT1Decoder, Unpredictable, Refuse, When
<1> HIDE DEF d
<1>3. Shaped(i) /\ i.id \in DOMAIN Cases
  BY <1>1, PartsOfCases DEF Shaped, CasesLslImmediateToSxth
<1>4. QED
  BY <1>1, <1>2, <1>3 DEF Sound, Formed, Valid, IndexedLoads, Loads, d

LEMMA LdrLiteralT2DecoderSound ==
  ASSUME NEW r \in Raw, NEW it, WellCut(r) PROVE Sound(LdrLiteralT2Decoder(r, it), it, TRUE)
<1> DEFINE d == LdrLiteralT2Decoder(r, it)
           i == d.instr
<1>1. /\ i.id = "kLdrLiteral"
      /\ i.fields \in [t : Registers, imm32 : Int]
      /\ "k32Bit" \in i.flags
      /\ d.failed \subseteq {"decoder"}
  BY DEF WellCut, CutFields, Registers, Decoding, New, LdrLiteralT2Decoder, Unpredictable, Refuse,
        When
<1>2. d.status = "kSuccess" /\ d.failed = {} => (MidITBlock(it) => i.fields.t # 15)
  BY DEF Decoding, New, LdrLiteralT2Decoder, Unpredictable, Refuse, When
<1> HIDE DEF d
<1>3. Shaped(i) /\ i.id \in DOMAIN Cases
  BY <1>1, PartsOfCases DEF Shaped, CasesLdrLiteralToAsrImmediate
<1>4. QED
  BY <1>1, <1>2, <1>3 DEF Sound, Formed, Valid, IndexedLoads, Loads, d

LEMMA LdrbImmediateT2DecoderSound ==
  ASSUME NEW r \in Raw, NEW it, WellCut(r) PROVE Sound(LdrbImmediateT2Decoder(r, it), it, TRUE)
<1> DEFINE d == LdrbImmediateT2Decoder(r, it)
           i == d.instr
<1>1. /\ i.id = "kLdrbImmediate"
      /\ i.fields \in [t : Registers, n : Registers, imm32 : Int]
      /\ "k32Bit" \in i.flags /\ "kWBack" \notin i.flags
      /\ d.failed \subseteq {"decoder"}
  BY DEF WellCut, CutFields, Registers, Decoding, New, LdrbImmediateT2Decoder, Unpredictable, Refuse, When
<1>2. d.status = "kSuccess" /\ d.failed = {} => (MidITBlock(it) => i.fields.t # 15)
  BY DEF Decoding, New, LdrbImmediateT2Decoder, Unpredictable, Refuse, When
<1> HIDE DEF d
<1>3. Shaped(i) /\ i.id \in DOMAIN Cases
  BY <1>1, PartsOfCases DEF Shaped, CasesLdrLiteralToAsrImmediate
<1>4. QED
  BY <1>1, <1>2, <1>3 DEF Sound, Formed, Valid, IndexedLoads, Loads, d

LEMMA LdrbImmediateT3DecoderSound ==
  ASSUME NEW r \in Raw, NEW it, WellCut(r), Rn(r) # 15 PROVE Sound(LdrbImmediateT3Decoder(r, it), it, TRUE)
<1> DEFINE d == LdrbImmediateT3Decoder(r, it)
           i == d.instr
<1>1. /\ i.id = "kLdrbImmediate"
      /\ i.fields \in [t : Registers, n : Registers, imm32 : Int]
      /\ "k32Bit" \in i.flags
      /\ d.failed \subseteq {"decoder"}
  BY DEF WellCut, CutFields, Registers, Decoding, New, LdrbImmediateT3Decoder, Unpredictable,
        Refuse, IndexFlags, When
<1>2. /\ d.status = "kSuccess" => ("kWBack" \in i.flags => i.fields.n \notin {15, i.fields.t})
      /\ d.status = "kSuccess" /\ d.failed = {} => (MidITBlock(it) => i.fields.t # 15)
  BY DEF WellCut, CutFields, Registers, Decoding, New, LdrbImmediateT3Decoder, Unpredictable,
        Refuse, IndexFlags, When
<1> HIDE DEF d
<1>3. Shaped(i) /\ i.id \in DOMAIN Cases
  BY <1>1, PartsOfCases DEF Shaped, CasesLdrLiteralToAsrImmediate
<1>4. QED
  BY <1>1, <1>2, <1>3 DEF Sound, Formed, Valid, IndexedLoads, Loads, d

LEMMA LdrsbImmediateT1DecoderSound ==
  ASSUME NEW r \in Raw, NEW it, WellCut(r) PROVE Sound(LdrsbImmediateT1Decoder(r, it), it, TRUE)
<1> DEFINE d == LdrsbImmediateT1Decoder(r, it)
           i == d.instr
<1>1. /\ i.id = "kLdrsbImmediate"
      /\ i.fields \in [t : Registers, n : Registers, imm32 : Int]
      /\ "k32Bit" \in i.flags /\ "kWBack" \notin i.flags
      /\ d.failed \subseteq {"decoder"}
  BY DEF WellCut, CutFields, Registers, Decoding, New, LdrsbImmediateT1Decoder, Unpredictable,
        Refuse, When
<1>2. d.status = "kSuccess" /\ d.failed = {} => (MidITBlock(it) => i.fields.t # 15)
  BY DEF Decoding, New, LdrsbImmediateT1Decoder, Unpredictable, Refuse, When
<1> HIDE DEF d
<1>3. Shaped(i) /\ i.id \in DOMAIN Cases
  BY <1>1, PartsOfCases DEF Shaped, CasesLdrLiteralToAsrImmediate
<1>4. QED
  BY <1>1, <1>2, <1>3 DEF Sound, Formed, Valid, IndexedLoads, Loads, d

LEMMA LdrsbImmediateT2DecoderSound ==
  ASSUME NEW r \in Raw, NEW it, WellCut(r), Rn(r) # 15 PROVE Sound(LdrsbImmediateT2Decoder(r, it), it, TRUE)
<1> DEFINE d == LdrsbImmediateT2Decoder(r, it)
           i == d.instr
<1>1. /\ i.id = "kLdrsbImmediate"
      /\ i.fields \in [t : Registers, n : Registers, imm32 : Int]
      /\ "k32Bit" \in i.flags
      /\ d.failed \subseteq {"decoder"}
  BY DEF WellCut, CutFields, Registers, Decoding, New, LdrsbImmediateT2Decoder, Unpredictable,
        Refuse, IndexFlags, When
<1>2. /\ d.status = "kSuccess" => ("kWBack" \in i.flags => i.fields.n \notin {15, i.fields.t})
      /\ d.status = "kSuccess" /\ d.failed = {} => (MidITBlock(it) => i.fields.t # 15)
  BY DEF Decoding, New, LdrsbImmediateT2Decoder, Unpredictable, Refuse, IndexFlags, When
<1> HIDE DEF d
<1>3. Shaped(i) /\ i.id \in DOMAIN Cases
  BY <1>1, PartsOfCases DEF Shaped, CasesLdrLiteralToAsrImmediate
<1>4. QED
  BY <1>1, <1>2, <1>3 DEF Sound, Formed, Valid, IndexedLoads, Loads, d

LEMMA LdrshImmediateT1DecoderSound ==
  ASSUME NEW r \in Raw, NEW it, WellCut(r) PROVE Sound(LdrshImmediateT1Decoder(r, it), it, TRUE)
<1> DEFINE d == LdrshImmediateT1Decoder(r, it)
           i == d.instr
<1>1. /\ i.id = "kLdrshImmediate"
      /\ i.fields \in [t : Registers, n : Registers, imm32 : Int]
      /\ "k32Bit" \in i.flags /\ "kWBack" \notin i.flags
      /\ d.failed \subseteq {"decoder"}
  BY DEF WellCut, CutFields, Registers, Decoding, New, LdrshImmediateT1Decoder, Unpredictable,
        Refuse, When
<1>2. d.status = "kSuccess" /\ d.failed = {} => (MidITBlock(it) => i.fields.t # 15)
  BY DEF Decoding, New, LdrshImmediateT1Decoder, Unpredictable, Refuse, When
<1> HIDE DEF d
<1>3. Shaped(i) /\ i.id \in DOMAIN Cases
  BY <1>1, PartsOfCases DEF Shaped, CasesLdrLiteralToAsrImmediate
<1>4. QED
  BY <1>1, <1>2, <1>3 DEF Sound, Formed, Valid, IndexedLoads, Loads, d

LEMMA LdrshImmediateT2DecoderSound ==
  ASSUME NEW r \in Raw, NEW it, WellCut(r), Rn(r) # 15 PROVE Sound(LdrshImmediateT2Decoder(r, it), it, TRUE)
<1> DEFINE d == LdrshImmediateT2Decoder(r, it)
           i == d.instr
<1>1. /\ i.id = "kLdrshImmediate"
      /\ i.fields \in [t : Registers, n : Registers, imm32 : Int]
      /\ "k32Bit" \in i.flags
      /\ d.failed \subseteq {"decoder"}
  BY DEF WellCut, CutFields, Registers, Decoding, New, LdrshImmediateT2Decoder, Unpredictable,
        Refuse, IndexFlags, When
<1>2. /\ d.status = "kSuccess" => ("kWBack" \in i.flags => i.fields.n \notin {15, i.fields.t})
      /\ d.status = "kSuccess" /\ d.failed = {} => (MidITBlock(it) => i.fields.t # 15)
  BY DEF WellCut, CutFields, Registers, Decoding, New, LdrshImmediateT2Decoder, Unpredictable,
        Refuse, IndexFlags, When
<1> HIDE DEF d
<1>3. Shaped(i) /\ i.id \in DOMAIN Cases
  BY <1>1, PartsOfCases DEF Shaped, CasesLdrLiteralToAsrImmediate
<1>4. QED
  BY <1>1, <1>2, <1>3 DEF Sound, Formed, Valid, IndexedLoads, Loads, d

LEMMA LdrhImmediateT2DecoderSound ==
  ASSUME NEW r \in Raw, NEW it, WellCut(r) PROVE Sound(LdrhImmediateT2Decoder(r, it), it, TRUE)
<1> DEFINE d == LdrhImmediateT2Decoder(r, it)
           i == d.instr
<1>1. /\ i.id = "kLdrhImmediate"
      /\ i.fields \in [t : Registers, n : Registers, imm32 : Int]
      /\ "k32Bit" \in i.flags /\ "kWBack" \notin i.flags
      /\ d.failed \subseteq {"decoder"}
  BY DEF WellCut, CutFields, Registers, Decoding, New, LdrhImmediateT2Decoder, Unpredictable, Refuse, When
<1>2. d.status = "kSuccess" /\ d.failed = {} => (MidITBlock(it) => i.fields.t # 15)
  BY DEF Decoding, New, LdrhImmediateT2Decoder, Unpredictable, Refuse, When
<1> HIDE DEF d
<1>3. Shaped(i) /\ i.id \in DOMAIN Cases
  BY <1>1, PartsOfCases DEF Shaped, CasesLdrLiteralToAsrImmediate
<1>4. QED
  BY <1>1, <1>2, <1>3 DEF Sound, Formed, Valid, IndexedLoads, Loads, d

LEMMA LdrhImmediateT3DecoderSound ==
  ASSUME NEW r \in Raw, NEW it, WellCut(r), Rn(r) # 15 PROVE Sound(LdrhImmediateT3Decoder(r, it), it, TRUE)
<1> DEFINE d == LdrhImmediateT3Decoder(r, it)
           i == d.instr
<1>1. /\ i.id = "kLdrhImmediate"
      /\ i.fields \in [t : Registers, n : Registers, imm32 : Int]
      /\ "k32Bit" \in i.flags
      /\ d.failed \subseteq {"decoder"}
  BY DEF WellCut, CutFields, Registers, Decoding, New, LdrhImmediateT3Decoder, Unpredictable,
        Refuse, IndexFlags, When
<1>2. /\ d.status = "kSuccess" => ("kWBack" \in i.flags => i.fields.n \notin {15, i.fields.t})
      /\ d.status = "kSuccess" /\ d.failed = {} => (MidITBlock(it) => i.fields.t # 15)
  BY DEF WellCut, CutFields, Registers, Decoding, New, LdrhImmediateT3Decoder, Unpredictable,
        Refuse, IndexFlags, When
<1> HIDE DEF d
<1>3. Shaped(i) /\ i.id \in DOMAIN Cases
  BY <1>1, PartsOfCases DEF Shaped, CasesLdrLiteralToAsrImmediate
<1>4. QED
  BY <1>1, <1>2, <1>3 DEF Sound, Formed, Valid, IndexedLoads, Loads, d

LEMMA PopT2DecoderSound ==
  ASSUME NEW r \in Raw, NEW it, WellCut(r) PROVE Sound(PopT2Decoder(r, it), it, TRUE)
<1> DEFINE d == PopT2Decoder(r, it)
           i == d.instr
<1>1. /\ i.id = "kPop"
      /\ i.fields \in [registers : Nat]
      /\ "k32Bit" \in i.flags
      /\ d.failed \subseteq {"decoder"}
  BY DEF WellCut, CutFields, Registers, Decoding, New, PopT2Decoder, Unpredictable, Refuse, When
<1>2. d.status = "kSuccess" /\ d.failed = {} => (MidITBlock(it) => Bit(i.fields.registers, 15) # 1)
  BY DEF WellCut, CutFields, Registers, Decoding, New, PopT2Decoder, Unpredictable, Refuse, When
<1> HIDE DEF d
<1>3. Shaped(i) /\ i.id \in DOMAIN Cases
  BY <1>1, PartsOfCases DEF Shaped, CasesRsbRegisterToBicImmediate
<1>4. QED
  BY <1>1, <1>2, <1>3 DEF Sound, Formed, Valid, IndexedLoads, Loads, d

LEMMA PopT3DecoderSound ==
  ASSUME NEW r \in Raw, NEW it, WellCut(r) PROVE Sound(PopT3Decoder(r, it), it, TRUE)
<1> DEFINE d == PopT3Decoder(r, it)
           i == d.instr
<1>1. /\ i.id = "kPop"
      /\ i.fields \in [registers : Nat]
      /\ "k32Bit" \in i.flags
      /\ d.failed \subseteq {"decoder"}
  BY DEF WellCut, CutFields, Registers, Decoding, New, PopT3Decoder, Unpredictable, Refuse, When
<1>2. d.status = "kSuccess" /\ d.failed = {} => (MidITBlock(it) => Bit(i.fields.registers, 15) # 1)
  BY DEF WellCut, CutFields, Registers, Decoding, New, PopT3Decoder, Unpredictable, Refuse, When
<1> HIDE DEF d
<1>3. Shaped(i) /\ i.id \in DOMAIN Cases
  BY <1>1, PartsOfCases DEF Shaped, CasesRsbRegisterToBicImmediate
<1>4. QED
  BY <1>1, <1>2, <1>3 DEF Sound, Formed, Valid, IndexedLoads, Loads, d

LEMMA LdrImmediateT3DecoderSound ==
  ASSUME NEW r \in Raw, NEW it, WellCut(r) PROVE Sound(LdrImmediateT3Decoder(r, it), it, TRUE)
<1> DEFINE d == LdrImmediateT3Decoder(r, it)
           i == d.instr
<1>1. /\ i.id = "kLdrImmediate"
      /\ i.fields \in [t : Registers, n : Registers, imm32 : Int]
      /\ "k32Bit" \in i.flags /\ "kWBack" \notin i.flags
      /\ d.failed \subseteq {"decoder"}
  BY DEF WellCut, CutFields, Registers, Decoding, New, LdrImmediateT3Decoder, Unpredictable, Refuse, When
<1>2. d.status = "kSuccess" /\ d.failed = {} => (MidITBlock(it) => i.fields.t # 15)
  BY DEF Decoding, New, LdrImmediateT3Decoder, Unpredictable, Refuse, When
<1> HIDE DEF d
<1>3. Shaped(i) /\ i.id \in DOMAIN Cases
  BY <1>1, PartsOfCases DEF Shaped, CasesLdrLiteralToAsrImmediate
<1>4. QED
  BY <1>1, <1>2, <1>3 DEF Sound, Formed, Valid, IndexedLoads, Loads, d

LEMMA LdrImmediateT4DecoderSound ==
  ASSUME NEW r \in Raw, NEW it, WellCut(r), Rn(r) # 15 PROVE Sound(LdrImmediateT4Decoder(r, it), it, TRUE)
<1>1. CASE /\ Rn(r) = \b1101 /\ Bit(r.high, 10) = 0 /\ Bit(r.high, 9) = 1
           /\ Bit(r.high, 8) = 1 /\ Bits(r.high, 7, 0) = 4
  <2>1. LdrImmediateT4Decoder(r, it) = PopT3Decoder(r, it)
    BY <1>1 DEF LdrImmediateT4Decoder
  <2>2. QED
    BY <2>1, PopT3DecoderSound
<1>2. CASE ~(/\ Rn(r) = \b1101 /\ Bit(r.high, 10) = 0 /\ Bit(r.high, 9) = 1
             /\ Bit(r.high, 8) = 1 /\ Bits(r.high, 7, 0) = 4)
  <2> DEFINE d == LdrImmediateT4Decoder(r, it)
             i == d.instr
  <2>1. /\ i.id = "kLdrImmediate"
        /\ i.fields \in [t : Registers, n : Registers, imm32 : Int]
        /\ "k32Bit" \in i.flags
        /\ d.failed \subseteq {"decoder"}
    BY <1>2 DEF WellCut, CutFields, Registers, Decoding, New, LdrImmediateT4Decoder, Refuse, IndexFlags,
          When
  <2>2. /\ d.status = "kSuccess" => ("kWBack" \in i.flags => i.fields.n \notin {15, i.fields.t})
        /\ d.status = "kSuccess" /\ d.failed = {} => (MidITBlock(it) => i.fields.t # 15)
    BY <1>2 DEF Decoding, New, LdrImmediateT4Decoder, Refuse, IndexFlags, When
  <2> HIDE DEF d
  <2>3. Shaped(i) /\ i.id \in DOMAIN Cases
    BY <2>1, PartsOfCases DEF Shaped, CasesLdrLiteralToAsrImmediate
  <2>4. QED
    BY <2>1, <2>2, <2>3 DEF Sound, Formed, Valid, IndexedLoads, Loads, d
<1>3. QED
  BY <1>1, <1>2

LEMMA LdrexT1DecoderSound ==
  ASSUME NEW r \in Raw, NEW it, WellCut(r) PROVE Sound(LdrexT1Decoder(r, it), it, TRUE)
<1> DEFINE d == LdrexT1Decoder(r, it)
           i == d.instr
<1>1. /\ i.id = "kLdrex"
      /\ i.fields \in [t : Registers, n : Registers, imm32 : Int]
      /\ "k32Bit" \in i.flags /\ "kWBack" \notin i.flags
      /\ d.failed \subseteq {"decoder"}
  BY DEF WellCut, CutFields, Registers, Decoding, New, LdrexT1Decoder, Refuse, When
<1>2. d.status = "kSuccess" /\ d.failed = {} => (MidITBlock(it) => i.fields.t # 15)
  BY DEF Decoding, New, LdrexT1Decoder, Refuse, When
<1> HIDE DEF d
<1>3. Shaped(i) /\ i.id \in DOMAIN Cases
  BY <1>1, PartsOfCases DEF Shaped, CasesLdrLiteralToAsrImmediate
<1>4. QED
  BY <1>1, <1>2, <1>3 DEF Sound, Formed, Valid, IndexedLoads, Loads, d

LEMMA LdrdImmediateT1DecoderSound ==
  ASSUME NEW r \in Raw, NEW it, WellCut(r) PROVE Sound(LdrdImmediateT1Decoder(r, it), it, TRUE)
<1> DEFINE d == LdrdImmediateT1Decoder(r, it)
           i == d.instr
<1>1. /\ i.id = "kLdrdImmediate"
      /\ i.fields \in [t : Registers, t2 : Registers, n : Registers, imm32 : Int]
      /\ "k32Bit" \in i.flags
      /\ d.failed \subseteq {"decoder"}
  BY DEF WellCut, CutFields, Registers, Decoding, New, LdrdImmediateT1Decoder, Unpredictable,
        Refuse, IndexFlags, When
<1>2. d.status = "kSuccess" /\ d.failed = {} =>
        ("kWBack" \in i.flags => i.fields.n # 15) /\ 15 \notin {i.fields.t, i.fields.t2}
  <2>1. AnySpOrPc({Rt(r), Rd(r)}) <=> Rt(r) \in {13, 15} \/ Rd(r) \in {13, 15}
    BY DEF AnySpOrPc
  <2>2. QED
    BY <2>1 DEF Decoding, New, LdrdImmediateT1Decoder, Unpredictable, Refuse, IndexFlags, When
<1> HIDE DEF d
<1>3. Shaped(i) /\ i.id \in DOMAIN Cases
  BY <1>1, PartsOfCases DEF Shaped, CasesLdrLiteralToAsrImmediate
<1>4. QED
  BY <1>1, <1>2, <1>3 DEF Sound, Formed, Valid, IndexedLoads, Loads, d

LEMMA BlT1DecoderSound ==
  ASSUME NEW r \in Raw, NEW it, WellCut(r) PROVE Sound(BlT1Decoder(r, it), it, TRUE)
<1> DEFINE d == BlT1Decoder(r, it)
           i == d.instr
<1>1. /\ i.id = "kBl"
      /\ i.fields \in [imm32 : Int]
      /\ "k32Bit" \in i.flags
      /\ d.failed \subseteq {"decoder"}
  BY DEF WellCut, CutFields, Registers, Decoding, New, BlT1Decoder, Unpredictable, Refuse, When
<1>2. d.status = "kSuccess" /\ d.failed = {} => ~MidITBlock(it)
  BY DEF Decoding, New, BlT1Decoder, Unpredictable, Refuse, When
<1> HIDE DEF d
<1>3. Shaped(i) /\ i.id \in DOMAIN Cases
  BY <1>1, PartsOfCases DEF Shaped, CasesUxthToAddPcPlusImmediate
<1>4. QED
  BY <1>1, <1>2, <1>3 DEF Sound, Formed, Valid, IndexedLoads, Loads, d

LEMMA BT3DecoderSound ==
  ASSUME NEW r \in Raw, NEW it, WellCut(r) PROVE Sound(BT3Decoder(r, it), it, TRUE)
<1> DEFINE d == BT3Decoder(r, it)
           i == d.instr
<1>1. /\ i.id = "kBCond"
      /\ i.fields \in [cond : Registers, imm32 : Int]
      /\ "k32Bit" \in i.flags
      /\ d.failed \subseteq {"decoder"}
  BY DEF WellCut, CutFields, Registers, Decoding, New, BT3Decoder, Unpredictable, Refuse, When
<1>2. d.status = "kSuccess" => ~InITBlock(it)
  BY DEF Decoding, New, BT3Decoder, Unpredictable, Refuse, When
<1> HIDE DEF d
<1>3. Shaped(i) /\ i.id \in DOMAIN Cases
  BY <1>1, PartsOfCases DEF Shaped, CasesUxthToAddPcPlusImmediate
<1>4. QED
  BY <1>1, <1>2, <1>3 DEF Sound, Formed, Valid, IndexedLoads, Loads, d

LEMMA BT4DecoderSound ==
  ASSUME NEW r \in Raw, NEW it, WellCut(r) PROVE Sound(BT4Decoder(r, it), it, TRUE)
<1> DEFINE d == BT4Decoder(r, it)
           i == d.instr
<1>1. /\ i.id = "kB"
      /\ i.fields \in [imm32 : Int]
      /\ "k32Bit" \in i.flags
      /\ d.failed \subseteq {"decoder"}
  BY DEF WellCut, CutFields, Registers, Decoding, New, BT4Decoder, Unpredictable, Refuse, When
<1>2. d.status = "kSuccess" /\ d.failed = {} => ~MidITBlock(it)
  BY DEF Decoding, New, BT4Decoder, Unpredictable, Refuse, When
<1> HIDE DEF d
<1>3. Shaped(i) /\ i.id \in DOMAIN Cases
  BY <1>1, PartsOfCases DEF Shaped, CasesUxthToAddPcPlusImmediate
<1>4. QED
  BY <1>1, <1>2, <1>3 DEF Sound, Formed, Valid, IndexedLoads, Loads, d

LEMMA SubSpMinusImmediateT2DecoderSound ==
  ASSUME NEW r \in Raw, NEW it, WellCut(r) PROVE Sound(SubSpMinusImmediateT2Decoder(r, it), it, TRUE)
<1> DEFINE d == SubSpMinusImmediateT2Decoder(r, it)
           i == d.instr
<1>1. /\ i.id = "kSubSpMinusImmediate"
      /\ i.fields \in [d : Registers, imm32 : Int]
      /\ "k32Bit" \in i.flags
      /\ d.failed \subseteq {"decoder"}
  BY DEF WellCut, CutFields, Registers, Decoding, New, SubSpMinusImmediateT2Decoder, Unpredictable,
        Refuse, Expandable, SetFlagsIfS, When
<1>2. d.status = "kSuccess" /\ d.failed = {} => i.fields.d # 15
  BY DEF WellCut, CutFields, Registers, Decoding, New, SubSpMinusImmediateT2Decoder, Unpredictable,
        Refuse, Expandable, When
<1> HIDE DEF d
<1>3. Shaped(i) /\ i.id \in DOMAIN Cases
  BY <1>1, PartsOfCases DEF Shaped, CasesUxthToAddPcPlusImmediate
<1>4. QED
  BY <1>1, <1>2, <1>3 DEF Sound, Formed, Valid, IndexedLoads, Loads, d

LEMMA SubSpMinusImmediateT3DecoderSound ==
  ASSUME NEW r \in Raw, NEW it, WellCut(r) PROVE Sound(SubSpMinusImmediateT3Decoder(r, it), it, TRUE)
<1> DEFINE d == SubSpMinusImmediateT3Decoder(r, it)
           i == d.instr
<1>1. /\ i.id = "kSubSpMinusImmediate"
      /\ i.fields \in [d : Registers, imm32 : Int]
      /\ "k32Bit" \in i.flags
      /\ d.failed \subseteq {"decoder"}
  BY DEF WellCut, CutFields, Registers, Decoding, New, SubSpMinusImmediateT3Decoder, Unpredictable,
        Refuse, When
<1>2. d.status = "kSuccess" /\ d.failed = {} => i.fields.d # 15
  BY DEF Decoding, New, SubSpMinusImmediateT3Decoder, Unpredictable, Refuse, When
<1> HIDE DEF d
<1>3. Shaped(i) /\ i.id \in DOMAIN Cases
  BY <1>1, PartsOfCases DEF Shaped, CasesUxthToAddPcPlusImmediate
<1>4. QED
  BY <1>1, <1>2, <1>3 DEF Sound, Formed, Valid, IndexedLoads, Loads, d

LEMMA SubImmediateT3DecoderSound ==
  ASSUME NEW r \in Raw, NEW it, WellCut(r) PROVE Sound(SubImmediateT3Decoder(r, it), it, TRUE)
<1>1. CASE Rn(r) = \b1101
  <2>1. SubImmediateT3Decoder(r, it) = SubSpMinusImmediateT2Decoder(r, it)
    BY <1>1 DEF SubImmediateT3Decoder
  <2>2. QED
    BY <2>1, SubSpMinusImmediateT2DecoderSound
<1>2. CASE ~(Rn(r) = \b1101)
  <2> DEFINE d == SubImmediateT3Decoder(r, it)
             i == d.instr
  <2>1. /\ i.id = "kSubImmediate"
        /\ i.fields \in [d : Registers, n : Registers, imm32 : Int]
        /\ "k32Bit" \in i.flags /\ "kWBack" \notin i.flags
        /\ d.failed \subseteq {"decoder"}
    BY <1>2 DEF WellCut, CutFields, Registers, Decoding, New, SubImmediateT3Decoder, Unpredictable,
          Refuse, Expandable, SetFlagsIfS, When
  <2>2. d.status = "kSuccess" /\ d.failed = {} => i.fields.d # 15
    BY <1>2 DEF WellCut, Registers, Decoding, New, SubImmediateT3Decoder, Unpredictable, Refuse,
          Expandable, When
  <2> HIDE DEF d
  <2>3. Shaped(i) /\ i.id \in DOMAIN Cases
    BY <2>1, PartsOfCases DEF Shaped, CasesUxthToAddPcPlusImmediate
  <2>4. QED
    BY <2>1, <2>2, <2>3 DEF Sound, Formed, Valid, IndexedLoads, Loads, d
<1>3. QED
  BY <1>1, <1>2

LEMMA SubImmediateT4DecoderSound ==
  ASSUME NEW r \in Raw, NEW it, WellCut(r) PROVE Sound(SubImmediateT4Decoder(r, it), it, TRUE)
<1>1. CASE Rn(r) = \b1101
  <2>1. SubImmediateT4Decoder(r, it) = SubSpMinusImmediateT3Decoder(r, it)
    BY <1>1 DEF SubImmediateT4Decoder
  <2>2. QED
    BY <2>1, SubSpMinusImmediateT3DecoderSound
<1>2. CASE ~(Rn(r) = \b1101)
  <2> DEFINE d == SubImmediateT4Decoder(r, it)
             i == d.instr
  <2>1. /\ i.id = "kSubImmediate"
        /\ i.fields \in [d : Registers, n : Registers, imm32 : Int]
        /\ "k32Bit" \in i.flags /\ "kWBack" \notin i.flags
        /\ d.failed \subseteq {"decoder"}
    BY <1>2 DEF WellCut, CutFields, Registers, Decoding, New, SubImmediateT4Decoder, Unpredictable,
          Refuse, When
  <2>2. d.status = "kSuccess" /\ d.failed = {} => i.fields.d # 15
    BY <1>2 DEF Decoding, New, SubImmediateT4Decoder, Unpredictable, Refuse, When
  <2> HIDE DEF d
  <2>3. Shaped(i) /\ i.id \in DOMAIN Cases
    BY <2>1, PartsOfCases DEF Shaped, CasesUxthToAddPcPlusImmediate
  <2>4. QED
    BY <2>1, <2>2, <2>3 DEF Sound, Formed, Valid, IndexedLoads, Loads, d
<1>3. QED
  BY <1>1, <1>2

LEMMA SbcImmediateT1DecoderSound ==
  ASSUME NEW r \in Raw, NEW it, WellCut(r) PROVE Sound(SbcImmediateT1Decoder(r, it), it, TRUE)
<1> DEFINE d == SbcImmediateT1Decoder(r, it)
           i == d.instr
<1>1. /\ i.id = "kSbcImmediate"
      /\ i.fields \in [d : Registers, n : Registers, imm32 : Int]
      /\ "k32Bit" \in i.flags /\ "kWBack" \notin i.flags
      /\ d.failed \subseteq {"decoder"}
  BY DEF WellCut, CutFields, Registers, Decoding, New, SbcImmediateT1Decoder, Unpredictable, Refuse,
        Expandable, SetFlagsIfS, When
<1>2. d.status = "kSuccess" /\ d.failed = {} => i.fields.d # 15
  BY DEF WellCut, Registers, Decoding, New, SbcImmediateT1Decoder, Unpredictable, Refuse,
        Expandable, When
<1> HIDE DEF d
<1>3. Shaped(i) /\ i.id \in DOMAIN Cases
  BY <1>1, PartsOfCases DEF Shaped, CasesUxthToAddPcPlusImmediate
<1>4. QED
  BY <1>1, <1>2, <1>3 DEF Sound, Formed, Valid, IndexedLoads, Loads, d

LEMMA AddSpPlusImmediateT3DecoderSound ==
  ASSUME NEW r \in Raw, NEW it, WellCut(r) PROVE Sound(AddSpPlusImmediateT3Decoder(r, it), it, TRUE)
<1> DEFINE d == AddSpPlusImmediateT3Decoder(r, it)
           i == d.instr
<1>1. /\ i.id = "kAddSpPlusImmediate"
      /\ i.fields \in [d : Registers, imm32 : Int]
      /\ "k32Bit" \in i.flags
      /\ d.failed \subseteq {"decoder"}
  BY DEF WellCut, CutFields, Registers, Decoding, New, AddSpPlusImmediateT3Decoder, Unpredictable,
        Refuse, Expandable, SetFlagsIfS, When
<1>2. d.status = "kSuccess" /\ d.failed = {} => i.fields.d # 15
  BY DEF WellCut, CutFields, Registers, Decoding, New, AddSpPlusImmediateT3Decoder, Unpredictable,
        Refuse, Expandable, When
<1> HIDE DEF d
<1>3. Shaped(i) /\ i.id \in DOMAIN Cases
  BY <1>1, PartsOfCases DEF Shaped, CasesAddSpPlusImmediateToSubRegister
<1>4. QED
  BY <1>1, <1>2, <1>3 DEF Sound, Formed, Valid, IndexedLoads, Loads, d

LEMMA AddSpPlusImmediateT4DecoderSound ==
  ASSUME NEW r \in Raw, NEW it, WellCut(r) PROVE Sound(AddSpPlusImmediateT4Decoder(r, it), it, TRUE)
<1> DEFINE d == AddSpPlusImmediateT4Decoder(r, it)
           i == d.instr
<1>1. /\ i.id = "kAddSpPlusImmediate"
      /\ i.fields \in [d : Registers, imm32 : Int]
      /\ "k32Bit" \in i.flags
      /\ d.failed \subseteq {"decoder"}
  BY DEF WellCut, CutFields, Registers, Decoding, New, AddSpPlusImmediateT4Decoder, Unpredictable,
        Refuse, When
<1>2. d.status = "kSuccess" /\ d.failed = {} => i.fields.d # 15
  BY DEF Decoding, New, AddSpPlusImmediateT4Decoder, Unpredictable, Refuse, When
<1> HIDE DEF d
<1>3. Shaped(i) /\ i.id \in DOMAIN Cases
  BY <1>1, PartsOfCases DEF Shaped, CasesAddSpPlusImmediateToSubRegister
<1>4. QED
  BY <1>1, <1>2, <1>3 DEF Sound, Formed, Valid, IndexedLoads, Loads, d

LEMMA AddImmediateT3DecoderSound ==
  ASSUME NEW r \in Raw, NEW it, WellCut(r) PROVE Sound(AddImmediateT3Decoder(r, it), it, TRUE)
<1>1. CASE Rn(r) = \b1101
  <2>1. AddImmediateT3Decoder(r, it) = AddSpPlusImmediateT3Decoder(r, it)
    BY <1>1 DEF AddImmediateT3Decoder
  <2>2. QED
    BY <2>1, AddSpPlusImmediateT3DecoderSound
<1>2. CASE ~(Rn(r) = \b1101)
  <2> DEFINE d == AddImmediateT3Decoder(r, it)
             i == d.instr
  <2>1. /\ i.id = "kAddImmediate"
        /\ i.fields \in [d : Registers, n : Registers, imm32 : Int]
        /\ "k32Bit" \in i.flags /\ "kWBack" \notin i.flags
        /\ d.failed \subseteq {"decoder"}
    BY <1>2 DEF WellCut, CutFields, Registers, Decoding, New, AddImmediateT3Decoder, Unpredictable,
          Refuse, Expandable, SetFlagsIfS, When
  <2>2. d.status = "kSuccess" /\ d.failed = {} => i.fields.d # 15
    BY <1>2 DEF WellCut, Registers, Decoding, New, AddImmediateT3Decoder, Unpredictable, Refuse,
          Expandable, When
  <2> HIDE DEF d
  <2>3. Shaped(i) /\ i.id \in DOMAIN Cases
    BY <2>1, PartsOfCases DEF Shaped, CasesUxthToAddPcPlusImmediate
  <2>4. QED
    BY <2>1, <2>2, <2>3 DEF Sound, Formed, Valid, IndexedLoads, Loads, d
<1>3. QED
  BY <1>1, <1>2

LEMMA AddImmediateT4DecoderSound ==
  ASSUME NEW r \in Raw, NEW it, WellCut(r) PROVE Sound(AddImmediateT4Decoder(r, it), it, TRUE)
<1>1. CASE Rn(r) = \b1101
  <2>1. AddImmediateT4Decoder(r, it) = AddSpPlusImmediateT4Decoder(r, it)
    BY <1>1 DEF AddImmediateT4Decoder
  <2>2. QED
    BY <2>1, AddSpPlusImmediateT4DecoderSound
<1>2. CASE ~(Rn(r) = \b1101)
  <2> DEFINE d == AddImmediateT4Decoder(r, it)
             i == d.instr
  <2>1. /\ i.id = "kAddImmediate"
        /\ i.fields \in [d : Registers, n : Registers, imm32 : Int]
        /\ "k32Bit" \in i.flags /\ "kWBack" \notin i.flags
        /\ d.failed \subseteq {"decoder"}
    BY <1>2 DEF WellCut, CutFields, Registers, Decoding, New, AddImmediateT4Decoder, Unpredictable,
          Refuse, When
  <2>2. d.status = "kSuccess" /\ d.failed = {} => i.fields.d # 15
    BY <1>2 DEF Decoding, New, AddImmediateT4Decoder, Unpredictable, Refuse, When
  <2> HIDE DEF d
  <2>3. Shaped(i) /\ i.id \in DOMAIN Cases
    BY <2>1, PartsOfCases DEF Shaped, CasesUxthToAddPcPlusImmediate
  <2>4. QED
    BY <2>1, <2>2, <2>3 DEF Sound, Formed, Valid, IndexedLoads, Loads, d
<1>3. QED
  BY <1>1, <1>2

LEMMA AdcImmediateT1DecoderSound ==
  ASSUME NEW r \in Raw, NEW it, WellCut(r) PROVE Sound(AdcImmediateT1Decoder(r, it), it, TRUE)
<1> DEFINE d == AdcImmediateT1Decoder(r, it)
           i == d.instr
<1>1. /\ i.id = "kAdcImmediate"
      /\ i.fields \in [d : Registers, n : Registers, imm32 : Int]
      /\ "k32Bit" \in i.flags /\ "kWBack" \notin i.flags
      /\ d.failed \subseteq {"decoder"}
  BY DEF WellCut, CutFields, Registers, Decoding, New, AdcImmediateT1Decoder, Unpredictable, Refuse,
        Expandable, SetFlagsIfS, When
<1>2. d.status = "kSuccess" /\ d.failed = {} => i.fields.d # 15
  <2>1. AnySpOrPc({Rd(r), Rn(r)}) <=> Rd(r) \in {13, 15} \/ Rn(r) \in {13, 15}
    BY DEF AnySpOrPc
  <2>2. QED
    BY <2>1 DEF Decoding, New, AdcImmediateT1Decoder, Unpredictable, Refuse, Expandable, When
<1> HIDE DEF d
<1>3. Shaped(i) /\ i.id \in DOMAIN Cases
  BY <1>1, PartsOfCases DEF Shaped, CasesUxthToAddPcPlusImmediate
<1>4. QED
  BY <1>1, <1>2, <1>3 DEF Sound, Formed, Valid, IndexedLoads, Loads, d

LEMMA TstImmediateT1DecoderSound ==
  ASSUME NEW r \in Raw, NEW it, WellCut(r) PROVE Sound(TstImmediateT1Decoder(r, it), it, TRUE)
<1> DEFINE d == TstImmediateT1Decoder(r, it)
           i == d.instr
<1>1. /\ i.id = "kTstImmediate"
      /\ i.fields \in [n : Registers, imm32_carry : Carries]
      /\ "k32Bit" \in i.flags /\ "kWBack" \notin i.flags
      /\ d.failed \subseteq {"decoder"}
  BY DEF WellCut, CutFields, Registers, Decoding, New, TstImmediateT1Decoder, Unpredictable, Refuse,
        Expandable, When
<1> HIDE DEF d
<1>2. Shaped(i) /\ i.id \in DOMAIN Cases
  BY <1>1, PartsOfCases DEF Shaped, CasesAddSpPlusImmediateToSubRegister
<1>3. QED
  BY <1>1, <1>2 DEF Sound, Formed, Valid, IndexedLoads, Loads, d

LEMMA TeqImmediateT1DecoderSound ==
  ASSUME NEW r \in Raw, NEW it, WellCut(r) PROVE Sound(TeqImmediateT1Decoder(r, it), it, TRUE)
<1> DEFINE d == TeqImmediateT1Decoder(r, it)
           i == d.instr
<1>1. /\ i.id = "kTeqImmediate"
      /\ i.fields \in [n : Registers, imm32_carry : Carries]
      /\ "k32Bit" \in i.flags /\ "kWBack" \notin i.flags
      /\ d.failed \subseteq {"decoder"}
  BY DEF WellCut, CutFields, Registers, Decoding, New, TeqImmediateT1Decoder, Unpredictable, Refuse,
        Expandable, When
<1> HIDE DEF d
<1>2. Shaped(i) /\ i.id \in DOMAIN Cases
  BY <1>1, PartsOfCases DEF Shaped, CasesAddSpPlusImmediateToSubRegister
<1>3. QED
  BY <1>1, <1>2 DEF Sound, Formed, Valid, IndexedLoads, Loads, d

LEMMA TeqRegisterT1DecoderSound ==
  ASSUME NEW r \in Raw, NEW it, WellCut(r) PROVE Sound(TeqRegisterT1Decoder(r, it), it, TRUE)
<1> DEFINE d == TeqRegisterT1Decoder(r, it)
           i == d.instr
<1>1. /\ i.id = "kTeqRegister"
      /\ i.fields \in [n : Registers, m : Registers, shift_res : Shifts]
      /\ "k32Bit" \in i.flags /\ "kWBack" \notin i.flags
      /\ d.failed \subseteq {"decoder"}
  BY DEF WellCut, CutFields, Registers, Decoding, New, TeqRegisterT1Decoder, Unpredictable, Refuse, When
<1> HIDE DEF d
<1>2. Shaped(i) /\ i.id \in DOMAIN Cases
  BY <1>1, PartsOfCases DEF Shaped, CasesAddSpPlusImmediateToSubRegister
<1>3. QED
  BY <1>1, <1>2 DEF Sound, Formed, Valid, IndexedLoads, Loads, d

LEMMA AndImmediateT1DecoderSound ==
  ASSUME NEW r \in Raw, NEW it, WellCut(r) PROVE Sound(AndImmediateT1Decoder(r, it), it, TRUE)
<1> DEFINE d == AndImmediateT1Decoder(r, it)
           i == d.instr
<1>1. /\ i.id = "kAndImmediate"
      /\ i.fields \in [d : Registers, n : Registers, imm32_carry : Carries]
      /\ "k32Bit" \in i.flags /\ "kWBack" \notin i.flags
      /\ d.failed \subseteq {"decoder"}
  BY DEF WellCut, CutFields, Registers, Decoding, New, AndImmediateT1Decoder, Unpredictable, Refuse,
        Expandable, SetFlagsIfS, When
<1>2. d.status = "kSuccess" /\ d.failed = {} => i.fields.d # 15
  BY DEF WellCut, Registers, Decoding, New, AndImmediateT1Decoder, Unpredictable, Refuse,
        Expandable, When
<1> HIDE DEF d
<1>3. Shaped(i) /\ i.id \in DOMAIN Cases
  BY <1>1, PartsOfCases DEF Shaped, CasesAddSpPlusImmediateToSubRegister
<1>4. QED
  BY <1>1, <1>2, <1>3 DEF Sound, Formed, Valid, IndexedLoads, Loads, d

LEMMA OrrImmediateT1DecoderSound ==
  ASSUME NEW r \in Raw, NEW it, WellCut(r) PROVE Sound(OrrImmediateT1Decoder(r, it), it, TRUE)
<1> DEFINE d == OrrImmediateT1Decoder(r, it)
           i == d.instr
<1>1. /\ i.id = "kOrrImmediate"
      /\ i.fields \in [d : Registers, n : Registers, imm32_carry : Carries]
      /\ "k32Bit" \in i.flags /\ "kWBack" \notin i.flags
      /\ d.failed \subseteq {"decoder"}
  BY DEF WellCut, CutFields, Registers, Decoding, New, OrrImmediateT1Decoder, Unpredictable, Refuse,
        Expandable, SetFlagsIfS, When
<1>2. d.status = "kSuccess" /\ d.failed = {} => i.fields.d # 15
  BY DEF Decoding, New, OrrImmediateT1Decoder, Unpredictable, Refuse, Expandable, When
<1> HIDE DEF d
<1>3. Shaped(i) /\ i.id \in DOMAIN Cases
  BY <1>1, PartsOfCases DEF Shaped, CasesAddSpPlusImmediateToSubRegister
<1>4. QED
  BY <1>1, <1>2, <1>3 DEF Sound, Formed, Valid, IndexedLoads, Loads, d

LEMMA EorImmediateT1DecoderSound ==
  ASSUME NEW r \in Raw, NEW it, WellCut(r), Rd(r) # 15 PROVE Sound(EorImmediateT1Decoder(r, it), it, TRUE)
<1> DEFINE d == EorImmediateT1Decoder(r, it)
           i == d.instr
<1>1. /\ i.id = "kEorImmediate"
      /\ i.fields \in [d : Registers, n : Registers, imm32_carry : Carries]
      /\ "k32Bit" \in i.flags /\ "kWBack" \notin i.flags
      /\ d.failed \subseteq {"decoder"}
  BY DEF WellCut, CutFields, Registers, Decoding, New, EorImmediateT1Decoder, Unpredictable, Refuse,
        Expandable, SetFlagsIfS, When
<1>2. d.status = "kSuccess" /\ d.failed = {} => i.fields.d # 15
  BY DEF WellCut, Registers, Decoding, New, EorImmediateT1Decoder, Unpredictable, Refuse,
        Expandable, When
<1> HIDE DEF d
<1>3. Shaped(i) /\ i.id \in DOMAIN Cases
  BY <1>1, PartsOfCases DEF Shaped, CasesAddSpPlusImmediateToSubRegister
<1>4. QED
  BY <1>1, <1>2, <1>3 DEF Sound, Formed, Valid, IndexedLoads, Loads, d

LEMMA SubRegisterT2DecoderSound ==
  ASSUME NEW r \in Raw, NEW it, WellCut(r) PROVE Sound(SubRegisterT2Decoder(r, it), it, TRUE)
<1> DEFINE d == SubRegisterT2Decoder(r, it)
           i == d.instr
<1>1. /\ i.id = "kSubRegister"
      /\ i.fields \in [d : Registers, n : Registers, m : Registers, shift_res : Shifts]
      /\ "k32Bit" \in i.flags /\ "kWBack" \notin i.flags
      /\ d.failed \subseteq {"decoder"}
  BY DEF WellCut, CutFields, Registers, Decoding, New, SubRegisterT2Decoder, Unpredictable, Refuse,
        SetFlagsIfS, When
<1>2. d.status = "kSuccess" /\ d.failed = {} => i.fields.d # 15
  BY DEF WellCut, CutFields, Registers, Decoding, New, SubRegisterT2Decoder, Unpredictable, Refuse,
        When
<1> HIDE DEF d
<1>3. Shaped(i) /\ i.id \in DOMAIN Cases
  BY <1>1, PartsOfCases DEF Shaped, CasesAddSpPlusImmediateToSubRegister
<1>4. QED
  BY <1>1, <1>2, <1>3 DEF Sound, Formed, Valid, IndexedLoads, Loads, d

LEMMA RsbRegisterT1DecoderSound ==
  ASSUME NEW r \in Raw, NEW it, WellCut(r) PROVE Sound(RsbRegisterT1Decoder(r, it), it, TRUE)
<1> DEFINE d == RsbRegisterT1Decoder(r, it)
           i == d.instr
<1>1. /\ i.id = "kRsbRegister"
      /\ i.fields \in [d : Registers, n : Registers, m : Registers, shift_res : Shifts]
      /\ "k32Bit" \in i.flags /\ "kWBack" \notin i.flags
      /\ d.failed \subseteq {"decoder"}
  BY DEF WellCut, CutFields, Registers, Decoding, New, RsbRegisterT1Decoder, Unpredictable, Refuse,
        SetFlagsIfS, When
<1>2. d.status = "kSuccess" /\ d.failed = {} => i.fields.d # 15
  <2>1. AnySpOrPc({Rd(r), Rn(r), Rm(r)}) <=> 
          Rd(r) \in {13, 15} \/ Rn(r) \in {13, 15} \/ Rm(r) \in {13, 15}
    BY DEF AnySpOrPc
  <2>2. QED
    BY <2>1 DEF Decoding, New, RsbRegisterT1Decoder, Unpredictable, Refuse, When
<1> HIDE DEF d
<1>3. Shaped(i) /\ i.id \in DOMAIN Cases
  BY <1>1, PartsOfCases DEF Shaped, CasesRsbRegisterToBicImmediate
<1>4. QED
  BY <1>1, <1>2, <1>3 DEF Sound, Formed, Valid, IndexedLoads, Loads, d

LEMMA UmlalT1DecoderSound ==
  ASSUME NEW r \in Raw, NEW it, WellCut(r) PROVE Sound(UmlalT1Decoder(r, it), it, TRUE)
<1> DEFINE d == UmlalT1Decoder(r, it)
           i == d.instr
<1>1. /\ i.id = "kUmlal"
      /\ i.fields \in [dLo : Registers, dHi : Registers, n : Registers, m : Registers]
      /\ "k32Bit" \in i.flags /\ "kWBack" \notin i.flags
      /\ d.failed \subseteq {"decoder"}
  BY DEF WellCut, CutFields, Registers, Decoding, New, UmlalT1Decoder, Unpredictable, Refuse, When
<1>2. d.status = "kSuccess" /\ d.failed = {} => 15 \notin {i.fields.dLo, i.fields.dHi}
  <2>1. AnySpOrPc({Rt(r), Rd(r), Rn(r), Rm(r)}) <=> 
          Rt(r) \in {13, 15} \/ Rd(r) \in {13, 15} \/ Rn(r) \in {13, 15} \/ Rm(r) \in {13, 15}
    BY DEF AnySpOrPc
  <2>2. QED
    BY <2>1 DEF Decoding, New, UmlalT1Decoder, Unpredictable, Refuse, When
<1> HIDE DEF d
<1>3. Shaped(i) /\ i.id \in DOMAIN Cases
  BY <1>1, PartsOfCases DEF Shaped, CasesLdrLiteralToAsrImmediate
<1>4. QED
  BY <1>1, <1>2, <1>3 DEF Sound, Formed, Valid, IndexedLoads, Loads, d

LEMMA UmullT1DecoderSound ==
  ASSUME NEW r \in Raw, NEW it, WellCut(r) PROVE Sound(UmullT1Decoder(r, it), it, TRUE)
<1> DEFINE d == UmullT1Decoder(r, it)
           i == d.instr
<1>1. /\ i.id = "kUmull"
      /\ i.fields \in [dLo : Registers, dHi : Registers, n : Registers, m : Registers]
      /\ "k32Bit" \in i.flags /\ "kWBack" \notin i.flags
      /\ d.failed \subseteq {"decoder"}
  BY DEF WellCut, CutFields, Registers, Decoding, New, UmullT1Decoder, Unpredictable, Refuse, When
<1>2. d.status = "kSuccess" /\ d.failed = {} => 15 \notin {i.fields.dLo, i.fields.dHi}
  <2>1. AnySpOrPc({Rt(r), Rd(r), Rn(r), Rm(r)}) <=> 
          Rt(r) \in {13, 15} \/ Rd(r) \in {13, 15} \/ Rn(r) \in {13, 15} \/ Rm(r) \in {13, 15}
    BY DEF AnySpOrPc
  <2>2. QED
    BY <2>1 DEF Decoding, New, UmullT1Decoder, Unpredictable, Refuse, When
<1> HIDE DEF d
<1>3. Shaped(i) /\ i.id \in DOMAIN Cases
  BY <1>1, PartsOfCases DEF Shaped, CasesLdrLiteralToAsrImmediate
<1>4. QED
  BY <1>1, <1>2, <1>3 DEF Sound, Formed, Valid, IndexedLoads, Loads, d

LEMMA SmullT1DecoderSound ==
  ASSUME NEW r \in Raw, NEW it, WellCut(r) PROVE Sound(SmullT1Decoder(r, it), it, TRUE)
<1> DEFINE d == SmullT1Decoder(r, it)
           i == d.instr
<1>1. /\ i.id = "kSmull"
      /\ i.fields \in [dLo : Registers, dHi : Registers, n : Registers, m : Registers]
      /\ "k32Bit" \in i.flags /\ "kWBack" \notin i.flags
      /\ d.failed \subseteq {"decoder"}
  BY DEF WellCut, CutFields, Registers, Decoding, New, SmullT1Decoder, Unpredictable, Refuse, When
<1> HIDE DEF d
<1>2. Shaped(i) /\ i.id \in DOMAIN Cases
  BY <1>1, PartsOfCases DEF Shaped, CasesLdrLiteralToAsrImmediate
<1>3. QED
  BY <1>1, <1>2 DEF Sound, Formed, Valid, IndexedLoads, Loads, d

LEMMA MulT2DecoderSound ==
  ASSUME NEW r \in Raw, NEW it, WellCut(r) PROVE Sound(MulT2Decoder(r, it), it, TRUE)
<1> DEFINE d == MulT2Decoder(r, it)
           i == d.instr
<1>1. /\ i.id = "kMul"
      /\ i.fields \in [d : Registers, n : Registers, m : Registers]
      /\ "k32Bit" \in i.flags /\ "kWBack" \notin i.flags
      /\ d.failed \subseteq {"decoder"}
  BY DEF WellCut, CutFields, Registers, Decoding, New, MulT2Decoder, Unpredictable, Refuse, When
<1>2. d.status = "kSuccess" /\ d.failed = {} => i.fields.d # 15
  <2>1. AnySpOrPc({Rd(r), Rn(r), Rm(r)}) <=> 
          Rd(r) \in {13, 15} \/ Rn(r) \in {13, 15} \/ Rm(r) \in {13, 15}
    BY DEF AnySpOrPc
  <2>2. QED
    BY <2>1 DEF Decoding, New, MulT2Decoder, Unpredictable, Refuse, When
<1> HIDE DEF d
<1>3. Shaped(i) /\ i.id \in DOMAIN Cases
  BY <1>1, PartsOfCases DEF Shaped, CasesAddSpPlusImmediateToSubRegister
<1>4. QED
  BY <1>1, <1>2, <1>3 DEF Sound, Formed, Valid, IndexedLoads, Loads, d

LEMMA UdivT1DecoderSound ==
  ASSUME NEW r \in Raw, NEW it, WellCut(r) PROVE Sound(UdivT1Decoder(r, it), it, TRUE)
<1> DEFINE d == UdivT1Decoder(r, it)
           i == d.instr
<1>1. /\ i.id = "kUdiv"
      /\ i.fields \in [d : Registers, n : Registers, m : Registers]
      /\ "k32Bit" \in i.flags /\ "kWBack" \notin i.flags
      /\ d.failed \subseteq {"decoder"}
  BY DEF WellCut, CutFields, Registers, Decoding, New, UdivT1Decoder, Unpredictable, Refuse, When
<1>2. d.status = "kSuccess" /\ d.failed = {} => i.fields.d # 15
  <2>1. AnySpOrPc({Rd(r), Rn(r), Rm(r)}) <=> 
          Rd(r) \in {13, 15} \/ Rn(r) \in {13, 15} \/ Rm(r) \in {13, 15}
    BY DEF AnySpOrPc
  <2>2. QED
    BY <2>1 DEF Decoding, New, UdivT1Decoder, Unpredictable, Refuse, When
<1> HIDE DEF d
<1>3. Shaped(i) /\ i.id \in DOMAIN Cases
  BY <1>1, PartsOfCases DEF Shaped, CasesAddSpPlusImmediateToSubRegister
<1>4. QED
  BY <1>1, <1>2, <1>3 DEF Sound, Formed, Valid, IndexedLoads, Loads, d

LEMMA SdivT1DecoderSound ==
  ASSUME NEW r \in Raw, NEW it, WellCut(r) PROVE Sound(SdivT1Decoder(r, it), it, TRUE)
<1> DEFINE d == SdivT1Decoder(r, it)
           i == d.instr
<1>1. /\ i.id = "kSdiv"
      /\ i.fields \in [d : Registers, n : Registers, m : Registers]
      /\ "k32Bit" \in i.flags /\ "kWBack" \notin i.flags
      /\ d.failed \subseteq {"decoder"}
  BY DEF WellCut, CutFields, Registers, Decoding, New, SdivT1Decoder, Unpredictable, Refuse, When
<1>2. d.status = "kSuccess" /\ d.failed = {} => i.fields.d # 15
  <2>1. AnySpOrPc({Rd(r), Rn(r), Rm(r)}) <=> 
          Rd(r) \in {13, 15} \/ Rn(r) \in {13, 15} \/ Rm(r) \in {13, 15}
    BY DEF AnySpOrPc
  <2>2. QED
    BY <2>1 DEF Decoding, New, SdivT1Decoder, Unpredictable, Refuse, When
<1> HIDE DEF d
<1>3. Shaped(i) /\ i.id \in DOMAIN Cases
  BY <1>1, PartsOfCases DEF Shaped, CasesAddSpPlusImmediateToSubRegister
<1>4. QED
  BY <1>1, <1>2, <1>3 DEF Sound, Formed, Valid, IndexedLoads, Loads, d

LEMMA MlsT1DecoderSound ==
  ASSUME NEW r \in Raw, NEW it, WellCut(r) PROVE Sound(MlsT1Decoder(r, it), it, TRUE)
<1> DEFINE d == MlsT1Decoder(r, it)
           i == d.instr
<1>1. /\ i.id = "kMls"
      /\ i.fields \in [d : Registers, n : Registers, m : Registers, a : Registers]
      /\ "k32Bit" \in i.flags /\ "kWBack" \notin i.flags
      /\ d.failed \subseteq {"decoder"}
  BY DEF WellCut, CutFields, Registers, Decoding, New, MlsT1Decoder, Unpredictable, Refuse, When
<1>2. d.status = "kSuccess" /\ d.failed = {} => i.fields.d # 15
  <2>1. AnySpOrPc({Rd(r), Rn(r), Rm(r), Rt(r)}) <=> 
          Rd(r) \in {13, 15} \/ Rn(r) \in {13, 15} \/ Rm(r) \in {13, 15} \/ Rt(r) \in {13, 15}
    BY DEF AnySpOrPc
  <2>2. QED
    BY <2>1 DEF Decoding, New, MlsT1Decoder, Unpredictable, Refuse, When
<1> HIDE DEF d
<1>3. Shaped(i) /\ i.id \in DOMAIN Cases
  BY <1>1, PartsOfCases DEF Shaped, CasesAddSpPlusImmediateToSubRegister
<1>4. QED
  BY <1>1, <1>2, <1>3 DEF Sound, Formed, Valid, IndexedLoads, Loads, d

LEMMA MlaT1DecoderSound ==
  ASSUME NEW r \in Raw, NEW it, WellCut(r) PROVE Sound(MlaT1Decoder(r, it), it, TRUE)
<1> DEFINE d == MlaT1Decoder(r, it)
           i == d.instr
<1>1. /\ i.id = "kMla"
      /\ i.fields \in [d : Registers, n : Registers, m : Registers, a : Registers]
      /\ "k32Bit" \in i.flags /\ "kWBack" \notin i.flags
      /\ d.failed \subseteq {"decoder"}
  BY DEF WellCut, CutFields, Registers, Decoding, New, MlaT1Decoder, Unpredictable, Refuse, When
<1>2. d.status = "kSuccess" /\ d.failed = {} => i.fields.d # 15
  <2>1. AnySpOrPc({Rd(r), Rn(r), Rm(r), Rt(r)}) <=> 
          Rd(r) \in {13, 15} \/ Rn(r) \in {13, 15} \/ Rm(r) \in {13, 15} \/ Rt(r) \in {13, 15}
    BY DEF AnySpOrPc
  <2>2. QED
    BY <2>1 DEF Decoding, New, MlaT1Decoder, Unpredictable, Refuse, When
<1> HIDE DEF d
<1>3. Shaped(i) /\ i.id \in DOMAIN Cases
  BY <1>1, PartsOfCases DEF Shaped, CasesAddSpPlusImmediateToSubRegister
<1>4. QED
  BY <1>1, <1>2, <1>3 DEF Sound, Formed, Valid, IndexedLoads, Loads, d

LEMMA AddRegisterT3DecoderSound ==
  ASSUME NEW r \in Raw, NEW it, WellCut(r) PROVE Sound(AddRegisterT3Decoder(r, it), it, TRUE)
<1> DEFINE d == AddRegisterT3Decoder(r, it)
           i == d.instr
<1>1. /\ i.id = "kAddRegister"
      /\ i.fields \in [d : Registers, n : Registers, m : Registers, shift_res : Shifts]
      /\ "k32Bit" \in i.flags /\ "kWBack" \notin i.flags
      /\ d.failed \subseteq {"decoder"}
  BY DEF WellCut, CutFields, Registers, Decoding, New, AddRegisterT3Decoder, Unpredictable, Refuse,
        SetFlagsIfS, When
<1> HIDE DEF d
<1>2. Shaped(i) /\ i.id \in DOMAIN Cases
  BY <1>1, PartsOfCases DEF Shaped, CasesRsbRegisterToBicImmediate
<1>3. QED
  BY <1>1, <1>2 DEF Sound, Formed, Valid, IndexedLoads, Loads, d

LEMMA AdcRegisterT2DecoderSound ==
  ASSUME NEW r \in Raw, NEW it, WellCut(r) PROVE Sound(AdcRegisterT2Decoder(r, it), it, TRUE)
<1> DEFINE d == AdcRegisterT2Decoder(r, it)
           i == d.instr
<1>1. /\ i.id = "kAdcRegister"
      /\ i.fields \in [d : Registers, n : Registers, m : Registers, shift_res : Shifts]
      /\ "k32Bit" \in i.flags /\ "kWBack" \notin i.flags
      /\ d.failed \subseteq {"decoder"}
  BY DEF WellCut, CutFields, Registers, Decoding, New, AdcRegisterT2Decoder, Unpredictable, Refuse,
        SetFlagsIfS, When
<1>2. d.status = "kSuccess" /\ d.failed = {} => i.fields.d # 15
  <2>1. AnySpOrPc({Rd(r), Rn(r), Rm(r)}) <=> 
          Rd(r) \in {13, 15} \/ Rn(r) \in {13, 15} \/ Rm(r) \in {13, 15}
    BY DEF AnySpOrPc
  <2>2. QED
    BY <2>1 DEF Decoding, New, AdcRegisterT2Decoder, Unpredictable, Refuse, When
<1> HIDE DEF d
<1>3. Shaped(i) /\ i.id \in DOMAIN Cases
  BY <1>1, PartsOfCases DEF Shaped, CasesRsbRegisterToBicImmediate
<1>4. QED
  BY <1>1, <1>2, <1>3 DEF Sound, Formed, Valid, IndexedLoads, Loads, d

LEMMA StmdbT1DecoderSound ==
  ASSUME NEW r \in Raw, NEW it, WellCut(r) PROVE Sound(StmdbT1Decoder(r, it), it, TRUE)
<1> DEFINE d == StmdbT1Decoder(r, it)
           i == d.instr
<1>1. /\ i.id = "kStmdb"
      /\ i.fields \in [n : Registers, registers : Nat]
      /\ "k32Bit" \in i.flags
      /\ d.failed \subseteq {"decoder"}
  BY DEF WellCut, CutFields, Registers, Decoding, New, StmdbT1Decoder, Unpredictable, Refuse, When
<1>2. d.status = "kSuccess" /\ d.failed = {} => FALSE
  BY DEF Decoding, New, StmdbT1Decoder, Unpredictable, Refuse, When
<1> HIDE DEF d
<1>3. Shaped(i)
  BY <1>1 DEF Shaped
<1>4. QED
  BY <1>1, <1>2, <1>3 DEF Sound, Formed, Valid, IndexedLoads, Loads, d

LEMMA PushT2DecoderSound ==
  ASSUME NEW r \in Raw, NEW it, WellCut(r) PROVE Sound(PushT2Decoder(r, it), it, TRUE)
<1> DEFINE d == PushT2Decoder(r, it)
           i == d.instr
<1>1. /\ i.id = "kPush"
      /\ i.fields \in [registers : Nat]
      /\ "k32Bit" \in i.flags
      /\ d.failed \subseteq {"decoder"}
  BY DEF WellCut, CutFields, Registers, Decoding, New, PushT2Decoder, Unpredictable, Refuse, When
<1> HIDE DEF d
<1>2. Shaped(i) /\ i.id \in DOMAIN Cases
  BY <1>1, PartsOfCases DEF Shaped, CasesRsbRegisterToBicImmediate
<1>3. QED
  BY <1>1, <1>2 DEF Sound, Formed, Valid, IndexedLoads, Loads, d

LEMMA PushT3DecoderSound ==
  ASSUME NEW r \in Raw, NEW it, WellCut(r) PROVE Sound(PushT3Decoder(r, it), it, TRUE)
<1> DEFINE d == PushT3Decoder(r, it)
           i == d.instr
<1>1. /\ i.id = "kPush"
      /\ i.fields \in [registers : Nat]
      /\ "k32Bit" \in i.flags
      /\ d.failed \subseteq {"decoder"}
  BY DEF WellCut, CutFields, Registers, Decoding, New, PushT3Decoder, Unpredictable, Refuse, When
<1> HIDE DEF d
<1>2. Shaped(i) /\ i.id \in DOMAIN Cases
  BY <1>1, PartsOfCases DEF Shaped, CasesRsbRegisterToBicImmediate
<1>3. QED
  BY <1>1, <1>2 DEF Sound, Formed, Valid, IndexedLoads, Loads, d

LEMMA LdmT2DecoderSound ==
  ASSUME NEW r \in Raw, NEW it, WellCut(r) PROVE Sound(LdmT2Decoder(r, it), it, TRUE)
<1> DEFINE d == LdmT2Decoder(r, it)
           i == d.instr
<1>1. /\ i.id = "kLdm"
      /\ i.fields \in [n : Registers, registers : Nat]
      /\ "k32Bit" \in i.flags
      /\ d.failed \subseteq {"decoder"}
  BY DEF WellCut, CutFields, Registers, Decoding, New, LdmT2Decoder, Unpredictable, Refuse, When
<1>2. d.status = "kSuccess" /\ d.failed = {} =>
        (MidITBlock(it) => Bit(i.fields.registers, 15) # 1) /\ i.fields.n # 15
  BY DEF WellCut, CutFields, Registers, Decoding, New, LdmT2Decoder, Unpredictable, Refuse, When
<1> HIDE DEF d
<1>3. Shaped(i) /\ i.id \in DOMAIN Cases
  BY <1>1, PartsOfCases DEF Shaped, CasesRsbRegisterToBicImmediate
<1>4. QED
  BY <1>1, <1>2, <1>3 DEF Sound, Formed, Valid, IndexedLoads, Loads, d

LEMMA StmT2DecoderSound ==
  ASSUME NEW r \in Raw, NEW it, WellCut(r) PROVE Sound(StmT2Decoder(r, it), it, TRUE)
<1> DEFINE d == StmT2Decoder(r, it)
           i == d.instr
<1>1. /\ i.id = "kStm"
      /\ i.fields \in [n : Registers, registers : Nat]
      /\ "k32Bit" \in i.flags
      /\ d.failed \subseteq {"decoder"}
  BY DEF WellCut, CutFields, Registers, Decoding, New, StmT2Decoder, Unpredictable, Refuse, When
<1>2. d.status = "kSuccess" /\ d.failed = {} => ("kWBack" \in i.flags => i.fields.n # 15)
  BY DEF Decoding, New, StmT2Decoder, Unpredictable, Refuse, When
<1> HIDE DEF d
<1>3. Shaped(i) /\ i.id \in DOMAIN Cases
  BY <1>1, PartsOfCases DEF Shaped, CasesRsbRegisterToBicImmediate
<1>4. QED
  BY <1>1, <1>2, <1>3 DEF Sound, Formed, Valid, IndexedLoads, Loads, d

LEMMA SxthT2DecoderSound ==
  ASSUME NEW r \in Raw, NEW it, WellCut(r) PROVE Sound(SxthT2Decoder(r, it), it, TRUE)
<1> DEFINE d == SxthT2Decoder(r, it)
           i == d.instr
<1>1. /\ i.id = "kSxth"
      /\ i.fields \in [d : Registers, m : Registers, rotation : Nat]
      /\ "k32Bit" \in i.flags
      /\ d.failed \subseteq {"decoder"}
  BY DEF WellCut, CutFields, Registers, Decoding, New, SxthT2Decoder, Unpredictable, Refuse, When
<1>2. d.status = "kSuccess" /\ d.failed = {} => i.fields.d # 15
  <2>1. AnySpOrPc({Rd(r), Rm(r)}) <=> Rd(r) \in {13, 15} \/ Rm(r) \in {13, 15}
    BY DEF AnySpOrPc
  <2>2. QED
    BY <2>1 DEF Decoding, New, SxthT2Decoder, Unpredictable, Refuse, When
<1> HIDE DEF d
<1>3. Shaped(i) /\ i.id \in DOMAIN Cases
  BY <1>1, PartsOfCases DEF Shaped, CasesLslImmediateToSxth
<1>4. QED
  BY <1>1, <1>2, <1>3 DEF Sound, Formed, Valid, IndexedLoads, Loads, d

LEMMA UxtbT2DecoderSound ==
  ASSUME NEW r \in Raw, NEW it, WellCut(r) PROVE Sound(UxtbT2Decoder(r, it), it, TRUE)
<1> DEFINE d == UxtbT2Decoder(r, it)
           i == d.instr
<1>1. /\ i.id = "kUxtb"
      /\ i.fields \in [d : Registers, m : Registers, rotation : Nat]
      /\ "k32Bit" \in i.flags
      /\ d.failed \subseteq {"decoder"}
  BY DEF WellCut, CutFields, Registers, Decoding, New, UxtbT2Decoder, Unpredictable, Refuse, When
<1>2. d.status = "kSuccess" /\ d.failed = {} => i.fields.d # 15
  <2>1. AnySpOrPc({Rd(r), Rm(r)}) <=> Rd(r) \in {13, 15} \/ Rm(r) \in {13, 15}
    BY DEF AnySpOrPc
  <2>2. QED
    BY <2>1 DEF Decoding, New, UxtbT2Decoder, Unpredictable, Refuse, When
<1> HIDE DEF d
<1>3. Shaped(i) /\ i.id \in DOMAIN Cases
  BY <1>1, PartsOfCases DEF Shaped, CasesLslImmediateToSxth
<1>4. QED
  BY <1>1, <1>2, <1>3 DEF Sound, Formed, Valid, IndexedLoads, Loads, d

LEMMA SxtbT2DecoderSound ==
  ASSUME NEW r \in Raw, NEW it, WellCut(r) PROVE Sound(SxtbT2Decoder(r, it), it, TRUE)
<1> DEFINE d == SxtbT2Decoder(r, it)
           i == d.instr
<1>1. /\ i.id = "kSxtb"
      /\ i.fields \in [d : Registers, m : Registers, rotation : Nat]
      /\ "k32Bit" \in i.flags
      /\ d.failed \subseteq {"decoder"}
  BY DEF WellCut, CutFields, Registers, Decoding, New, SxtbT2Decoder, Unpredictable, Refuse, When
<1>2. d.status = "kSuccess" /\ d.failed = {} => i.fields.d # 15
  <2>1. AnySpOrPc({Rd(r), Rm(r)}) <=> Rd(r) \in {13, 15} \/ Rm(r) \in {13, 15}
    BY DEF AnySpOrPc
  <2>2. QED
    BY <2>1 DEF Decoding, New, SxtbT2Decoder, Unpredictable, Refuse, When
<1> HIDE DEF d
<1>3. Shaped(i) /\ i.id \in DOMAIN Cases
  BY <1>1, PartsOfCases DEF Shaped, CasesLslImmediateToSxth
<1>4. QED
  BY <1>1, <1>2, <1>3 DEF Sound, Formed, Valid, IndexedLoads, Loads, d

LEMMA UxthT2DecoderSound ==
  ASSUME NEW r \in Raw, NEW it, WellCut(r) PROVE Sound(UxthT2Decoder(r, it), it, TRUE)
<1> DEFINE d == UxthT2Decoder(r, it)
           i == d.instr
<1>1. /\ i.id = "kUxth"
      /\ i.fields \in [d : Registers, m : Registers, rotation : Nat]
      /\ "k32Bit" \in i.flags
      /\ d.failed \subseteq {"decoder"}
  BY DEF WellCut, CutFields, Registers, Decoding, New, UxthT2Decoder, Unpredictable, Refuse, When
<1>2. d.status = "kSuccess" /\ d.failed = {} => i.fields.d # 15
  <2>1. AnySpOrPc({Rd(r), Rm(r)}) <=> Rd(r) \in {13, 15} \/ Rm(r) \in {13, 15}
    BY DEF AnySpOrPc
  <2>2. QED
    BY <2>1 DEF Decoding, New, UxthT2Decoder, Unpredictable, Refuse, When
<1> HIDE DEF d
<1>3. Shaped(i) /\ i.id \in DOMAIN Cases
  BY <1>1, PartsOfCases DEF Shaped, CasesUxthToAddPcPlusImmediate
<1>4. QED
  BY <1>1, <1>2, <1>3 DEF Sound, Formed, Valid, IndexedLoads, Loads, d

LEMMA BfiT1DecoderSound ==
  ASSUME NEW r \in Raw, NEW it, WellCut(r) PROVE Sound(BfiT1Decoder(r, it), it, TRUE)
<1> DEFINE d == BfiT1Decoder(r, it)
           i == d.instr
<1>1. /\ i.id = "kBfi"
      /\ i.fields \in [d : Registers, n : Registers, lsbit : Nat, msbit : Nat]
      /\ "k32Bit" \in i.flags /\ "kWBack" \notin i.flags
      /\ d.failed \subseteq {"decoder"}
  BY DEF WellCut, CutFields, Registers, Decoding, New, BfiT1Decoder, Unpredictable, Refuse, When
<1>2. d.status = "kSuccess" /\ d.failed = {} => i.fields.d # 15
  BY DEF Decoding, New, BfiT1Decoder, Unpredictable, Refuse, When
<1> HIDE DEF d
<1>3. Shaped(i) /\ i.id \in DOMAIN Cases
  BY <1>1, PartsOfCases DEF Shaped, CasesAddSpPlusImmediateToSubRegister
<1>4. QED
  BY <1>1, <1>2, <1>3 DEF Sound, Formed, Valid, IndexedLoads, Loads, d

LEMMA UbfxT1DecoderSound ==
  ASSUME NEW r \in Raw, NEW it, WellCut(r) PROVE Sound(UbfxT1Decoder(r, it), it, TRUE)
<1> DEFINE d == UbfxT1Decoder(r, it)
           i == d.instr
<1>1. /\ i.id = "kUbfx"
      /\ i.fields \in [d : Registers, n : Registers, lsbit : Nat, widthminus1 : Nat]
      /\ "k32Bit" \in i.flags /\ "kWBack" \notin i.flags
      /\ d.failed \subseteq {"decoder"}
  BY DEF WellCut, CutFields, Registers, Decoding, New, UbfxT1Decoder, Unpredictable, Refuse, When
<1>2. d.status = "kSuccess" /\ d.failed = {} => i.fields.d # 15
  <2>1. AnySpOrPc({Rd(r), Rn(r)}) <=> Rd(r) \in {13, 15} \/ Rn(r) \in {13, 15}
    BY DEF AnySpOrPc
  <2>2. QED
    BY <2>1 DEF Decoding, New, UbfxT1Decoder, Unpredictable, Refuse, When
<1> HIDE DEF d
<1>3. Shaped(i) /\ i.id \in DOMAIN Cases
  BY <1>1, PartsOfCases DEF Shaped, CasesAddSpPlusImmediateToSubRegister
<1>4. QED
  BY <1>1, <1>2, <1>3 DEF Sound, Formed, Valid, IndexedLoads, Loads, d

LEMMA EorRegisterT2DecoderSound ==
  ASSUME NEW r \in Raw, NEW it, WellCut(r) PROVE Sound(EorRegisterT2Decoder(r, it), it, TRUE)
<1> DEFINE d == EorRegisterT2Decoder(r, it)
           i == d.instr
<1>1. /\ i.id = "kEorRegister"
      /\ i.fields \in [d : Registers, n : Registers, m : Registers, shift_res : Shifts]
      /\ "k32Bit" \in i.flags /\ "kWBack" \notin i.flags
      /\ d.failed \subseteq {"decoder"}
  BY DEF WellCut, CutFields, Registers, Decoding, New, EorRegisterT2Decoder, Unpredictable, Refuse,
        SetFlagsIfS, When
<1>2. d.status = "kSuccess" /\ d.failed = {} => i.fields.d # 15
  BY DEF WellCut, CutFields, Registers, Decoding, New, EorRegisterT2Decoder, Unpredictable, Refuse,
        When
<1> HIDE DEF d
<1>3. Shaped(i) /\ i.id \in DOMAIN Cases
  BY <1>1, PartsOfCases DEF Shaped, CasesRsbRegisterToBicImmediate
<1>4. QED
  BY <1>1, <1>2, <1>3 DEF Sound, Formed, Valid, IndexedLoads, Loads, d

LEMMA SbcRegisterT2DecoderSound ==
  ASSUME NEW r \in Raw, NEW it, WellCut(r) PROVE Sound(SbcRegisterT2Decoder(r, it), it, TRUE)
<1> DEFINE d == SbcRegisterT2Decoder(r, it)
           i == d.instr
<1>1. /\ i.id = "kSbcRegister"
      /\ i.fields \in [d : Registers, n : Registers, m : Registers, shift_res : Shifts]
      /\ "k32Bit" \in i.flags /\ "kWBack" \notin i.flags
      /\ d.failed \subseteq {"decoder"}
  BY DEF WellCut, CutFields, Registers, Decoding, New, SbcRegisterT2Decoder, Unpredictable, Refuse,
        SetFlagsIfS, When
<1>2. d.status = "kSuccess" /\ d.failed = {} => i.fields.d # 15
  <2>1. AnySpOrPc({Rd(r), Rn(r), Rm(r)}) <=> 
          Rd(r) \in {13, 15} \/ Rn(r) \in {13, 15} \/ Rm(r) \in {13, 15}
    BY DEF AnySpOrPc
  <2>2. QED
    BY <2>1 DEF Decoding, New, SbcRegisterT2Decoder, Unpredictable, Refuse, When
<1> HIDE DEF d
<1>3. Shaped(i) /\ i.id \in DOMAIN Cases
  BY <1>1, PartsOfCases DEF Shaped, CasesRsbRegisterToBicImmediate
<1>4. QED
  BY <1>1, <1>2, <1>3 DEF Sound, Formed, Valid, IndexedLoads, Loads, d

LEMMA OrrRegisterT2DecoderSound ==
  ASSUME NEW r \in Raw, NEW it, WellCut(r) PROVE Sound(OrrRegisterT2Decoder(r, it), it, TRUE)
<1> DEFINE d == OrrRegisterT2Decoder(r, it)
           i == d.instr
<1>1. /\ i.id = "kOrrRegister"
      /\ i.fields \in [d : Registers, n : Registers, m : Registers, shift_res : Shifts]
      /\ "k32Bit" \in i.flags /\ "kWBack" \notin i.flags
      /\ d.failed \subseteq {"decoder"}
  BY DEF WellCut, CutFields, Registers, Decoding, New, OrrRegisterT2Decoder, Unpredictable, Refuse,
        SetFlagsIfS, When
<1>2. d.status = "kSuccess" /\ d.failed = {} => i.fields.d # 15
  <2>1. AnySpOrPc({Rd(r), Rm(r)}) <=> Rd(r) \in {13, 15} \/ Rm(r) \in {13, 15}
    BY DEF AnySpOrPc
  <2>2. QED
    BY <2>1 DEF Decoding, New, OrrRegisterT2Decoder, Unpredictable, Refuse, When
<1> HIDE DEF d
<1>3. Shaped(i) /\ i.id \in DOMAIN Cases
  BY <1>1, PartsOfCases DEF Shaped, CasesRsbRegisterToBicImmediate
<1>4. QED
  BY <1>1, <1>2, <1>3 DEF Sound, Formed, Valid, IndexedLoads, Loads, d

LEMMA AndRegisterT2DecoderSound ==
  ASSUME NEW r \in Raw, NEW it, WellCut(r) PROVE Sound(AndRegisterT2Decoder(r, it), it, TRUE)
<1> DEFINE d == AndRegisterT2Decoder(r, it)
           i == d.instr
<1>1. /\ i.id = "kAndRegister"
      /\ i.fields \in [d : Registers, n : Registers, m : Registers, shift_res : Shifts]
      /\ "k32Bit" \in i.flags /\ "kWBack" \notin i.flags
      /\ d.failed \subseteq {"decoder"}
  BY DEF WellCut, CutFields, Registers, Decoding, New, AndRegisterT2Decoder, Unpredictable, Refuse,
        SetFlagsIfS, When
<1>2. d.status = "kSuccess" /\ d.failed = {} => i.fields.d # 15
  <2>1. AnySpOrPc({Rn(r), Rm(r)}) <=> Rn(r) \in {13, 15} \/ Rm(r) \in {13, 15}
    BY DEF AnySpOrPc
  <2>2. QED
    BY <2>1 DEF WellCut, CutFields, Registers, Decoding, New, AndRegisterT2Decoder, Unpredictable,
          Refuse, When
<1> HIDE DEF d
<1>3. Shaped(i) /\ i.id \in DOMAIN Cases
  BY <1>1, PartsOfCases DEF Shaped, CasesRsbRegisterToBicImmediate
<1>4. QED
  BY <1>1, <1>2, <1>3 DEF Sound, Formed, Valid, IndexedLoads, Loads, d

LEMMA BicImmediateT1DecoderSound ==
  ASSUME NEW r \in Raw, NEW it, WellCut(r) PROVE Sound(BicImmediateT1Decoder(r, it), it, TRUE)
<1> DEFINE d == BicImmediateT1Decoder(r, it)
           i == d.instr
<1>1. /\ i.id = "kBicImmediate"
      /\ i.fields \in [d : Registers, n : Registers, imm32_carry : Carries]
      /\ "k32Bit" \in i.flags /\ "kWBack" \notin i.flags
      /\ d.failed \subseteq {"decoder"}
  BY DEF WellCut, CutFields, Registers, Decoding, New, BicImmediateT1Decoder, Unpredictable, Refuse,
        Expandable, SetFlagsIfS, When
<1>2. d.status = "kSuccess" /\ d.failed = {} => i.fields.d # 15
  <2>1. AnySpOrPc({Rd(r), Rn(r)}) <=> Rd(r) \in {13, 15} \/ Rn(r) \in {13, 15}
    BY DEF AnySpOrPc
  <2>2. QED
    BY <2>1 DEF Decoding, New, BicImmediateT1Decoder, Unpredictable, Refuse, Expandable, When
<1> HIDE DEF d
<1>3. Shaped(i) /\ i.id \in DOMAIN Cases
  BY <1>1, PartsOfCases DEF Shaped, CasesRsbRegisterToBicImmediate
<1>4. QED
  BY <1>1, <1>2, <1>3 DEF Sound, Formed, Valid, IndexedLoads, Loads, d

LEMMA BicRegisterT2DecoderSound ==
  ASSUME NEW r \in Raw, NEW it, WellCut(r) PROVE Sound(BicRegisterT2Decoder(r, it), it, TRUE)
<1> DEFINE d == BicRegisterT2Decoder(r, it)
           i == d.instr
<1>1. /\ i.id = "kBicRegister"
      /\ i.fields \in [d : Registers, n : Registers, m : Registers, shift_res : Shifts]
      /\ "k32Bit" \in i.flags /\ "kWBack" \notin i.flags
      /\ d.failed \subseteq {"decoder"}
  BY DEF WellCut, CutFields, Registers, Decoding, New, BicRegisterT2Decoder, Unpredictable, Refuse,
        SetFlagsIfS, When
<1>2. d.status = "kSuccess" /\ d.failed = {} => i.fields.d # 15
  <2>1. AnySpOrPc({Rd(r), Rn(r), Rm(r)}) <=> 
          Rd(r) \in {13, 15} \/ Rn(r) \in {13, 15} \/ Rm(r) \in {13, 15}
    BY DEF AnySpOrPc
  <2>2. QED
    BY <2>1 DEF Decoding, New, BicRegisterT2Decoder, Unpredictable, Refuse, When
<1> HIDE DEF d
<1>3. Shaped(i) /\ i.id \in DOMAIN Cases
  BY <1>1, PartsOfCases DEF Shaped, CasesRsbRegisterToBicImmediate
<1>4. QED
  BY <1>1, <1>2, <1>3 DEF Sound, Formed, Valid, IndexedLoads, Loads, d

LEMMA LsrRegisterT2DecoderSound ==
  ASSUME NEW r \in Raw, NEW it, WellCut(r) PROVE Sound(LsrRegisterT2Decoder(r, it), it, TRUE)
<1> DEFINE d == LsrRegisterT2Decoder(r, it)
           i == d.instr
<1>1. /\ i.id = "kLsrRegister"
      /\ i.fields \in [d : Registers, n : Registers, m : Registers]
      /\ "k32Bit" \in i.flags /\ "kWBack" \notin i.flags
      /\ d.failed \subseteq {"decoder"}
  BY DEF WellCut, CutFields, Registers, Decoding, New, LsrRegisterT2Decoder, Unpredictable, Refuse,
        SetFlagsIfS, When
<1>2. d.status = "kSuccess" /\ d.failed = {} => i.fields.d # 15
  <2>1. AnySpOrPc({Rd(r), Rn(r), Rm(r)}) <=> 
          Rd(r) \in {13, 15} \/ Rn(r) \in {13, 15} \/ Rm(r) \in {13, 15}
    BY DEF AnySpOrPc
  <2>2. QED
    BY <2>1 DEF Decoding, New, LsrRegisterT2Decoder, Unpredictable, Refuse, When
<1> HIDE DEF d
<1>3. Shaped(i) /\ i.id \in DOMAIN Cases
  BY <1>1, PartsOfCases DEF Shaped, CasesLslImmediateToSxth
<1>4. QED
  BY <1>1, <1>2, <1>3 DEF Sound, Formed, Valid, IndexedLoads, Loads, d

LEMMA AsrRegisterT2DecoderSound ==
  ASSUME NEW r \in Raw, NEW it, WellCut(r) PROVE Sound(AsrRegisterT2Decoder(r, it), it, TRUE)
<1> DEFINE d == AsrRegisterT2Decoder(r, it)
           i == d.instr
<1>1. /\ i.id = "kAsrRegister"
      /\ i.fields \in [d : Registers, n : Registers, m : Registers]
      /\ "k32Bit" \in i.flags /\ "kWBack" \notin i.flags
      /\ d.failed \subseteq {"decoder"}
  BY DEF WellCut, CutFields, Registers, Decoding, New, AsrRegisterT2Decoder, Unpredictable, Refuse,
        SetFlagsIfS, When
<1>2. d.status = "kSuccess" /\ d.failed = {} => i.fields.d # 15
  <2>1. AnySpOrPc({Rd(r), Rn(r), Rm(r)}) <=> 
          Rd(r) \in {13, 15} \/ Rn(r) \in {13, 15} \/ Rm(r) \in {13, 15}
    BY DEF AnySpOrPc
  <2>2. QED
    BY <2>1 DEF Decoding, New, AsrRegisterT2Decoder, Unpredictable, Refuse, When
<1> HIDE DEF d
<1>3. Shaped(i) /\ i.id \in DOMAIN Cases
  BY <1>1, PartsOfCases DEF Shaped, CasesLslImmediateToSxth
<1>4. QED
  BY <1>1, <1>2, <1>3 DEF Sound, Formed, Valid, IndexedLoads, Loads, d

LEMMA LsrImmediateT2DecoderSound ==
  ASSUME NEW r \in Raw, NEW it, WellCut(r) PROVE Sound(LsrImmediateT2Decoder(r, it), it, TRUE)
<1> DEFINE d == LsrImmediateT2Decoder(r, it)
           i == d.instr
<1>1. /\ i.id = "kLsrImmediate"
      /\ i.fields \in [d : Registers, m : Registers, shift_res : Shifts]
      /\ "k32Bit" \in i.flags
      /\ d.failed \subseteq {"decoder"}
  BY DEF WellCut, CutFields, Registers, Decoding, New, LsrImmediateT2Decoder, Unpredictable, Refuse,
        SetFlagsIfS, When
<1>2. d.status = "kSuccess" /\ d.failed = {} => i.fields.d # 15
  <2>1. AnySpOrPc({Rd(r), Rm(r)}) <=> Rd(r) \in {13, 15} \/ Rm(r) \in {13, 15}
    BY DEF AnySpOrPc
  <2>2. QED
    BY <2>1 DEF Decoding, New, LsrImmediateT2Decoder, Unpredictable, Refuse, When
<1> HIDE DEF d
<1>3. Shaped(i) /\ i.id \in DOMAIN Cases
  BY <1>1, PartsOfCases DEF Shaped, CasesMvnRegisterToDmb
<1>4. QED
  BY <1>1, <1>2, <1>3 DEF Sound, Formed, Valid, IndexedLoads, Loads, d

LEMMA MvnRegisterT2DecoderSound ==
  ASSUME NEW r \in Raw, NEW it, WellCut(r) PROVE Sound(MvnRegisterT2Decoder(r, it), it, TRUE)
<1> DEFINE d == MvnRegisterT2Decoder(r, it)
           i == d.instr
<1>1. /\ i.id = "kMvnRegister"
      /\ i.fields \in [d : Registers, m : Registers, shift_res : Shifts]
      /\ "k32Bit" \in i.flags
      /\ d.failed \subseteq {"decoder"}
  BY DEF WellCut, CutFields, Registers, Decoding, New, MvnRegisterT2Decoder, Unpredictable, Refuse,
        SetFlagsIfS, When
<1>2. d.status = "kSuccess" /\ d.failed = {} => i.fields.d # 15
  <2>1. AnySpOrPc({Rd(r), Rm(r)}) <=> Rd(r) \in {13, 15} \/ Rm(r) \in {13, 15}
    BY DEF AnySpOrPc
  <2>2. QED
    BY <2>1 DEF Decoding, New, MvnRegisterT2Decoder, Unpredictable, Refuse, When
<1> HIDE DEF d
<1>3. Shaped(i) /\ i.id \in DOMAIN Cases
  BY <1>1, PartsOfCases DEF Shaped, CasesMvnRegisterToDmb
<1>4. QED
  BY <1>1, <1>2, <1>3 DEF Sound, Formed, Valid, IndexedLoads, Loads, d

LEMMA AsrImmediateT2DecoderSound ==
  ASSUME NEW r \in Raw, NEW it, WellCut(r) PROVE Sound(AsrImmediateT2Decoder(r, it), it, TRUE)
<1> DEFINE d == AsrImmediateT2Decoder(r, it)
           i == d.instr
<1>1. /\ i.id = "kAsrImmediate"
      /\ i.fields \in [d : Registers, m : Registers, shift_res : Shifts]
      /\ "k32Bit" \in i.flags
      /\ d.failed \subseteq {"decoder"}
  BY DEF WellCut, CutFields, Registers, Decoding, New, AsrImmediateT2Decoder, Unpredictable, Refuse,
        SetFlagsIfS, When
<1>2. d.status = "kSuccess" /\ d.failed = {} => i.fields.d # 15
  <2>1. AnySpOrPc({Rd(r), Rm(r)}) <=> Rd(r) \in {13, 15} \/ Rm(r) \in {13, 15}
    BY DEF AnySpOrPc
  <2>2. QED
    BY <2>1 DEF Decoding, New, AsrImmediateT2Decoder, Unpredictable, Refuse, When
<1> HIDE DEF d
<1>3. Shaped(i) /\ i.id \in DOMAIN Cases
  BY <1>1, PartsOfCases DEF Shaped, CasesLdrLiteralToAsrImmediate
<1>4. QED
  BY <1>1, <1>2, <1>3 DEF Sound, Formed, Valid, IndexedLoads, Loads, d

LEMMA StrRegisterT2DecoderSound ==
  ASSUME NEW r \in Raw, NEW it, WellCut(r) PROVE Sound(StrRegisterT2Decoder(r, it), it, TRUE)
<1> DEFINE d == StrRegisterT2Decoder(r, it)
           i == d.instr
<1>1. /\ i.id = "kStrRegister"
      /\ i.fields \in [t : Registers, n : Registers, m : Registers, shift_res : Shifts]
      /\ "k32Bit" \in i.flags /\ "kWBack" \notin i.flags /\ "kAdd" \in i.flags
      /\ d.failed \subseteq {"decoder"}
  BY DEF WellCut, CutFields, Registers, Decoding, New, StrRegisterT2Decoder, Unpredictable, Refuse,
        ImmShift, Shifts, When
<1> HIDE DEF d
<1>2. Shaped(i) /\ i.id \in DOMAIN Cases
  BY <1>1, PartsOfCases DEF Shaped, CasesMvnRegisterToDmb
<1>3. QED
  BY <1>1, <1>2 DEF Sound, Formed, Valid, IndexedLoads, Loads, d

LEMMA StrbRegisterT2DecoderSound ==
  ASSUME NEW r \in Raw, NEW it, WellCut(r) PROVE Sound(StrbRegisterT2Decoder(r, it), it, TRUE)
<1> DEFINE d == StrbRegisterT2Decoder(r, it)
           i == d.instr
<1>1. /\ i.id = "kStrbRegister"
      /\ i.fields \in [t : Registers, n : Registers, m : Registers, shift_res : Shifts]
      /\ "k32Bit" \in i.flags /\ "kWBack" \notin i.flags /\ "kAdd" \in i.flags
      /\ d.failed \subseteq {"decoder"}
  BY DEF WellCut, CutFields, Registers, Decoding, New, StrbRegisterT2Decoder, Unpredictable, Refuse,
        ImmShift, Shifts, When
<1> HIDE DEF d
<1>2. Shaped(i) /\ i.id \in DOMAIN Cases
  BY <1>1, PartsOfCases DEF Shaped, CasesMvnRegisterToDmb
<1>3. QED
  BY <1>1, <1>2 DEF Sound, Formed, Valid, IndexedLoads, Loads, d

LEMMA StrhRegisterT2DecoderSound ==
  ASSUME NEW r \in Raw, NEW it, WellCut(r) PROVE Sound(StrhRegisterT2Decoder(r, it), it, TRUE)
<1> DEFINE d == StrhRegisterT2Decoder(r, it)
           i == d.instr
<1>1. /\ i.id = "kStrhRegister"
      /\ i.fields \in [t : Registers, n : Registers, m : Registers, shift_res : Shifts]
      /\ "k32Bit" \in i.flags /\ "kWBack" \notin i.flags /\ "kAdd" \in i.flags
      /\ d.failed \subseteq {"decoder"}
  BY DEF WellCut, CutFields, Registers, Decoding, New, StrhRegisterT2Decoder, Unpredictable, Refuse,
        ImmShift, Shifts, When
<1> HIDE DEF d
<1>2. Shaped(i) /\ i.id \in DOMAIN Cases
  BY <1>1, PartsOfCases DEF Shaped, CasesMvnRegisterToDmb
<1>3. QED
  BY <1>1, <1>2 DEF Sound, Formed, Valid, IndexedLoads, Loads, d

LEMMA LdrRegisterT2DecoderSound ==
  ASSUME NEW r \in Raw, NEW it, WellCut(r) PROVE Sound(LdrRegisterT2Decoder(r, it), it, TRUE)
<1> DEFINE d == LdrRegisterT2Decoder(r, it)
           i == d.instr
<1>1. /\ i.id = "kLdrRegister"
      /\ i.fields \in [t : Registers, n : Registers, m : Registers, shift_res : Shifts]
      /\ "k32Bit" \in i.flags /\ "kWBack" \notin i.flags
      /\ d.failed \subseteq {"decoder"}
  BY DEF WellCut, CutFields, Registers, Decoding, New, LdrRegisterT2Decoder, Unpredictable, Refuse,
        ImmShift, Shifts, When
<1>2. d.status = "kSuccess" /\ d.failed = {} => (MidITBlock(it) => i.fields.t # 15)
  BY DEF Decoding, New, LdrRegisterT2Decoder, Unpredictable, Refuse, When
<1> HIDE DEF d
<1>3. Shaped(i) /\ i.id \in DOMAIN Cases
  BY <1>1, PartsOfCases DEF Shaped, CasesMvnRegisterToDmb
<1>4. QED
  BY <1>1, <1>2, <1>3 DEF Sound, Formed, Valid, IndexedLoads, Loads, d

LEMMA LdrhRegisterT2DecoderSound ==
  ASSUME NEW r \in Raw, NEW it, WellCut(r) PROVE Sound(LdrhRegisterT2Decoder(r, it), it, TRUE)
<1> DEFINE d == LdrhRegisterT2Decoder(r, it)
           i == d.instr
<1>1. /\ i.id = "kLdrhRegister"
      /\ i.fields \in [t : Registers, n : Registers, m : Registers, shift_res : Shifts]
      /\ "k32Bit" \in i.flags /\ "kWBack" \notin i.flags
      /\ d.failed \subseteq {"decoder"}
  BY DEF WellCut, CutFields, Registers, Decoding, New, LdrhRegisterT2Decoder, Unpredictable, Refuse,
        ImmShift, Shifts, When
<1>2. d.status = "kSuccess" /\ d.failed = {} => (MidITBlock(it) => i.fields.t # 15)
  BY DEF Decoding, New, LdrhRegisterT2Decoder, Unpredictable, Refuse, When
<1> HIDE DEF d
<1>3. Shaped(i) /\ i.id \in DOMAIN Cases
  BY <1>1, PartsOfCases DEF Shaped, CasesMvnRegisterToDmb
<1>4. QED
  BY <1>1, <1>2, <1>3 DEF Sound, Formed, Valid, IndexedLoads, Loads, d

LEMMA StrdImmediateT1DecoderSound ==
  ASSUME NEW r \in Raw, NEW it, WellCut(r) PROVE Sound(StrdImmediateT1Decoder(r, it), it, TRUE)
<1> DEFINE d == StrdImmediateT1Decoder(r, it)
           i == d.instr
<1>1. /\ i.id = "kStrdImmediate"
      /\ i.fields \in [t : Registers, t2 : Registers, n : Registers, imm32 : Int]
      /\ "k32Bit" \in i.flags
      /\ d.failed \subseteq {"decoder"}
  BY DEF WellCut, CutFields, Registers, Decoding, New, StrdImmediateT1Decoder, Unpredictable,
        Refuse, IndexFlags, When
<1>2. d.status = "kSuccess" /\ d.failed = {} => ("kWBack" \in i.flags => i.fields.n # 15)
  <2>1. AnySpOrPc({Rt(r), Rd(r)}) <=> Rt(r) \in {13, 15} \/ Rd(r) \in {13, 15}
    BY DEF AnySpOrPc
  <2>2. QED
    BY <2>1 DEF Decoding, New, StrdImmediateT1Decoder, Unpredictable, Refuse, IndexFlags, When
<1> HIDE DEF d
<1>3. Shaped(i) /\ i.id \in DOMAIN Cases
  BY <1>1, PartsOfCases DEF Shaped, CasesMvnRegisterToDmb
<1>4. QED
  BY <1>1, <1>2, <1>3 DEF Sound, Formed, Valid, IndexedLoads, Loads, d

LEMMA StrhImmediateT2DecoderSound ==
  ASSUME NEW r \in Raw, NEW it, WellCut(r) PROVE Sound(StrhImmediateT2Decoder(r, it), it, TRUE)
<1> DEFINE d == StrhImmediateT2Decoder(r, it)
           i == d.instr
<1>1. /\ i.id = "kStrhImmediate"
      /\ i.fields \in [t : Registers, n : Registers, imm32 : Int]
      /\ "k32Bit" \in i.flags /\ "kWBack" \notin i.flags
      /\ d.failed \subseteq {"decoder"}
  BY DEF WellCut, CutFields, Registers, Decoding, New, StrhImmediateT2Decoder, Unpredictable, Refuse, When
<1> HIDE DEF d
<1>2. Shaped(i) /\ i.id \in DOMAIN Cases
  BY <1>1, PartsOfCases DEF Shaped, CasesMvnRegisterToDmb
<1>3. QED
  BY <1>1, <1>2 DEF Sound, Formed, Valid, IndexedLoads, Loads, d

LEMMA StrhImmediateT3DecoderSound ==
  ASSUME NEW r \in Raw, NEW it, WellCut(r) PROVE Sound(StrhImmediateT3Decoder(r, it), it, TRUE)
<1> DEFINE d == StrhImmediateT3Decoder(r, it)
           i == d.instr
<1>1. /\ i.id = "kStrhImmediate"
      /\ i.fields \in [t : Registers, n : Registers, imm32 : Int]
      /\ "k32Bit" \in i.flags
      /\ d.failed \subseteq {"decoder"}
  BY DEF WellCut, CutFields, Registers, Decoding, New, StrhImmediateT3Decoder, Unpredictable,
        Refuse, IndexFlags, When
<1>2. d.status = "kSuccess" /\ d.failed = {} => ("kWBack" \in i.flags => i.fields.n # 15)
  BY DEF Decoding, New, StrhImmediateT3Decoder, Unpredictable, Refuse, IndexFlags, When
<1> HIDE DEF d
<1>3. Shaped(i) /\ i.id \in DOMAIN Cases
  BY <1>1, PartsOfCases DEF Shaped, CasesMvnRegisterToDmb
<1>4. QED
  BY <1>1, <1>2, <1>3 DEF Sound, Formed, Valid, IndexedLoads, Loads, d

LEMMA StrbImmediateT2DecoderSound ==
  ASSUME NEW r \in Raw, NEW it, WellCut(r) PROVE Sound(StrbImmediateT2Decoder(r, it), it, TRUE)
<1> DEFINE d == StrbImmediateT2Decoder(r, it)
           i == d.instr
<1>1. /\ i.id = "kStrbImmediate"
      /\ i.fields \in [t : Registers, n : Registers, imm32 : Int]
      /\ "k32Bit" \in i.flags /\ "kWBack" \notin i.flags
      /\ d.failed \subseteq {"decoder"}
  BY DEF WellCut, CutFields, Registers, Decoding, New, StrbImmediateT2Decoder, Unpredictable, Refuse, When
<1> HIDE DEF d
<1>2. Shaped(i) /\ i.id \in DOMAIN Cases
  BY <1>1, PartsOfCases DEF Shaped, CasesMvnRegisterToDmb
<1>3. QED
  BY <1>1, <1>2 DEF Sound, Formed, Valid, IndexedLoads, Loads, d

LEMMA StrbImmediateT3DecoderSound ==
  ASSUME NEW r \in Raw, NEW it, WellCut(r) PROVE Sound(StrbImmediateT3Decoder(r, it), it, TRUE)
<1> DEFINE d == StrbImmediateT3Decoder(r, it)
           i == d.instr
<1>1. /\ i.id = "kStrbImmediate"
      /\ i.fields \in [t : Registers, n : Registers, imm32 : Int]
      /\ "k32Bit" \in i.flags
      /\ d.failed \subseteq {"decoder"}
  BY DEF WellCut, CutFields, Registers, Decoding, New, StrbImmediateT3Decoder, Unpredictable,
        Refuse, IndexFlags, When
<1>2. d.status = "kSuccess" /\ d.failed = {} => ("kWBack" \in i.flags => i.fields.n # 15)
  BY DEF Decoding, New, StrbImmediateT3Decoder, Unpredictable, Refuse, IndexFlags, When
<1> HIDE DEF d
<1>3. Shaped(i) /\ i.id \in DOMAIN Cases
  BY <1>1, PartsOfCases DEF Shaped, CasesMvnRegisterToDmb
<1>4. QED
  BY <1>1, <1>2, <1>3 DEF Sound, Formed, Valid, IndexedLoads, Loads, d

LEMMA StrImmediateT3DecoderSound ==
  ASSUME NEW r \in Raw, NEW it, WellCut(r) PROVE Sound(StrImmediateT3Decoder(r, it), it, TRUE)
<1> DEFINE d == StrImmediateT3Decoder(r, it)
           i == d.instr
<1>1. /\ i.id = "kStrImmediate"
      /\ i.fields \in [t : Registers, n : Registers, imm32 : Int]
      /\ "k32Bit" \in i.flags /\ "kWBack" \notin i.flags
      /\ d.failed \subseteq {"decoder"}
  BY DEF WellCut, CutFields, Registers, Decoding, New, StrImmediateT3Decoder, Unpredictable, Refuse, When
<1> HIDE DEF d
<1>2. Shaped(i) /\ i.id \in DOMAIN Cases
  BY <1>1, PartsOfCases DEF Shaped, CasesMvnRegisterToDmb
<1>3. QED
  BY <1>1, <1>2 DEF Sound, Formed, Valid, IndexedLoads, Loads, d

LEMMA StrImmediateT4DecoderSound ==
  ASSUME NEW r \in Raw, NEW it, WellCut(r) PROVE Sound(StrImmediateT4Decoder(r, it), it, TRUE)
<1>1. CASE /\ Rn(r) = 13 /\ Bit(r.high, 10) = 1 /\ Bit(r.high, 9) = 0
           /\ Bit(r.high, 8) = 1 /\ Bits(r.high, 7, 0) = 4
  <2>1. StrImmediateT4Decoder(r, it) = PushT3Decoder(r, it)
    BY <1>1 DEF StrImmediateT4Decoder
  <2>2. QED
    BY <2>1, PushT3DecoderSound
<1>2. CASE ~(/\ Rn(r) = 13 /\ Bit(r.high, 10) = 1 /\ Bit(r.high, 9) = 0
             /\ Bit(r.high, 8) = 1 /\ Bits(r.high, 7, 0) = 4)
  <2> DEFINE d == StrImmediateT4Decoder(r, it)
             i == d.instr
  <2>1. /\ i.id = "kStrImmediate"
        /\ i.fields \in [t : Registers, n : Registers, imm32 : Int]
        /\ "k32Bit" \in i.flags
        /\ d.failed \subseteq {"decoder"}
    BY <1>2 DEF WellCut, CutFields, Registers, Decoding, New, StrImmediateT4Decoder, Unpredictable,
          Refuse, IndexFlags, When
  <2>2. d.status = "kSuccess" /\ d.failed = {} => ("kWBack" \in i.flags => i.fields.n # 15)
    BY <1>2 DEF Decoding, New, StrImmediateT4Decoder, Unpredictable, Refuse, IndexFlags, When
  <2> HIDE DEF d
  <2>3. Shaped(i) /\ i.id \in DOMAIN Cases
    BY <2>1, PartsOfCases DEF Shaped, CasesMvnRegisterToDmb
  <2>4. QED
    BY <2>1, <2>2, <2>3 DEF Sound, Formed, Valid, IndexedLoads, Loads, d
<1>3. QED
  BY <1>1, <1>2

LEMMA StrexT1DecoderSound ==
  ASSUME NEW r \in Raw, NEW it, WellCut(r) PROVE Sound(StrexT1Decoder(r, it), it, TRUE)
<1> DEFINE d == StrexT1Decoder(r, it)
           i == d.instr
<1>1. /\ i.id = "kStrex"
      /\ i.fields \in [t : Registers, n : Registers, d : Registers, imm32 : Int]
      /\ "k32Bit" \in i.flags /\ "kWBack" \notin i.flags
      /\ d.failed \subseteq {"decoder"}
  BY DEF WellCut, CutFields, Registers, Decoding, New, StrexT1Decoder, Unpredictable, Refuse, When
<1> HIDE DEF d
<1>2. Shaped(i) /\ i.id \in DOMAIN Cases
  BY <1>1, PartsOfCases DEF Shaped, CasesMvnRegisterToDmb
<1>3. QED
  BY <1>1, <1>2 DEF Sound, Formed, Valid, IndexedLoads, Loads, d

LEMMA MsrT1DecoderSound ==
  ASSUME NEW r \in Raw, NEW it, WellCut(r) PROVE Sound(MsrT1Decoder(r, it), it, TRUE)
<1> DEFINE d == MsrT1Decoder(r, it)
           i == d.instr
<1>1. /\ i.id = "kMsr"
      /\ i.fields \in [n : Registers, mask : Nat, SYSm : Nat]
      /\ "k32Bit" \in i.flags /\ "kWBack" \notin i.flags
      /\ d.failed \subseteq {"decoder"}
  BY DEF WellCut, CutFields, Registers, Decoding, New, MsrT1Decoder, Unpredictable, Refuse, When
<1> HIDE DEF d
<1>2. Shaped(i) /\ i.id \in DOMAIN Cases
  BY <1>1, PartsOfCases DEF Shaped, CasesLdrLiteralToAsrImmediate
<1>3. QED
  BY <1>1, <1>2 DEF Sound, Formed, Valid, IndexedLoads, Loads, d

LEMMA MrsT1DecoderSound ==
  ASSUME NEW r \in Raw, NEW it, WellCut(r) PROVE Sound(MrsT1Decoder(r, it), it, TRUE)
<1> DEFINE d == MrsT1Decoder(r, it)
           i == d.instr
<1>1. /\ i.id = "kMrs"
      /\ i.fields \in [d : Registers, mask : Nat, SYSm : Nat]
      /\ "k32Bit" \in i.flags
      /\ d.failed \subseteq {"decoder"}
  BY DEF WellCut, CutFields, Registers, Decoding, New, MrsT1Decoder, Unpredictable, Refuse, When
<1>2. d.status = "kSuccess" /\ d.failed = {} => i.fields.d # 15
  BY DEF WellCut, CutFields, Registers, Decoding, New, MrsT1Decoder, Unpredictable, Refuse, When
<1> HIDE DEF d
<1>3. Shaped(i) /\ i.id \in DOMAIN Cases
  BY <1>1, PartsOfCases DEF Shaped, CasesLdrLiteralToAsrImmediate
<1>4. QED
  BY <1>1, <1>2, <1>3 DEF Sound, Formed, Valid, IndexedLoads, Loads, d

------------------------------------------------------------------------------
(* The splitters *)

LEMMA RefusedSound ==
  ASSUME NEW it, NEW wide, NEW status, status # "kSuccess" PROVE Sound(Failed(status), it, wide)
  BY DEF Sound, Failed, Decoding, When

LEMMA Splitter16bit_op00000Sound ==
  ASSUME NEW r \in Raw, NEW it, WellCut(r) PROVE Sound(Splitter16bit_op00000(r, it), it, FALSE)
<1>1. Sound(UnknownOpCode, it, FALSE)
  BY RefusedSound DEF UnknownOpCode
<1>2. QED
  BY <1>1, MovRegisterT2DecoderSound, LslImmediateT1DecoderSound DEF Splitter16bit_op00000

LEMMA Splitter16bit_op00011Sound ==
  ASSUME NEW r \in Raw, NEW it, WellCut(r) PROVE Sound(Splitter16bit_op00011(r, it), it, FALSE)
<1>1. Sound(UnknownOpCode, it, FALSE)
  BY RefusedSound DEF UnknownOpCode
<1>2. QED
  BY <1>1, AddRegisterT1DecoderSound, AddImmediateT1DecoderSound, SubRegisterT1DecoderSound,
     SubImmediateT1DecoderSound DEF Splitter16bit_op00011

LEMMA Splitter16bit_op01010Sound ==
  ASSUME NEW r \in Raw, NEW it, WellCut(r) PROVE Sound(Splitter16bit_op01010(r, it), it, FALSE)
<1>1. Sound(UnknownOpCode, it, FALSE)
  BY RefusedSound DEF UnknownOpCode
<1>2. QED
  BY <1>1, StrRegisterT1DecoderSound, StrbRegisterT1DecoderSound DEF Splitter16bit_op01010

LEMMA Splitter16bit_op10111Sound ==
  ASSUME NEW r \in Raw, NEW it, WellCut(r) PROVE Sound(Splitter16bit_op10111(r, it), it, FALSE)
<1>1. Sound(UnknownOpCode, it, FALSE)
  BY RefusedSound DEF UnknownOpCode
<1>2. QED
  BY <1>1, CbNZT1DecoderSound, PopT1DecoderSound, BkptT1DecoderSound, ItT1DecoderSound,
     NopT1DecoderSound DEF Splitter16bit_op10111

LEMMA Splitter16bit_op10110Sound ==
  ASSUME NEW r \in Raw, NEW it, WellCut(r) PROVE Sound(Splitter16bit_op10110(r, it), it, FALSE)
<1>1. Sound(UnknownOpCode, it, FALSE)
  BY RefusedSound DEF UnknownOpCode
<1>2. QED
  BY <1>1, AddSpPlusImmediateT2DecoderSound, SubSpMinusImmediateT1DecoderSound, CbNZT1DecoderSound,
     SxtbT1DecoderSound, UxtbT1DecoderSound, UxthT1DecoderSound, SxthT1DecoderSound,
     PushT1DecoderSound DEF Splitter16bit_op10110

LEMMA SpecialDataSound ==
  ASSUME NEW r \in Raw, NEW it, WellCut(r) PROVE Sound(SpecialData(r, it), it, FALSE)
<1>1. \/ Bits(r.low, 9, 8) = 0 \/ Bits(r.low, 9, 8) = 1
      \/ Bits(r.low, 9, 8) = 2 \/ Bits(r.low, 9, 8) = 3
  BY DEF Raw, Bits
<1>2. QED
  BY <1>1, AddRegisterT2DecoderSound, MovRegisterT1DecoderSound, CmpRegisterT2DecoderSound, BxT1DecoderSound,
     BlxT1DecoderSound DEF SpecialData

LEMMA DataProcessing16Sound ==
  ASSUME NEW r \in Raw, NEW it, WellCut(r) PROVE Sound(DataProcessing16(r, it), it, FALSE)
<1>1. Sound(UnknownOpCode, it, FALSE)
  BY RefusedSound DEF UnknownOpCode
<1>2. QED
  BY <1>1, AndRegisterT1DecoderSound, EorRegisterT1DecoderSound, LslRegisterT1DecoderSound,
     LsrRegisterT1DecoderSound, AsrRegisterT1DecoderSound, AdcRegisterT1DecoderSound,
     TstRegisterT1DecoderSound, RsbImmediateT1DecoderSound, CmpRegisterT1DecoderSound,
     OrrRegisterT1DecoderSound, BicRegisterT1DecoderSound DEF DataProcessing16

LEMMA Splitter16bit_op01000Sound ==
  ASSUME NEW r \in Raw, NEW it, WellCut(r) PROVE Sound(Splitter16bit_op01000(r, it), it, FALSE)
  BY SpecialDataSound, DataProcessing16Sound DEF Splitter16bit_op01000

LEMMA Splitter16bit_op01011Sound ==
  ASSUME NEW r \in Raw, NEW it, WellCut(r) PROVE Sound(Splitter16bit_op01011(r, it), it, FALSE)
<1>1. Sound(UnknownOpCode, it, FALSE)
  BY RefusedSound DEF UnknownOpCode
<1>2. QED
  BY <1>1, LdrRegisterT1DecoderSound, LdrbRegisterT1DecoderSound DEF Splitter16bit_op01011

LEMMA Splitter16bit_op01101Sound ==
  ASSUME NEW r \in Raw, NEW it, WellCut(r) PROVE Sound(Splitter16bit_op01101(r, it), it, FALSE)
<1>1. Sound(UnknownOpCode, it, FALSE)
  BY RefusedSound DEF UnknownOpCode
<1>2. QED
  BY <1>1, LdrImmediateT1DecoderSound DEF Splitter16bit_op01101

LEMMA Splitter16bit_op11011Sound ==
  ASSUME NEW r \in Raw, NEW it, WellCut(r) PROVE Sound(Splitter16bit_op11011(r, it), it, FALSE)
<1>1. Sound(UnknownOpCode, it, FALSE)
  BY RefusedSound DEF UnknownOpCode
<1>2. QED
  BY <1>1, BT1DecoderSound, SvcT1DecoderSound DEF Splitter16bit_op11011

LEMMA MoveAndShiftSound ==
  ASSUME NEW r \in Raw, NEW it, WellCut(r) PROVE Sound(MoveAndShift(r, it), it, TRUE)
<1>1. Sound(UnknownOpCode, it, TRUE)
  BY RefusedSound DEF UnknownOpCode
<1>2. QED
  BY <1>1, MovRegisterT3DecoderSound, LslImmediateT2DecoderSound, LsrImmediateT2DecoderSound,
     AsrImmediateT2DecoderSound, RrxT1DecoderSound DEF MoveAndShift

LEMMA ShiftedRegisterSound ==
  ASSUME NEW r \in Raw, NEW it, WellCut(r) PROVE Sound(ShiftedRegister(r, it), it, TRUE)
<1>1. Sound(UnknownOpCode, it, TRUE) /\ Sound(Failed("kDecoderUnpredictable"), it, TRUE)
  BY RefusedSound DEF UnknownOpCode
<1>2. QED
  BY <1>1, AndRegisterT2DecoderSound, BicRegisterT2DecoderSound, MvnRegisterT2DecoderSound,
     AddRegisterT3DecoderSound, RsbRegisterT1DecoderSound, MoveAndShiftSound,
     OrrRegisterT2DecoderSound, EorRegisterT2DecoderSound, TeqRegisterT1DecoderSound,
     SubRegisterT2DecoderSound, AdcRegisterT2DecoderSound, SbcRegisterT2DecoderSound,
     CmpRegisterT3DecoderSound DEF ShiftedRegister

LEMMA LoadStoreMultipleSound ==
  ASSUME NEW r \in Raw, NEW it, WellCut(r) PROVE Sound(LoadStoreMultiple(r, it), it, TRUE)
<1>1. Sound(UnknownOpCode, it, TRUE)
  BY RefusedSound DEF UnknownOpCode
<1>2. QED
  BY <1>1, PushT2DecoderSound, StmdbT1DecoderSound, StmT2DecoderSound, LdmT2DecoderSound,
     PopT2DecoderSound DEF LoadStoreMultiple

LEMMA DualExclusiveTableSound ==
  ASSUME NEW r \in Raw, NEW it, WellCut(r) PROVE Sound(DualExclusiveTable(r, it), it, TRUE)
<1>1. Sound(UnknownOpCode, it, TRUE)
  BY RefusedSound DEF UnknownOpCode
<1>2. QED
  BY <1>1, StrdImmediateT1DecoderSound, LdrdImmediateT1DecoderSound, StrexT1DecoderSound,
     LdrexT1DecoderSound, TbbHT1DecoderSound DEF DualExclusiveTable

LEMMA Splitter32bit_op11101Sound ==
  ASSUME NEW r \in Raw, NEW it, WellCut(r) PROVE Sound(Splitter32bit_op11101(r, it), it, TRUE)
<1>1. Sound(UnknownOpCode, it, TRUE)
  BY RefusedSound DEF UnknownOpCode
<1>2. QED
  BY <1>1, ShiftedRegisterSound, LoadStoreMultipleSound,
     DualExclusiveTableSound DEF Splitter32bit_op11101

LEMMA BranchesAndControlSound ==
  ASSUME NEW r \in Raw, NEW it, WellCut(r) PROVE Sound(BranchesAndControl(r, it), it, TRUE)
<1>1. Sound(UnknownOpCode, it, TRUE)
  BY RefusedSound DEF UnknownOpCode
<1>2. QED
  BY <1>1, BT4DecoderSound, BlT1DecoderSound, BT3DecoderSound, MsrT1DecoderSound, MrsT1DecoderSound,
     DmbT1DecoderSound DEF BranchesAndControl

LEMMA ModifiedImmediateSound ==
  ASSUME NEW r \in Raw, NEW it, WellCut(r) PROVE Sound(ModifiedImmediate(r, it), it, TRUE)
<1>1. Sound(UnknownOpCode, it, TRUE)
  BY RefusedSound DEF UnknownOpCode
<1>2. QED
  BY <1>1, TstImmediateT1DecoderSound, AndImmediateT1DecoderSound, BicImmediateT1DecoderSound,
     OrrImmediateT1DecoderSound, MovImmediateT2DecoderSound, MvnImmediateT1DecoderSound,
     EorImmediateT1DecoderSound, TeqImmediateT1DecoderSound, AddImmediateT3DecoderSound,
     CmnImmediateT1DecoderSound, AdcImmediateT1DecoderSound, SbcImmediateT1DecoderSound,
     SubImmediateT3DecoderSound, CmpImmediateT2DecoderSound,
     RsbImmediateT2DecoderSound DEF ModifiedImmediate

LEMMA PlainImmediateSound ==
  ASSUME NEW r \in Raw, NEW it, WellCut(r) PROVE Sound(PlainImmediate(r, it), it, TRUE)
<1>1. Sound(UnknownOpCode, it, TRUE)
  BY RefusedSound DEF UnknownOpCode
<1>2. QED
  BY <1>1, MovImmediateT3DecoderSound, AddImmediateT4DecoderSound, SubImmediateT4DecoderSound,
     BfiT1DecoderSound, UbfxT1DecoderSound DEF PlainImmediate

LEMMA Splitter32bit_op11110Sound ==
  ASSUME NEW r \in Raw, NEW it, WellCut(r) PROVE Sound(Splitter32bit_op11110(r, it), it, TRUE)
  BY BranchesAndControlSound, ModifiedImmediateSound, PlainImmediateSound DEF Splitter32bit_op11110

LEMMA StoreSingleSound ==
  ASSUME NEW r \in Raw, NEW it, WellCut(r) PROVE Sound(StoreSingle(r, it), it, TRUE)
<1>1. Sound(UnknownOpCode, it, TRUE)
  BY RefusedSound DEF UnknownOpCode
<1>2. QED
  BY <1>1, StrbImmediateT2DecoderSound, StrhImmediateT2DecoderSound, StrImmediateT3DecoderSound,
     StrbImmediateT3DecoderSound, StrhImmediateT3DecoderSound, StrImmediateT4DecoderSound,
     StrbRegisterT2DecoderSound, StrhRegisterT2DecoderSound,
     StrRegisterT2DecoderSound DEF StoreSingle

LEMMA LoadByteSound ==
  ASSUME NEW r \in Raw, NEW it, WellCut(r) PROVE Sound(LoadByte(r, it), it, TRUE)
<1>1. Sound(UnknownOpCode, it, TRUE)
  BY RefusedSound DEF UnknownOpCode
<1>2. CASE Rn(r) = 15 \/ Rt(r) = 15
  BY <1>1, <1>2 DEF LoadByte
<1>3. CASE Rn(r) # 15 /\ Rt(r) # 15
  BY <1>1, <1>3, LdrbImmediateT2DecoderSound, LdrbImmediateT3DecoderSound,
     LdrsbImmediateT1DecoderSound DEF LoadByte
<1>4. QED
  BY <1>2, <1>3

LEMMA LoadHalfwordSound ==
  ASSUME NEW r \in Raw, NEW it, WellCut(r) PROVE Sound(LoadHalfword(r, it), it, TRUE)
<1>1. Sound(UnknownOpCode, it, TRUE)
  BY RefusedSound DEF UnknownOpCode
<1>2. CASE Rn(r) = 15 \/ Rt(r) = 15
  BY <1>1, <1>2 DEF LoadHalfword
<1>3. CASE Rn(r) # 15 /\ Rt(r) # 15
  BY <1>1, <1>3, LdrhImmediateT2DecoderSound, LdrhRegisterT2DecoderSound,
     LdrshImmediateT1DecoderSound, LdrhImmediateT3DecoderSound,
     LdrshImmediateT2DecoderSound DEF LoadHalfword
<1>4. QED
  BY <1>2, <1>3

LEMMA LoadWordSound ==
  ASSUME NEW r \in Raw, NEW it, WellCut(r) PROVE Sound(LoadWord(r, it), it, TRUE)
<1>1. Sound(UnknownOpCode, it, TRUE)
  BY RefusedSound DEF UnknownOpCode
<1>2. QED
  BY <1>1, LdrLiteralT2DecoderSound, LdrImmediateT3DecoderSound, LdrImmediateT4DecoderSound,
     LdrRegisterT2DecoderSound DEF LoadWord

LEMMA DataProcessingRegisterSound ==
  ASSUME NEW r \in Raw, NEW it, WellCut(r) PROVE Sound(DataProcessingRegister(r, it), it, TRUE)
<1>1. Sound(UnknownOpCode, it, TRUE)
  BY RefusedSound DEF UnknownOpCode
<1>2. QED
  BY <1>1, LslRegisterT2DecoderSound, LsrRegisterT2DecoderSound, AsrRegisterT2DecoderSound,
     UxthT2DecoderSound, SxtbT2DecoderSound, SxthT2DecoderSound, UxtbT2DecoderSound,
     ClzT1DecoderSound DEF DataProcessingRegister

LEMMA MultiplySound ==
  ASSUME NEW r \in Raw, NEW it, WellCut(r) PROVE Sound(Multiply(r, it), it, TRUE)
<1>1. Sound(UnknownOpCode, it, TRUE)
  BY RefusedSound DEF UnknownOpCode
<1>2. QED
  BY <1>1, MulT2DecoderSound, MlaT1DecoderSound, MlsT1DecoderSound DEF Multiply

LEMMA LongMultiplySound ==
  ASSUME NEW r \in Raw, NEW it, WellCut(r) PROVE Sound(LongMultiply(r, it), it, TRUE)
<1>1. Sound(UnknownOpCode, it, TRUE)
  BY RefusedSound DEF UnknownOpCode
<1>2. QED
  BY <1>1, UmullT1DecoderSound, SmullT1DecoderSound, UdivT1DecoderSound, SdivT1DecoderSound,
     UmlalT1DecoderSound DEF LongMultiply

LEMMA Splitter32bit_op11111Sound ==
  ASSUME NEW r \in Raw, NEW it, WellCut(r) PROVE Sound(Splitter32bit_op11111(r, it), it, TRUE)
<1>1. Sound(UnknownOpCode, it, TRUE)
  BY RefusedSound DEF UnknownOpCode
<1>2. QED
  BY <1>1, StoreSingleSound, LoadByteSound, LoadHalfwordSound, LoadWordSound,
     DataProcessingRegisterSound, MultiplySound, LongMultiplySound DEF Splitter32bit_op11111

\* The decoders of one halfword.
LEMMA SoundNarrow ==
  ASSUME NEW r \in Raw, NEW it, ~TwoHalfwords(r)
  PROVE  Sound(call_decoder(r, it), it, FALSE)
<1> DEFINE opc == Bits(r.low, 15, 11)
<1>1. WellCut(r)
  BY Pieces
<1>2. opc \in 0 .. 28
  BY DEF Raw, Bits, TwoHalfwords
<1>3. CASE opc = 0
  <2>1. call_decoder(r, it) = Splitter16bit_op00000(r, it)
    BY <1>3, SMT DEF call_decoder
  <2>2. Sound(Splitter16bit_op00000(r, it), it, FALSE)
    BY <1>1, Splitter16bit_op00000Sound
  <2>3. QED
    BY <2>1, <2>2, Zenon
<1>4. CASE opc = 1
  <2>1. call_decoder(r, it) = LsrImmediateT1Decoder(r, it)
    BY <1>4, SMT DEF call_decoder
  <2>2. Sound(LsrImmediateT1Decoder(r, it), it, FALSE)
    BY <1>1, LsrImmediateT1DecoderSound
  <2>3. QED
    BY <2>1, <2>2, Zenon
<1>5. CASE opc = 2
  <2>1. call_decoder(r, it) = AsrImmediateT1Decoder(r, it)
    BY <1>5, SMT DEF call_decoder
  <2>2. Sound(AsrImmediateT1Decoder(r, it), it, FALSE)
    BY <1>1, AsrImmediateT1DecoderSound
  <2>3. QED
    BY <2>1, <2>2, Zenon
<1>6. CASE opc = 3
  <2>1. call_decoder(r, it) = Splitter16bit_op00011(r, it)
    BY <1>6, SMT DEF call_decoder
  <2>2. Sound(Splitter16bit_op00011(r, it), it, FALSE)
    BY <1>1, Splitter16bit_op00011Sound
  <2>3. QED
    BY <2>1, <2>2, Zenon
<1>7. CASE opc = 4
  <2>1. call_decoder(r, it) = MovImmediateT1Decoder(r, it)
    BY <1>7, SMT DEF call_decoder
  <2>2. Sound(MovImmediateT1Decoder(r, it), it, FALSE)
    BY <1>1, MovImmediateT1DecoderSound
  <2>3. QED
    BY <2>1, <2>2, Zenon
<1>8. CASE opc = 5
  <2>1. call_decoder(r, it) = CmpImmediateT1Decoder(r, it)
    BY <1>8, SMT DEF call_decoder
  <2>2. Sound(CmpImmediateT1Decoder(r, it), it, FALSE)
    BY <1>1, CmpImmediateT1DecoderSound
  <2>3. QED
    BY <2>1, <2>2, Zenon
<1>9. CASE opc = 6
  <2>1. call_decoder(r, it) = AddImmediateT2Decoder(r, it)
    BY <1>9, SMT DEF call_decoder
  <2>2. Sound(AddImmediateT2Decoder(r, it), it, FALSE)
    BY <1>1, AddImmediateT2DecoderSound
  <2>3. QED
    BY <2>1, <2>2, Zenon
<1>10. CASE opc = 7
  <2>1. call_decoder(r, it) = SubImmediateT2Decoder(r, it)
    BY <1>10, SMT DEF call_decoder
  <2>2. Sound(SubImmediateT2Decoder(r, it), it, FALSE)
    BY <1>1, SubImmediateT2DecoderSound
  <2>3. QED
    BY <2>1, <2>2, Zenon
<1>11. CASE opc = 8
  <2>1. call_decoder(r, it) = Splitter16bit_op01000(r, it)
    BY <1>11, SMT DEF call_decoder
  <2>2. Sound(Splitter16bit_op01000(r, it), it, FALSE)
    BY <1>1, Splitter16bit_op01000Sound
  <2>3. QED
    BY <2>1, <2>2, Zenon
<1>12. CASE opc = 9
  <2>1. call_decoder(r, it) = LdrLiteralT1Decoder(r, it)
    BY <1>12, SMT DEF call_decoder
  <2>2. Sound(LdrLiteralT1Decoder(r, it), it, FALSE)
    BY <1>1, LdrLiteralT1DecoderSound
  <2>3. QED
    BY <2>1, <2>2, Zenon
<1>13. CASE opc = 10
  <2>1. call_decoder(r, it) = Splitter16bit_op01010(r, it)
    BY <1>13, SMT DEF call_decoder
  <2>2. Sound(Splitter16bit_op01010(r, it), it, FALSE)
    BY <1>1, Splitter16bit_op01010Sound
  <2>3. QED
    BY <2>1, <2>2, Zenon
<1>14. CASE opc = 11
  <2>1. call_decoder(r, it) = Splitter16bit_op01011(r, it)
    BY <1>14, SMT DEF call_decoder
  <2>2. Sound(Splitter16bit_op01011(r, it), it, FALSE)
    BY <1>1, Splitter16bit_op01011Sound
  <2>3. QED
    BY <2>1, <2>2, Zenon
<1>15. CASE opc = 12
  <2>1. call_decoder(r, it) = StrImmediateT1Decoder(r, it)
    BY <1>15, SMT DEF call_decoder
  <2>2. Sound(StrImmediateT1Decoder(r, it), it, FALSE)
    BY <1>1, StrImmediateT1DecoderSound
  <2>3. QED
    BY <2>1, <2>2, Zenon
<1>16. CASE opc = 13
  <2>1. call_decoder(r, it) = Splitter16bit_op01101(r, it)
    BY <1>16, SMT DEF call_decoder
  <2>2. Sound(Splitter16bit_op01101(r, it), it, FALSE)
    BY <1>1, Splitter16bit_op01101Sound
  <2>3. QED
    BY <2>1, <2>2, Zenon
<1>17. CASE opc = 14
  <2>1. call_decoder(r, it) = StrbImmediateT1Decoder(r, it)
    BY <1>17, SMT DEF call_decoder
  <2>2. Sound(StrbImmediateT1Decoder(r, it), it, FALSE)
    BY <1>1, StrbImmediateT1DecoderSound
  <2>3. QED
    BY <2>1, <2>2, Zenon
<1>18. CASE opc = 15
  <2>1. call_decoder(r, it) = LdrbImmediateT1Decoder(r, it)
    BY <1>18, SMT DEF call_decoder
  <2>2. Sound(LdrbImmediateT1Decoder(r, it), it, FALSE)
    BY <1>1, LdrbImmediateT1DecoderSound
  <2>3. QED
    BY <2>1, <2>2, Zenon
<1>19. CASE opc = 16
  <2>1. call_decoder(r, it) = StrhImmediateT1Decoder(r, it)
    BY <1>19, SMT DEF call_decoder
  <2>2. Sound(StrhImmediateT1Decoder(r, it), it, FALSE)
    BY <1>1, StrhImmediateT1DecoderSound
  <2>3. QED
    BY <2>1, <2>2, Zenon
<1>20. CASE opc = 17
  <2>1. call_decoder(r, it) = LdrhImmediateT1Decoder(r, it)
    BY <1>20, SMT DEF call_decoder
  <2>2. Sound(LdrhImmediateT1Decoder(r, it), it, FALSE)
    BY <1>1, LdrhImmediateT1DecoderSound
  <2>3. QED
    BY <2>1, <2>2, Zenon
<1>21. CASE opc = 18
  <2>1. call_decoder(r, it) = StrImmediateT2Decoder(r, it)
    BY <1>21, SMT DEF call_decoder
  <2>2. Sound(StrImmediateT2Decoder(r, it), it, FALSE)
    BY <1>1, StrImmediateT2DecoderSound
  <2>3. QED
    BY <2>1, <2>2, Zenon
<1>22. CASE opc = 19
  <2>1. call_decoder(r, it) = LdrImmediateT2Decoder(r, it)
    BY <1>22, SMT DEF call_decoder
  <2>2. Sound(LdrImmediateT2Decoder(r, it), it, FALSE)
    BY <1>1, LdrImmediateT2DecoderSound
  <2>3. QED
    BY <2>1, <2>2, Zenon
<1>23. CASE opc = 20
  <2>1. call_decoder(r, it) = AddPcPlusImmediateT1Decoder(r, it)
    BY <1>23, SMT DEF call_decoder
  <2>2. Sound(AddPcPlusImmediateT1Decoder(r, it), it, FALSE)
    BY <1>1, AddPcPlusImmediateT1DecoderSound
  <2>3. QED
    BY <2>1, <2>2, Zenon
<1>24. CASE opc = 21
  <2>1. call_decoder(r, it) = AddSpPlusImmediateT1Decoder(r, it)
    BY <1>24, SMT DEF call_decoder
  <2>2. Sound(AddSpPlusImmediateT1Decoder(r, it), it, FALSE)
    BY <1>1, AddSpPlusImmediateT1DecoderSound
  <2>3. QED
    BY <2>1, <2>2, Zenon
<1>25. CASE opc = 22
  <2>1. call_decoder(r, it) = Splitter16bit_op10110(r, it)
    BY <1>25, SMT DEF call_decoder
  <2>2. Sound(Splitter16bit_op10110(r, it), it, FALSE)
    BY <1>1, Splitter16bit_op10110Sound
  <2>3. QED
    BY <2>1, <2>2, Zenon
<1>26. CASE opc = 23
  <2>1. call_decoder(r, it) = Splitter16bit_op10111(r, it)
    BY <1>26, SMT DEF call_decoder
  <2>2. Sound(Splitter16bit_op10111(r, it), it, FALSE)
    BY <1>1, Splitter16bit_op10111Sound
  <2>3. QED
    BY <2>1, <2>2, Zenon
<1>27. CASE opc = 24
  <2>1. call_decoder(r, it) = StmT1Decoder(r, it)
    BY <1>27, SMT DEF call_decoder
  <2>2. Sound(StmT1Decoder(r, it), it, FALSE)
    BY <1>1, StmT1DecoderSound
  <2>3. QED
    BY <2>1, <2>2, Zenon
<1>28. CASE opc = 25
  <2>1. call_decoder(r, it) = LdmT1Decoder(r, it)
    BY <1>28, SMT DEF call_decoder
  <2>2. Sound(LdmT1Decoder(r, it), it, FALSE)
    BY <1>1, LdmT1DecoderSound
  <2>3. QED
    BY <2>1, <2>2, Zenon
<1>29. CASE opc = 26
  <2>1. call_decoder(r, it) = BT1Decoder(r, it)
    BY <1>29, SMT DEF call_decoder
  <2>2. Sound(BT1Decoder(r, it), it, FALSE)
    BY <1>1, BT1DecoderSound
  <2>3. QED
    BY <2>1, <2>2, Zenon
<1>30. CASE opc = 27
  <2>1. call_decoder(r, it) = Splitter16bit_op11011(r, it)
    BY <1>30, SMT DEF call_decoder
  <2>2. Sound(Splitter16bit_op11011(r, it), it, FALSE)
    BY <1>1, Splitter16bit_op11011Sound
  <2>3. QED
    BY <2>1, <2>2, Zenon
<1>31. CASE opc = 28
  <2>1. call_decoder(r, it) = BT2Decoder(r, it)
    BY <1>31, SMT DEF call_decoder
  <2>2. Sound(BT2Decoder(r, it), it, FALSE)
    BY <1>1, BT2DecoderSound
  <2>3. QED
    BY <2>1, <2>2, Zenon
<1> HIDE DEF opc
<1>32. opc \in {0, 1, 2, 3, 4, 5, 6, 7, 8, 9, 10, 11, 12, 13, 14,
         15, 16, 17, 18, 19, 20, 21, 22, 23, 24, 25, 26, 27, 28}
  BY <1>2
<1>33. QED
  BY <1>32, <1>3, <1>4, <1>5, <1>6, <1>7, <1>8, <1>9, <1>10, <1>11, <1>12, <1>13, <1>14, <1>15,
     <1>16, <1>17, <1>18, <1>19, <1>20, <1>21, <1>22, <1>23, <1>24, <1>25, <1>26, <1>27, <1>28,
     <1>29, <1>30, <1>31, Zenon

\* The decoders of two.
LEMMA SoundWide ==
  ASSUME NEW r \in Raw, NEW it, TwoHalfwords(r)
  PROVE  Sound(call_decoder(r, it), it, TRUE)
<1> DEFINE opc == Bits(r.low, 15, 11)
<1>1. WellCut(r)
  BY Pieces
<1>2. opc \in {29, 30, 31}
  BY DEF TwoHalfwords
<1> HIDE DEF opc
<1>3. /\ opc = 29 => call_decoder(r, it) = Splitter32bit_op11101(r, it)
      /\ opc = 30 => call_decoder(r, it) = Splitter32bit_op11110(r, it)
      /\ opc = 31 => call_decoder(r, it) = Splitter32bit_op11111(r, it)
  BY DEF call_decoder, opc
<1>4. QED
  BY <1>1, <1>2, <1>3, Splitter32bit_op11101Sound, Splitter32bit_op11110Sound,
     Splitter32bit_op11111Sound

------------------------------------------------------------------------------
(* The table of the executor *)

\* For each class, the instructions with a case that it executes, and its operations.
Fits(id, c) ==
    /\ c.class = "UnaryLoadInstrImm" =>
           /\ id \in {"kLdrLiteral"}
           /\ c.op \in {"LoadMemU32"}
    /\ c.class = "UnaryInstr" =>
           /\ id \in {"kClz", "kMovRegister", "kRrx"}
           /\ c.op \in {"Clz1Op", "Mov1Op", "Rrx1Op"}
    /\ c.class = "BinaryLoadInstrWithImm" =>
           /\ id \in {"kLdrsbImmediate", "kLdrbImmediate", "kLdrImmediate", "kLdrex",
                      "kLdrhImmediate", "kLdrshImmediate"}
           /\ c.op \in {"LoadMemI8", "LoadMemU8", "LoadMemU32", "LoadMemExU32", "LoadMemU16",
                        "LoadMemI16"}
    /\ c.class = "Binary64bitInstr" =>
           /\ id \in {"kUmull", "kUmlal", "kSmull"}
           /\ c.op \in {"Umull2Op", "Umlal2Op", "Smull2Op"}
    /\ c.class = "Msr" =>
           /\ id \in {"kMsr"}
    /\ c.class = "Mrs" =>
           /\ id \in {"kMrs"}
    /\ c.class = "Ldrd" =>
           /\ id \in {"kLdrdImmediate"}
    /\ c.class = "BinaryInstrWithShift" =>
           /\ id \in {"kAsrImmediate", "kLslImmediate", "kMvnRegister", "kLsrImmediate"}
           /\ c.op \in {"Asr1ShiftOp", "Lsl1ShiftOp", "Mvn1ShiftOp", "Lsr1ShiftOp"}
    /\ c.class = "BinaryInstr" =>
           /\ id \in {"kLsrRegister", "kAsrRegister", "kLslRegister", "kUdiv", "kSdiv", "kMul"}
           /\ c.op \in {"Lsr2Op", "Asr2Op", "Lsl2Op", "UDiv2Op", "SDiv2Op", "Mul2Op"}
    /\ c.class = "TernaryNullInstrWithShift" =>
           /\ id \in {"kCmpRegister", "kTstRegister", "kTeqRegister"}
           /\ c.op \in {"Cmp2ShiftOp", "Tst2ShiftOp", "Teq2ShiftOp"}
    /\ c.class = "BinaryNullInstrWithImm" =>
           /\ id \in {"kCmpImmediate", "kCmnImmediate"}
           /\ c.op \in {"Cmp1ImmOp", "Cmn1ImmOp"}
    /\ c.class = "ItInstr" =>
           /\ id \in {"kIt"}
    /\ c.class = "UnaryInstrImmCarry" =>
           /\ id \in {"kMovImmediate", "kMvnImmediate"}
           /\ c.op \in {"MovImmCarryOp", "MvnImmCarryOp"}
    /\ c.class = "BinaryInstrWithRotation" =>
           /\ id \in {"kUxtb", "kSxtb", "kSxth", "kUxth"}
           /\ c.op \in {"Uxtb1Rotation", "Sxtb1Rotation", "Sxth1Rotation", "Uxth1Rotation"}
    /\ c.class = "BCond" =>
           /\ id \in {"kBCond"}
    /\ c.class = "BinaryBranchInstr" =>
           /\ id \in {"kTbbH"}
           /\ c.op \in {"TbbH2Op"}
    /\ c.class = "UnaryBranchInstrImm" =>
           /\ id \in {"kB", "kBl"}
           /\ c.op \in {"B1ImmOp", "Bl1ImmOp"}
    /\ c.class = "BinaryBranchInstrWithImm" =>
           /\ id \in {"kCbNZ"}
           /\ c.op \in {"CbNZ1ImmOp"}
    /\ c.class = "UnaryBranchInstr" =>
           /\ id \in {"kBx", "kBlx"}
           /\ c.op \in {"Bx1Op", "Blx1Op"}
    /\ c.class = "BinaryInstrWithImm" =>
           /\ id \in {"kSubImmediate", "kSbcImmediate", "kRsbImmediate", "kSubSpMinusImmediate",
                      "kAddImmediate", "kAdcImmediate", "kAddSpPlusImmediate"}
           /\ c.op \in {"Sub1ImmOp", "Sbc1ImmOp", "Rsb1ImmOp", "Add1ImmOp", "Adc1ImmOp"}
    /\ c.class = "UnaryInstrImm" =>
           /\ id \in {"kAddPcPlusImmediate"}
           /\ c.op \in {"AddToPcImmOp"}
    /\ c.class = "BinaryNullInstrWithImmCarry" =>
           /\ id \in {"kTeqImmediate", "kTstImmediate"}
           /\ c.op \in {"Teq1ImmCarryOp", "Tst1ImmCarryOp"}
    /\ c.class = "BinaryInstrWithImmCarry" =>
           /\ id \in {"kEorImmediate", "kOrrImmediate", "kAndImmediate", "kBicImmediate"}
           /\ c.op \in {"Eor1ImmCarryOp", "Orr1ImmCarryOp", "And1ImmCarryOp", "Bic1ImmCarryOp"}
    /\ c.class = "Ubfx" =>
           /\ id \in {"kUbfx"}
    /\ c.class = "Bfi" =>
           /\ id \in {"kBfi"}
    /\ c.class = "TernaryInstr" =>
           /\ id \in {"kMls", "kMla"}
           /\ c.op \in {"Mls3Op", "Mla3Op"}
    /\ c.class = "TernaryInstrWithShift" =>
           /\ id \in {"kSubRegister", "kRsbRegister", "kAdcRegister", "kAddRegister",
                      "kOrrRegister", "kSbcRegister", "kEorRegister", "kAndRegister",
                      "kBicRegister"}
           /\ c.op \in {"Sub2ShiftOp", "Rsb2ShiftOp", "Adc2ShiftOp", "Add2ShiftOp",
                        "Orr2ShiftOp", "Sbc2ShiftOp", "Eor2ShiftOp", "And2ShiftOp", "Bic2ShiftOp"}
    /\ c.class = "VariadicStoreInstrDb" =>
           /\ id \in {"kPush"}
    /\ c.class = "VariadicStoreInstr" =>
           /\ id \in {"kStm"}
    /\ c.class = "VariadicLoadInstr" =>
           /\ id \in {"kLdm", "kPop"}
    /\ c.class = "Strd" =>
           /\ id \in {"kStrdImmediate"}
    /\ c.class = "TernaryStoreInstrWithShift" =>
           /\ id \in {"kStrRegister", "kStrbRegister", "kStrhRegister"}
           /\ c.op \in {"StoreMemU32", "StoreMemU8", "StoreMemU16"}
    /\ c.class = "TernaryLoadInstrWithShift" =>
           /\ id \in {"kLdrhRegister", "kLdrbRegister", "kLdrRegister"}
           /\ c.op \in {"LoadMemU16", "LoadMemU8", "LoadMemU32"}
    /\ c.class = "BinaryStoreInstrWithImm" =>
           /\ id \in {"kStrImmediate", "kStrhImmediate", "kStrbImmediate"}
           /\ c.op \in {"StoreMemU32", "StoreMemU16", "StoreMemU8"}
    /\ c.class = "TernaryStoreInstrWithImm" =>
           /\ id \in {"kStrex"}
           /\ c.op \in {"StoreMemExU32"}
    /\ c.class = "Svc" =>
           /\ id \in {"kSvc"}
    /\ c.class = "Bkpt" =>
           /\ id \in {"kBkpt"}
    /\ c.class = "NullaryInstr" =>
           /\ id \in {"kNop", "kDmb"}
           /\ c.op \in {"Nop0Op", "Dmb0Op"}
    /\ c.base = (IF id \in {"kSubSpMinusImmediate", "kAddSpPlusImmediate", "kPush", "kPop"} THEN "Sp" ELSE "n")
    /\ c.struct # id =>
           \/ id = "kLdrLiteral" /\ c.struct = "kLdrImmediate"
           \/ id = "kLslRegister" /\ c.struct = "kLsrRegister"
           \/ id = "kCmnImmediate" /\ c.struct = "kCmpImmediate"
           \/ id = "kBl" /\ c.struct = "kB"
           \/ id = "kStm" /\ c.struct = "kLdm"
           \/ id = "kMvnRegister" /\ c.struct = "kLsrImmediate"
           \/ id = "kStrbRegister" /\ c.struct = "kStrhRegister"
    /\ id \in {"kLdrImmediate", "kLdrbImmediate", "kLdrhImmediate", "kLdrsbImmediate", "kLdrshImmediate"} =>
           c.class = "BinaryLoadInstrWithImm"
    /\ id = "kIt" => c.class = "ItInstr"
    /\ id = "kBkpt" => c.class = "Bkpt"
    /\ id = "kTbbH" => c.class = "BinaryBranchInstr"
    /\ id = "kBl" => c.class = "UnaryBranchInstrImm" /\ c.op = "Bl1ImmOp"
    /\ id = "kBlx" => c.class = "UnaryBranchInstr" /\ c.op = "Blx1Op"
    /\ id # "kStmdb"

Entry(table, id, template, op, struct, base) ==
    /\ table[id].class = template /\ table[id].op = op
    /\ table[id].struct = struct /\ table[id].base = base

LEMMA OnSpEntry ==
    ASSUME NEW template, NEW op, NEW struct, NEW args
    PROVE  LET entry == OnSp(Case(template, op, struct, args))
           IN  /\ entry.class = template /\ entry.op = op
               /\ entry.struct = struct /\ entry.base = "Sp"
  BY DEF OnSp, Case

LEMMA CasesLdrLiteralToAsrImmediateFit ==
    \A id \in DOMAIN CasesLdrLiteralToAsrImmediate : Fits(id, CasesLdrLiteralToAsrImmediate[id])
<1> DEFINE table == CasesLdrLiteralToAsrImmediate
<1>1. \A id \in DOMAIN table : id \in {"kLdrLiteral", "kClz", "kLdrsbImmediate", "kLdrbImmediate",
                                     "kLdrImmediate", "kLdrex", "kUmull", "kMsr", "kMrs",
                                     "kUmlal", "kSmull", "kLdrdImmediate", "kLdrhImmediate",
                                     "kLdrshImmediate", "kAsrImmediate"}
  BY DEF CasesLdrLiteralToAsrImmediate
<1>2. /\ Fits("kLdrLiteral", table["kLdrLiteral"])
      /\ Fits("kClz", table["kClz"])
      /\ Fits("kLdrsbImmediate", table["kLdrsbImmediate"])
      /\ Fits("kLdrbImmediate", table["kLdrbImmediate"])
      /\ Fits("kLdrImmediate", table["kLdrImmediate"])
  <2>1. /\ Entry(table, "kLdrLiteral", "UnaryLoadInstrImm", "LoadMemU32", "kLdrImmediate", "n")
        /\ Entry(table, "kClz", "UnaryInstr", "Clz1Op", "kClz", "n")
        /\ Entry(table, "kLdrsbImmediate", "BinaryLoadInstrWithImm", "LoadMemI8", "kLdrsbImmediate", "n")
        /\ Entry(table, "kLdrbImmediate", "BinaryLoadInstrWithImm", "LoadMemU8", "kLdrbImmediate", "n")
        /\ Entry(table, "kLdrImmediate", "BinaryLoadInstrWithImm", "LoadMemU32", "kLdrImmediate", "n")
    BY DEF Entry, CasesLdrLiteralToAsrImmediate, Case, UnaryLoadInstrImm, UnaryInstr,
     BinaryLoadInstrWithImm
  <2> HIDE DEF table
  <2>2. QED
    BY <2>1 DEF Fits, Entry
<1>3. /\ Fits("kLdrex", table["kLdrex"])
      /\ Fits("kUmull", table["kUmull"])
      /\ Fits("kMsr", table["kMsr"])
      /\ Fits("kMrs", table["kMrs"])
      /\ Fits("kUmlal", table["kUmlal"])
  <2>1. /\ Entry(table, "kLdrex", "BinaryLoadInstrWithImm", "LoadMemExU32", "kLdrex", "n")
        /\ Entry(table, "kUmull", "Binary64bitInstr", "Umull2Op", "kUmull", "n")
        /\ Entry(table, "kMsr", "Msr", "None", "kMsr", "n")
        /\ Entry(table, "kMrs", "Mrs", "None", "kMrs", "n")
        /\ Entry(table, "kUmlal", "Binary64bitInstr", "Umlal2Op", "kUmlal", "n")
    BY DEF Entry, CasesLdrLiteralToAsrImmediate, Case, BinaryLoadInstrWithImm, Binary64bitInstr,
     Msr, Mrs
  <2> HIDE DEF table
  <2>2. QED
    BY <2>1 DEF Fits, Entry
<1>4. /\ Fits("kSmull", table["kSmull"])
      /\ Fits("kLdrdImmediate", table["kLdrdImmediate"])
      /\ Fits("kLdrhImmediate", table["kLdrhImmediate"])
      /\ Fits("kLdrshImmediate", table["kLdrshImmediate"])
      /\ Fits("kAsrImmediate", table["kAsrImmediate"])
  <2>1. /\ Entry(table, "kSmull", "Binary64bitInstr", "Smull2Op", "kSmull", "n")
        /\ Entry(table, "kLdrdImmediate", "Ldrd", "None", "kLdrdImmediate", "n")
        /\ Entry(table, "kLdrhImmediate", "BinaryLoadInstrWithImm", "LoadMemU16", "kLdrhImmediate", "n")
        /\ Entry(table, "kLdrshImmediate", "BinaryLoadInstrWithImm", "LoadMemI16", "kLdrshImmediate", "n")
        /\ Entry(table, "kAsrImmediate", "BinaryInstrWithShift", "Asr1ShiftOp", "kAsrImmediate", "n")
    BY DEF Entry, CasesLdrLiteralToAsrImmediate, Case, Binary64bitInstr, Ldrd,
     BinaryLoadInstrWithImm, BinaryInstrWithShift
  <2> HIDE DEF table
  <2>2. QED
    BY <2>1 DEF Fits, Entry
<1>5. QED
  <2> HIDE DEF table
  <2>1. \A id \in DOMAIN table : Fits(id, table[id])
    BY <1>1, <1>2, <1>3, <1>4, Zenon
  <2>2. QED
    BY <2>1 DEF table

LEMMA CasesLslImmediateToSxthFit ==
    \A id \in DOMAIN CasesLslImmediateToSxth : Fits(id, CasesLslImmediateToSxth[id])
<1> DEFINE table == CasesLslImmediateToSxth
<1>1. \A id \in DOMAIN table : id \in {"kLslImmediate", "kLsrRegister", "kAsrRegister",
                                     "kLslRegister", "kCmpRegister", "kCmpImmediate",
                                     "kCmnImmediate", "kIt", "kMovImmediate", "kMvnImmediate",
                                     "kMovRegister", "kRrx", "kUxtb", "kSxtb", "kSxth"}
  BY DEF CasesLslImmediateToSxth
<1>2. /\ Fits("kLslImmediate", table["kLslImmediate"])
      /\ Fits("kLsrRegister", table["kLsrRegister"])
      /\ Fits("kAsrRegister", table["kAsrRegister"])
      /\ Fits("kLslRegister", table["kLslRegister"])
      /\ Fits("kCmpRegister", table["kCmpRegister"])
  <2>1. /\ Entry(table, "kLslImmediate", "BinaryInstrWithShift", "Lsl1ShiftOp", "kLslImmediate", "n")
        /\ Entry(table, "kLsrRegister", "BinaryInstr", "Lsr2Op", "kLsrRegister", "n")
        /\ Entry(table, "kAsrRegister", "BinaryInstr", "Asr2Op", "kAsrRegister", "n")
        /\ Entry(table, "kLslRegister", "BinaryInstr", "Lsl2Op", "kLsrRegister", "n")
        /\ Entry(table, "kCmpRegister", "TernaryNullInstrWithShift", "Cmp2ShiftOp", "kCmpRegister", "n")
    BY DEF Entry, CasesLslImmediateToSxth, Case, BinaryInstrWithShift, BinaryInstr,
     TernaryNullInstrWithShift
  <2> HIDE DEF table
  <2>2. QED
    BY <2>1 DEF Fits, Entry
<1>3. /\ Fits("kCmpImmediate", table["kCmpImmediate"])
      /\ Fits("kCmnImmediate", table["kCmnImmediate"])
      /\ Fits("kIt", table["kIt"])
      /\ Fits("kMovImmediate", table["kMovImmediate"])
      /\ Fits("kMvnImmediate", table["kMvnImmediate"])
  <2>1. /\ Entry(table, "kCmpImmediate", "BinaryNullInstrWithImm", "Cmp1ImmOp", "kCmpImmediate", "n")
        /\ Entry(table, "kCmnImmediate", "BinaryNullInstrWithImm", "Cmn1ImmOp", "kCmpImmediate", "n")
        /\ Entry(table, "kIt", "ItInstr", "None", "kIt", "n")
        /\ Entry(table, "kMovImmediate", "UnaryInstrImmCarry", "MovImmCarryOp", "kMovImmediate", "n")
        /\ Entry(table, "kMvnImmediate", "UnaryInstrImmCarry", "MvnImmCarryOp", "kMvnImmediate", "n")
    BY DEF Entry, CasesLslImmediateToSxth, Case, BinaryNullInstrWithImm, ItInstr, UnaryInstrImmCarry
  <2> HIDE DEF table
  <2>2. QED
    BY <2>1 DEF Fits, Entry
<1>4. /\ Fits("kMovRegister", table["kMovRegister"])
      /\ Fits("kRrx", table["kRrx"])
      /\ Fits("kUxtb", table["kUxtb"])
      /\ Fits("kSxtb", table["kSxtb"])
      /\ Fits("kSxth", table["kSxth"])
  <2>1. /\ Entry(table, "kMovRegister", "UnaryInstr", "Mov1Op", "kMovRegister", "n")
        /\ Entry(table, "kRrx", "UnaryInstr", "Rrx1Op", "kRrx", "n")
        /\ Entry(table, "kUxtb", "BinaryInstrWithRotation", "Uxtb1Rotation", "kUxtb", "n")
        /\ Entry(table, "kSxtb", "BinaryInstrWithRotation", "Sxtb1Rotation", "kSxtb", "n")
        /\ Entry(table, "kSxth", "BinaryInstrWithRotation", "Sxth1Rotation", "kSxth", "n")
    BY DEF Entry, CasesLslImmediateToSxth, Case, UnaryInstr, BinaryInstrWithRotation
  <2> HIDE DEF table
  <2>2. QED
    BY <2>1 DEF Fits, Entry
<1>5. QED
  <2> HIDE DEF table
  <2>1. \A id \in DOMAIN table : Fits(id, table[id])
    BY <1>1, <1>2, <1>3, <1>4, Zenon
  <2>2. QED
    BY <2>1 DEF table

LEMMA CasesUxthToAddPcPlusImmediateFit ==
    \A id \in DOMAIN CasesUxthToAddPcPlusImmediate : Fits(id, CasesUxthToAddPcPlusImmediate[id])
<1> DEFINE table == CasesUxthToAddPcPlusImmediate
<1>1. \A id \in DOMAIN table : id \in {"kUxth", "kBCond", "kTbbH", "kB", "kBl", "kCbNZ", "kBx",
                                     "kBlx", "kSubImmediate", "kSbcImmediate", "kRsbImmediate",
                                     "kSubSpMinusImmediate", "kAddImmediate", "kAdcImmediate",
                                     "kAddPcPlusImmediate"}
  BY DEF CasesUxthToAddPcPlusImmediate
<1>2. /\ Fits("kUxth", table["kUxth"])
      /\ Fits("kBCond", table["kBCond"])
      /\ Fits("kTbbH", table["kTbbH"])
      /\ Fits("kB", table["kB"])
      /\ Fits("kBl", table["kBl"])
  <2>1. /\ Entry(table, "kUxth", "BinaryInstrWithRotation", "Uxth1Rotation", "kUxth", "n")
        /\ Entry(table, "kBCond", "BCond", "None", "kBCond", "n")
        /\ Entry(table, "kTbbH", "BinaryBranchInstr", "TbbH2Op", "kTbbH", "n")
        /\ Entry(table, "kB", "UnaryBranchInstrImm", "B1ImmOp", "kB", "n")
        /\ Entry(table, "kBl", "UnaryBranchInstrImm", "Bl1ImmOp", "kB", "n")
    BY DEF Entry, CasesUxthToAddPcPlusImmediate, Case, BinaryInstrWithRotation, BCond,
     BinaryBranchInstr, UnaryBranchInstrImm
  <2> HIDE DEF table
  <2>2. QED
    BY <2>1 DEF Fits, Entry
<1>3. /\ Fits("kCbNZ", table["kCbNZ"])
      /\ Fits("kBx", table["kBx"])
      /\ Fits("kBlx", table["kBlx"])
      /\ Fits("kSubImmediate", table["kSubImmediate"])
      /\ Fits("kSbcImmediate", table["kSbcImmediate"])
  <2>1. /\ Entry(table, "kCbNZ", "BinaryBranchInstrWithImm", "CbNZ1ImmOp", "kCbNZ", "n")
        /\ Entry(table, "kBx", "UnaryBranchInstr", "Bx1Op", "kBx", "n")
        /\ Entry(table, "kBlx", "UnaryBranchInstr", "Blx1Op", "kBlx", "n")
        /\ Entry(table, "kSubImmediate", "BinaryInstrWithImm", "Sub1ImmOp", "kSubImmediate", "n")
        /\ Entry(table, "kSbcImmediate", "BinaryInstrWithImm", "Sbc1ImmOp", "kSbcImmediate", "n")
    BY DEF Entry, CasesUxthToAddPcPlusImmediate, Case, BinaryBranchInstrWithImm, UnaryBranchInstr,
     BinaryInstrWithImm
  <2> HIDE DEF table
  <2>2. QED
    BY <2>1 DEF Fits, Entry
<1>4. /\ Fits("kRsbImmediate", table["kRsbImmediate"])
      /\ Fits("kAddImmediate", table["kAddImmediate"])
      /\ Fits("kAdcImmediate", table["kAdcImmediate"])
      /\ Fits("kAddPcPlusImmediate", table["kAddPcPlusImmediate"])
  <2>1. /\ Entry(table, "kRsbImmediate", "BinaryInstrWithImm", "Rsb1ImmOp", "kRsbImmediate", "n")
        /\ Entry(table, "kAddImmediate", "BinaryInstrWithImm", "Add1ImmOp", "kAddImmediate", "n")
        /\ Entry(table, "kAdcImmediate", "BinaryInstrWithImm", "Adc1ImmOp", "kAdcImmediate", "n")
        /\ Entry(table, "kAddPcPlusImmediate", "UnaryInstrImm", "AddToPcImmOp", "kAddPcPlusImmediate", "n")
    BY DEF Entry, CasesUxthToAddPcPlusImmediate, Case, BinaryInstrWithImm, UnaryInstrImm
  <2> HIDE DEF table
  <2>2. QED
    BY <2>1 DEF Fits, Entry
<1>5. /\ Fits("kSubSpMinusImmediate", table["kSubSpMinusImmediate"])
  <2>1. /\ Entry(table, "kSubSpMinusImmediate", "BinaryInstrWithImm", "Sub1ImmOp", "kSubSpMinusImmediate", "Sp")
    BY OnSpEntry DEF Entry, CasesUxthToAddPcPlusImmediate, BinaryInstrWithImm
  <2> HIDE DEF table
  <2>2. QED
    BY <2>1 DEF Fits, Entry
<1>6. QED
  <2> HIDE DEF table
  <2>1. \A id \in DOMAIN table : Fits(id, table[id])
    BY <1>1, <1>2, <1>3, <1>4, <1>5, Zenon
  <2>2. QED
    BY <2>1 DEF table

LEMMA CasesAddSpPlusImmediateToSubRegisterFit ==
    \A id \in DOMAIN CasesAddSpPlusImmediateToSubRegister : Fits(id, CasesAddSpPlusImmediateToSubRegister[id])
<1> DEFINE table == CasesAddSpPlusImmediateToSubRegister
<1>1. \A id \in DOMAIN table : id \in {"kAddSpPlusImmediate", "kTeqImmediate", "kTstImmediate",
                                     "kTstRegister", "kTeqRegister", "kEorImmediate",
                                     "kOrrImmediate", "kAndImmediate", "kUbfx", "kBfi", "kUdiv",
                                     "kSdiv", "kMul", "kMls", "kMla", "kSubRegister"}
  BY DEF CasesAddSpPlusImmediateToSubRegister
<1>2. /\ Fits("kTeqImmediate", table["kTeqImmediate"])
      /\ Fits("kTstImmediate", table["kTstImmediate"])
      /\ Fits("kTstRegister", table["kTstRegister"])
      /\ Fits("kTeqRegister", table["kTeqRegister"])
      /\ Fits("kEorImmediate", table["kEorImmediate"])
  <2>1. /\ Entry(table, "kTeqImmediate", "BinaryNullInstrWithImmCarry", "Teq1ImmCarryOp", "kTeqImmediate", "n")
        /\ Entry(table, "kTstImmediate", "BinaryNullInstrWithImmCarry", "Tst1ImmCarryOp", "kTstImmediate", "n")
        /\ Entry(table, "kTstRegister", "TernaryNullInstrWithShift", "Tst2ShiftOp", "kTstRegister", "n")
        /\ Entry(table, "kTeqRegister", "TernaryNullInstrWithShift", "Teq2ShiftOp", "kTeqRegister", "n")
        /\ Entry(table, "kEorImmediate", "BinaryInstrWithImmCarry", "Eor1ImmCarryOp", "kEorImmediate", "n")
    BY DEF Entry, CasesAddSpPlusImmediateToSubRegister, Case, BinaryNullInstrWithImmCarry,
     TernaryNullInstrWithShift, BinaryInstrWithImmCarry
  <2> HIDE DEF table
  <2>2. QED
    BY <2>1 DEF Fits, Entry
<1>3. /\ Fits("kOrrImmediate", table["kOrrImmediate"])
      /\ Fits("kAndImmediate", table["kAndImmediate"])
      /\ Fits("kUbfx", table["kUbfx"])
      /\ Fits("kBfi", table["kBfi"])
      /\ Fits("kUdiv", table["kUdiv"])
  <2>1. /\ Entry(table, "kOrrImmediate", "BinaryInstrWithImmCarry", "Orr1ImmCarryOp", "kOrrImmediate", "n")
        /\ Entry(table, "kAndImmediate", "BinaryInstrWithImmCarry", "And1ImmCarryOp", "kAndImmediate", "n")
        /\ Entry(table, "kUbfx", "Ubfx", "None", "kUbfx", "n")
        /\ Entry(table, "kBfi", "Bfi", "None", "kBfi", "n")
        /\ Entry(table, "kUdiv", "BinaryInstr", "UDiv2Op", "kUdiv", "n")
    BY DEF Entry, CasesAddSpPlusImmediateToSubRegister, Case, BinaryInstrWithImmCarry, Ubfx, Bfi,
     BinaryInstr
  <2> HIDE DEF table
  <2>2. QED
    BY <2>1 DEF Fits, Entry
<1>4. /\ Fits("kSdiv", table["kSdiv"])
      /\ Fits("kMul", table["kMul"])
      /\ Fits("kMls", table["kMls"])
      /\ Fits("kMla", table["kMla"])
      /\ Fits("kSubRegister", table["kSubRegister"])
  <2>1. /\ Entry(table, "kSdiv", "BinaryInstr", "SDiv2Op", "kSdiv", "n")
        /\ Entry(table, "kMul", "BinaryInstr", "Mul2Op", "kMul", "n")
        /\ Entry(table, "kMls", "TernaryInstr", "Mls3Op", "kMls", "n")
        /\ Entry(table, "kMla", "TernaryInstr", "Mla3Op", "kMla", "n")
        /\ Entry(table, "kSubRegister", "TernaryInstrWithShift", "Sub2ShiftOp", "kSubRegister", "n")
    BY DEF Entry, CasesAddSpPlusImmediateToSubRegister, Case, BinaryInstr, TernaryInstr,
     TernaryInstrWithShift
  <2> HIDE DEF table
  <2>2. QED
    BY <2>1 DEF Fits, Entry
<1>5. /\ Fits("kAddSpPlusImmediate", table["kAddSpPlusImmediate"])
  <2>1. /\ Entry(table, "kAddSpPlusImmediate", "BinaryInstrWithImm", "Add1ImmOp", "kAddSpPlusImmediate", "Sp")
    BY OnSpEntry DEF Entry, CasesAddSpPlusImmediateToSubRegister, BinaryInstrWithImm
  <2> HIDE DEF table
  <2>2. QED
    BY <2>1 DEF Fits, Entry
<1>6. QED
  <2> HIDE DEF table
  <2>1. \A id \in DOMAIN table : Fits(id, table[id])
    BY <1>1, <1>2, <1>3, <1>4, <1>5, Zenon
  <2>2. QED
    BY <2>1 DEF table

LEMMA CasesRsbRegisterToBicImmediateFit ==
    \A id \in DOMAIN CasesRsbRegisterToBicImmediate : Fits(id, CasesRsbRegisterToBicImmediate[id])
<1> DEFINE table == CasesRsbRegisterToBicImmediate
<1>1. \A id \in DOMAIN table : id \in {"kRsbRegister", "kAdcRegister", "kAddRegister", "kPush",
                                     "kStm", "kLdm", "kPop", "kOrrRegister", "kSbcRegister",
                                     "kEorRegister", "kAndRegister", "kBicRegister",
                                     "kBicImmediate"}
  BY DEF CasesRsbRegisterToBicImmediate
<1>2. /\ Fits("kRsbRegister", table["kRsbRegister"])
      /\ Fits("kAdcRegister", table["kAdcRegister"])
      /\ Fits("kAddRegister", table["kAddRegister"])
      /\ Fits("kStm", table["kStm"])
      /\ Fits("kLdm", table["kLdm"])
  <2>1. /\ Entry(table, "kRsbRegister", "TernaryInstrWithShift", "Rsb2ShiftOp", "kRsbRegister", "n")
        /\ Entry(table, "kAdcRegister", "TernaryInstrWithShift", "Adc2ShiftOp", "kAdcRegister", "n")
        /\ Entry(table, "kAddRegister", "TernaryInstrWithShift", "Add2ShiftOp", "kAddRegister", "n")
        /\ Entry(table, "kStm", "VariadicStoreInstr", "None", "kLdm", "n")
        /\ Entry(table, "kLdm", "VariadicLoadInstr", "None", "kLdm", "n")
    BY DEF Entry, CasesRsbRegisterToBicImmediate, Case, TernaryInstrWithShift, VariadicStoreInstr,
     VariadicLoadInstr
  <2> HIDE DEF table
  <2>2. QED
    BY <2>1 DEF Fits, Entry
<1>3. /\ Fits("kOrrRegister", table["kOrrRegister"])
      /\ Fits("kSbcRegister", table["kSbcRegister"])
      /\ Fits("kEorRegister", table["kEorRegister"])
      /\ Fits("kAndRegister", table["kAndRegister"])
      /\ Fits("kBicRegister", table["kBicRegister"])
  <2>1. /\ Entry(table, "kOrrRegister", "TernaryInstrWithShift", "Orr2ShiftOp", "kOrrRegister", "n")
        /\ Entry(table, "kSbcRegister", "TernaryInstrWithShift", "Sbc2ShiftOp", "kSbcRegister", "n")
        /\ Entry(table, "kEorRegister", "TernaryInstrWithShift", "Eor2ShiftOp", "kEorRegister", "n")
        /\ Entry(table, "kAndRegister", "TernaryInstrWithShift", "And2ShiftOp", "kAndRegister", "n")
        /\ Entry(table, "kBicRegister", "TernaryInstrWithShift", "Bic2ShiftOp", "kBicRegister", "n")
    BY DEF Entry, CasesRsbRegisterToBicImmediate, Case, TernaryInstrWithShift
  <2> HIDE DEF table
  <2>2. QED
    BY <2>1 DEF Fits, Entry
<1>4. /\ Fits("kBicImmediate", table["kBicImmediate"])
  <2>1. /\ Entry(table, "kBicImmediate", "BinaryInstrWithImmCarry", "Bic1ImmCarryOp", "kBicImmediate", "n")
    BY DEF Entry, CasesRsbRegisterToBicImmediate, Case, BinaryInstrWithImmCarry
  <2> HIDE DEF table
  <2>2. QED
    BY <2>1 DEF Fits, Entry
<1>5. /\ Fits("kPush", table["kPush"])
      /\ Fits("kPop", table["kPop"])
  <2>1. /\ Entry(table, "kPush", "VariadicStoreInstrDb", "None", "kPush", "Sp")
        /\ Entry(table, "kPop", "VariadicLoadInstr", "None", "kPop", "Sp")
    BY OnSpEntry DEF Entry, CasesRsbRegisterToBicImmediate, VariadicStoreInstrDb, VariadicLoadInstr
  <2> HIDE DEF table
  <2>2. QED
    BY <2>1 DEF Fits, Entry
<1>6. QED
  <2> HIDE DEF table
  <2>1. \A id \in DOMAIN table : Fits(id, table[id])
    BY <1>1, <1>2, <1>3, <1>4, <1>5, Zenon
  <2>2. QED
    BY <2>1 DEF table

LEMMA CasesMvnRegisterToDmbFit ==
    \A id \in DOMAIN CasesMvnRegisterToDmb : Fits(id, CasesMvnRegisterToDmb[id])
<1> DEFINE table == CasesMvnRegisterToDmb
<1>1. \A id \in DOMAIN table : id \in {"kMvnRegister", "kLsrImmediate", "kStrdImmediate",
                                     "kStrRegister", "kStrbRegister", "kStrhRegister",
                                     "kLdrhRegister", "kLdrbRegister", "kLdrRegister",
                                     "kStrImmediate", "kStrex", "kStrhImmediate",
                                     "kStrbImmediate", "kSvc", "kBkpt", "kNop", "kDmb"}
  BY DEF CasesMvnRegisterToDmb
<1>2. /\ Fits("kMvnRegister", table["kMvnRegister"])
      /\ Fits("kLsrImmediate", table["kLsrImmediate"])
      /\ Fits("kStrdImmediate", table["kStrdImmediate"])
      /\ Fits("kStrRegister", table["kStrRegister"])
      /\ Fits("kStrbRegister", table["kStrbRegister"])
  <2>1. /\ Entry(table, "kMvnRegister", "BinaryInstrWithShift", "Mvn1ShiftOp", "kLsrImmediate", "n")
        /\ Entry(table, "kLsrImmediate", "BinaryInstrWithShift", "Lsr1ShiftOp", "kLsrImmediate", "n")
        /\ Entry(table, "kStrdImmediate", "Strd", "None", "kStrdImmediate", "n")
        /\ Entry(table, "kStrRegister", "TernaryStoreInstrWithShift", "StoreMemU32", "kStrRegister", "n")
        /\ Entry(table, "kStrbRegister", "TernaryStoreInstrWithShift", "StoreMemU8", "kStrhRegister", "n")
    BY DEF Entry, CasesMvnRegisterToDmb, Case, BinaryInstrWithShift, Strd,
     TernaryStoreInstrWithShift
  <2> HIDE DEF table
  <2>2. QED
    BY <2>1 DEF Fits, Entry
<1>3. /\ Fits("kStrhRegister", table["kStrhRegister"])
      /\ Fits("kLdrhRegister", table["kLdrhRegister"])
      /\ Fits("kLdrbRegister", table["kLdrbRegister"])
      /\ Fits("kLdrRegister", table["kLdrRegister"])
      /\ Fits("kStrImmediate", table["kStrImmediate"])
  <2>1. /\ Entry(table, "kStrhRegister", "TernaryStoreInstrWithShift", "StoreMemU16", "kStrhRegister", "n")
        /\ Entry(table, "kLdrhRegister", "TernaryLoadInstrWithShift", "LoadMemU16", "kLdrhRegister", "n")
        /\ Entry(table, "kLdrbRegister", "TernaryLoadInstrWithShift", "LoadMemU8", "kLdrbRegister", "n")
        /\ Entry(table, "kLdrRegister", "TernaryLoadInstrWithShift", "LoadMemU32", "kLdrRegister", "n")
        /\ Entry(table, "kStrImmediate", "BinaryStoreInstrWithImm", "StoreMemU32", "kStrImmediate", "n")
    BY DEF Entry, CasesMvnRegisterToDmb, Case, TernaryStoreInstrWithShift,
     TernaryLoadInstrWithShift, BinaryStoreInstrWithImm
  <2> HIDE DEF table
  <2>2. QED
    BY <2>1 DEF Fits, Entry
<1>4. /\ Fits("kStrex", table["kStrex"])
      /\ Fits("kStrhImmediate", table["kStrhImmediate"])
      /\ Fits("kStrbImmediate", table["kStrbImmediate"])
      /\ Fits("kSvc", table["kSvc"])
      /\ Fits("kBkpt", table["kBkpt"])
  <2>1. /\ Entry(table, "kStrex", "TernaryStoreInstrWithImm", "StoreMemExU32", "kStrex", "n")
        /\ Entry(table, "kStrhImmediate", "BinaryStoreInstrWithImm", "StoreMemU16", "kStrhImmediate", "n")
        /\ Entry(table, "kStrbImmediate", "BinaryStoreInstrWithImm", "StoreMemU8", "kStrbImmediate", "n")
        /\ Entry(table, "kSvc", "Svc", "None", "kSvc", "n")
        /\ Entry(table, "kBkpt", "Bkpt", "None", "kBkpt", "n")
    BY DEF Entry, CasesMvnRegisterToDmb, Case, TernaryStoreInstrWithImm, BinaryStoreInstrWithImm,
     Svc, Bkpt
  <2> HIDE DEF table
  <2>2. QED
    BY <2>1 DEF Fits, Entry
<1>5. /\ Fits("kNop", table["kNop"])
      /\ Fits("kDmb", table["kDmb"])
  <2>1. /\ Entry(table, "kNop", "NullaryInstr", "Nop0Op", "kNop", "n")
        /\ Entry(table, "kDmb", "NullaryInstr", "Dmb0Op", "kDmb", "n")
    BY DEF Entry, CasesMvnRegisterToDmb, Case, NullaryInstr
  <2> HIDE DEF table
  <2>2. QED
    BY <2>1 DEF Fits, Entry
<1>6. QED
  <2> HIDE DEF table
  <2>1. \A id \in DOMAIN table : Fits(id, table[id])
    BY <1>1, <1>2, <1>3, <1>4, <1>5, Zenon
  <2>2. QED
    BY <2>1 DEF table

LEMMA CasesFit == \A id \in DOMAIN Cases : Fits(id, Cases[id])
<1>1. \A id \in DOMAIN Cases :
         \/ /\ id \in DOMAIN CasesLdrLiteralToAsrImmediate
            /\ Cases[id] = CasesLdrLiteralToAsrImmediate[id]
         \/ /\ id \in DOMAIN CasesLslImmediateToSxth
            /\ Cases[id] = CasesLslImmediateToSxth[id]
         \/ /\ id \in DOMAIN CasesUxthToAddPcPlusImmediate
            /\ Cases[id] = CasesUxthToAddPcPlusImmediate[id]
         \/ /\ id \in DOMAIN CasesAddSpPlusImmediateToSubRegister
            /\ Cases[id] = CasesAddSpPlusImmediateToSubRegister[id]
         \/ /\ id \in DOMAIN CasesRsbRegisterToBicImmediate
            /\ Cases[id] = CasesRsbRegisterToBicImmediate[id]
         \/ /\ id \in DOMAIN CasesMvnRegisterToDmb
            /\ Cases[id] = CasesMvnRegisterToDmb[id]
  BY DEF Cases, Merge
<1>2. QED
  BY <1>1, CasesLdrLiteralToAsrImmediateFit, CasesLslImmediateToSxthFit,
     CasesUxthToAddPcPlusImmediateFit, CasesAddSpPlusImmediateToSubRegisterFit,
     CasesRsbRegisterToBicImmediateFit, CasesMvnRegisterToDmbFit, Zenon

\* The structs that are read for another instruction than they were declared for.
LEMMA SharedStructs ==
    /\ Layout["kLdrLiteral"] = <<"t", "imm32">>
    /\ Layout["kLdrImmediate"] = <<"t", "n", "imm32">>
    /\ Layout["kLslRegister"] = Layout["kLsrRegister"]
    /\ Layout["kCmnImmediate"] = Layout["kCmpImmediate"]
    /\ Layout["kBl"] = Layout["kB"]
    /\ Layout["kStm"] = Layout["kLdm"]
    /\ Layout["kMvnRegister"] = Layout["kLsrImmediate"]
    /\ Layout["kStrbRegister"] = Layout["kStrhRegister"]
<1> DEFINE table1 == StructsNopToLdrdImmediate
           table2 == StructsLdrLiteralToSubSpMinusImmediate
           table3 == StructsSubRegisterToUxth
           table4 == StructsUbfxToStrhRegister
<1>1. /\ Layout["kLdrImmediate"] = table1["kLdrImmediate"] /\ Layout["kLslRegister"] = table1["kLslRegister"]
      /\ Layout["kCmnImmediate"] = table1["kCmnImmediate"] /\ Layout["kCmpImmediate"] = table1["kCmpImmediate"]
  BY DEF Layout, Merge, StructsNopToLdrdImmediate
<1>2. /\ Layout["kLdrLiteral"] = table2["kLdrLiteral"]
      /\ Layout["kBl"] = table2["kBl"] /\ Layout["kB"] = table2["kB"]
  BY DEF Layout, Merge, StructsNopToLdrdImmediate, StructsLdrLiteralToSubSpMinusImmediate
<1>3. Layout["kStm"] = table3["kStm"] /\ Layout["kLdm"] = table3["kLdm"]
  BY DEF Layout, Merge, StructsNopToLdrdImmediate, StructsLdrLiteralToSubSpMinusImmediate,
     StructsSubRegisterToUxth
<1>4. \A id \in {"kMvnRegister", "kLsrImmediate", "kLsrRegister", "kStrbRegister", "kStrhRegister"} :
         /\ id \notin DOMAIN table1 /\ id \notin DOMAIN table2 /\ id \notin DOMAIN table3
         /\ id \in DOMAIN table4
  <2>1. \A id \in {"kMvnRegister", "kLsrImmediate", "kLsrRegister", "kStrbRegister", "kStrhRegister"} :
           id \notin DOMAIN table1 /\ id \notin DOMAIN table2
    BY DEF StructsNopToLdrdImmediate, StructsLdrLiteralToSubSpMinusImmediate
  <2>2. \A id \in {"kMvnRegister", "kLsrImmediate", "kLsrRegister", "kStrbRegister", "kStrhRegister"} :
           id \notin DOMAIN table3 /\ id \in DOMAIN table4
    BY DEF StructsSubRegisterToUxth, StructsUbfxToStrhRegister
  <2>3. QED
    BY <2>1, <2>2
<1>5. \A id \in {"kMvnRegister", "kLsrImmediate", "kLsrRegister", "kStrbRegister", "kStrhRegister"} :
         Layout[id] = table4[id]
  <2> HIDE DEF table1, table2, table3, table4
  <2> DEFINE merged == Merge(table4, StructsLdrbRegisterToMrs)
  <2>1. Layout = Merge(table1, Merge(table2, Merge(table3, merged)))
    BY DEF Layout, table1, table2, table3, table4
  <2>2. \A id \in {"kMvnRegister", "kLsrImmediate", "kLsrRegister", "kStrbRegister", "kStrhRegister"} :
           Layout[id] = merged[id] /\ id \in DOMAIN merged
    BY <1>4, <2>1 DEF Merge
  <2>3. \A id \in {"kMvnRegister", "kLsrImmediate", "kLsrRegister", "kStrbRegister", "kStrhRegister"} :
           merged[id] = table4[id]
    BY <1>4 DEF Merge
  <2>4. QED
    BY <2>2, <2>3
<1>6. /\ table1["kLdrImmediate"] = <<"t", "n", "imm32">> /\ table1["kLslRegister"] = <<"n", "d", "m">>
      /\ table1["kCmnImmediate"] = <<"n", "imm32">> /\ table1["kCmpImmediate"] = <<"n", "imm32">>
      /\ table2["kLdrLiteral"] = <<"t", "imm32">>
      /\ table2["kBl"] = <<"imm32">> /\ table2["kB"] = <<"imm32">>
  BY DEF StructsNopToLdrdImmediate, StructsLdrLiteralToSubSpMinusImmediate
<1>7. /\ table3["kStm"] = <<"registers", "n">> /\ table3["kLdm"] = <<"registers", "n">>
      /\ table4["kMvnRegister"] = <<"m", "d", "shift_res">>
      /\ table4["kLsrImmediate"] = <<"m", "d", "shift_res">>
      /\ table4["kLsrRegister"] = <<"n", "d", "m">>
      /\ table4["kStrbRegister"] = <<"n", "m", "t", "shift_res">>
      /\ table4["kStrhRegister"] = <<"n", "m", "t", "shift_res">>
  BY DEF StructsSubRegisterToUxth, StructsUbfxToStrhRegister
<1> HIDE DEF table1, table2, table3, table4
<1>8. QED
  BY <1>1, <1>2, <1>3, <1>5, <1>6, <1>7

LEMMA StructsOfCases == DOMAIN Cases \subseteq DOMAIN Layout
<1> DEFINE declared == DOMAIN StructsNopToLdrdImmediate \cup DOMAIN StructsLdrLiteralToSubSpMinusImmediate
                \cup DOMAIN StructsSubRegisterToUxth \cup DOMAIN StructsUbfxToStrhRegister
                \cup DOMAIN StructsLdrbRegisterToMrs
<1>1. DOMAIN Layout = declared
  BY DEF Layout, Merge
<1>2. DOMAIN CasesLdrLiteralToAsrImmediate \subseteq declared
  BY DEF CasesLdrLiteralToAsrImmediate, StructsNopToLdrdImmediate,
     StructsLdrLiteralToSubSpMinusImmediate, StructsSubRegisterToUxth, StructsUbfxToStrhRegister,
     StructsLdrbRegisterToMrs
<1>3. DOMAIN CasesLslImmediateToSxth \subseteq declared
  BY DEF CasesLslImmediateToSxth, StructsNopToLdrdImmediate,
     StructsLdrLiteralToSubSpMinusImmediate, StructsSubRegisterToUxth, StructsUbfxToStrhRegister,
     StructsLdrbRegisterToMrs
<1>4. DOMAIN CasesUxthToAddPcPlusImmediate \subseteq declared
  BY DEF CasesUxthToAddPcPlusImmediate, StructsNopToLdrdImmediate,
     StructsLdrLiteralToSubSpMinusImmediate, StructsSubRegisterToUxth, StructsUbfxToStrhRegister,
     StructsLdrbRegisterToMrs
<1>5. DOMAIN CasesAddSpPlusImmediateToSubRegister \subseteq declared
  BY DEF CasesAddSpPlusImmediateToSubRegister, StructsNopToLdrdImmediate,
     StructsLdrLiteralToSubSpMinusImmediate, StructsSubRegisterToUxth, StructsUbfxToStrhRegister,
     StructsLdrbRegisterToMrs
<1>6. DOMAIN CasesRsbRegisterToBicImmediate \subseteq declared
  BY DEF CasesRsbRegisterToBicImmediate, StructsNopToLdrdImmediate,
     StructsLdrLiteralToSubSpMinusImmediate, StructsSubRegisterToUxth, StructsUbfxToStrhRegister,
     StructsLdrbRegisterToMrs
<1>7. DOMAIN CasesMvnRegisterToDmb \subseteq declared
  BY DEF CasesMvnRegisterToDmb, StructsNopToLdrdImmediate,
     StructsLdrLiteralToSubSpMinusImmediate, StructsSubRegisterToUxth, StructsUbfxToStrhRegister,
     StructsLdrbRegisterToMrs
<1> HIDE DEF declared
<1>8. QED
  BY <1>1, <1>2, <1>3, <1>4, <1>5, <1>6, <1>7 DEF Cases, Merge

\* Where the fields of a struct of two or three lie.
LEMMA Offsets ==
    ASSUME NEW fields, NEW n \in {2, 3}, Len(fields) = n
    PROVE  LET second == Aligned(2, fields[1]) + SizeOf(fields[1])
               third == Aligned(second, fields[2]) + SizeOf(fields[2])
           IN  /\ OffsetOf(fields, 1) = Aligned(2, fields[1])
               /\ OffsetOf(fields, 2) = Aligned(second, fields[2])
               /\ n = 3 => OffsetOf(fields, 3) = Aligned(third, fields[3])
<1> DEFINE Step(f, i) == IF i = 0 THEN 2 ELSE Aligned(f[i - 1], fields[i]) + SizeOf(fields[i])
           End == CHOOSE f : f = [i \in 0 .. Len(fields) |-> Step(f, i)]
           second == Aligned(2, fields[1]) + SizeOf(fields[1])
           third == Aligned(second, fields[2]) + SizeOf(fields[2])
           fourth == Aligned(third, fields[3]) + SizeOf(fields[3])
           witness == [i \in 0 .. Len(fields) |->
                         IF i = 0 THEN 2 ELSE IF i = 1 THEN second ELSE IF i = 2 THEN third ELSE fourth]
<1>1. witness = [i \in 0 .. Len(fields) |-> Step(witness, i)]
  <2> HIDE DEF second, third, fourth
  <2>1. /\ witness[0] = 2 /\ witness[1] = second /\ witness[2] = third
        /\ n = 3 => witness[3] = fourth
    OBVIOUS
  <2>2. /\ Step(witness, 0) = 2 /\ Step(witness, 1) = second /\ Step(witness, 2) = third
        /\ n = 3 => Step(witness, 3) = fourth
    BY <2>1 DEF second, third, fourth
  <2> HIDE DEF Step
  <2>3. \A i \in 0 .. Len(fields) : witness[i] = Step(witness, i)
    BY <2>1, <2>2
  <2>4. QED
    BY <2>3
<1>2. End = [i \in 0 .. Len(fields) |-> Step(End, i)]
  <2> HIDE DEF Step, witness
  <2> QED
    BY <1>1
<1>3. End[0] = 2 /\ End[1] = second /\ (n = 3 => End[2] = third)
  <2> HIDE DEF End
  <2>1. \A i \in {0, 1, 2} : i <= n => End[i] = Step(End, i)
    BY <1>2
  <2>2. QED
    BY <2>1
<1>4. /\ OffsetOf(fields, 1) = Aligned(End[0], fields[1])
      /\ OffsetOf(fields, 2) = Aligned(End[1], fields[2])
      /\ OffsetOf(fields, 3) = Aligned(End[2], fields[3])
  <2>1. \A k : OffsetOf(fields, k) = Aligned(End[k - 1], fields[k])
    BY DEF OffsetOf
  <2>2. 1 - 1 = 0 /\ 2 - 1 = 1 /\ 3 - 1 = 2
    OBVIOUS
  <2> HIDE DEF End
  <2>3. QED
    BY <2>1, <2>2, Zenon
<1> HIDE DEF End, second, third
<1>5. QED
  BY <1>3, <1>4 DEF second, third

\* Every field that a case hands to Call lies where the decoder wrote it.
LEMMA PlacesFit == \A id \in DOMAIN Cases : ReadPlacement[id] \subseteq WrittenPlacement[id]
<1>1. SUFFICES ASSUME NEW id \in DOMAIN Cases
               PROVE  ReadPlacement[id] \subseteq WrittenPlacement[id]
  OBVIOUS
<1> DEFINE read == Layout[Cases[id].struct]
           written == Layout[id]
<1>2. Fits(id, Cases[id]) /\ id \in DOMAIN Layout
  BY CasesFit, StructsOfCases
<1>3. /\ ReadPlacement[id] = {<<read[k], OffsetOf(read, k)>> :
                                k \in {k \in DOMAIN read : read[k] \in Cases[id].args}}
      /\ WrittenPlacement[id] = {<<written[k], OffsetOf(written, k)>> : k \in DOMAIN written}
  BY <1>2 DEF ReadPlacement, WrittenPlacement, Placement
<1>4. read = written \/ (id = "kLdrLiteral" /\ Cases[id].struct = "kLdrImmediate")
  BY <1>2, SharedStructs DEF Fits
<1>5. CASE read = written
  <2> HIDE DEF read, written
  <2> QED
    BY <1>3, <1>5
<1>6. CASE id = "kLdrLiteral" /\ Cases[id].struct = "kLdrImmediate"
  <2>1. read = <<"t", "n", "imm32">> /\ written = <<"t", "imm32">>
    BY <1>6, SharedStructs
  <2>2. Cases[id].args = {"imm32", "t"}
    BY <1>6 DEF Cases, Merge, CasesLdrLiteralToAsrImmediate, UnaryLoadInstrImm, Case
  <2>3. /\ SizeOf("t") = 1 /\ SizeOf("n") = 1
        /\ Aligned(2, "t") = 2 /\ Aligned(3, "n") = 3 /\ Aligned(3, "imm32") = 4 /\ Aligned(4, "imm32") = 4
    BY DEF SizeOf, Aligned
  <2> HIDE DEF read, written
  <2>4. OffsetOf(read, 1) = 2 /\ OffsetOf(read, 3) = 4
    <3>1. Len(read) = 3 /\ read[1] = "t" /\ read[2] = "n" /\ read[3] = "imm32"
      BY <2>1
    <3>2. QED
      BY <2>3, <3>1, Offsets
  <2>5. OffsetOf(written, 1) = 2 /\ OffsetOf(written, 2) = 4
    <3>1. Len(written) = 2 /\ written[1] = "t" /\ written[2] = "imm32"
      BY <2>1
    <3>2. QED
      BY <2>3, <3>1, Offsets
  <2>6. DOMAIN read = {1, 2, 3} /\ DOMAIN written = {1, 2}
    BY <2>1
  <2>7. {<<read[k], OffsetOf(read, k)>> : k \in {k \in DOMAIN read : read[k] \in Cases[id].args}}
          \subseteq {<<"t", 2>>, <<"imm32", 4>>}
    BY <2>1, <2>2, <2>4, <2>6
  <2>8. {<<"t", 2>>, <<"imm32", 4>>} \subseteq {<<written[k], OffsetOf(written, k)>> : k \in DOMAIN written}
    BY <2>1, <2>5, <2>6
  <2>9. QED
    BY <1>3, <2>7, <2>8
<1>7. QED
  BY <1>4, <1>5, <1>6
==============================================================================
