----------------------------- MODULE ExecutorTable -----------------------------
(***************************************************************************)
(* The dispatch of Executor::Execute (executor/executor.h): for the id of  *)
(* a decoded instruction, the class whose Call executes it, the operation  *)
(* that class is instantiated with, the struct of the union that is read,  *)
(* and the fields handed to Call.  An id without a case here falls into    *)
(* the default branch, which does nothing.                                 *)
(***************************************************************************)
EXTENDS InstrFormat

Case(class, op, struct, args) ==
    [class |-> class, op |-> op, struct |-> struct, args |-> args, base |-> "n"]

\* The base register is the template argument RArgConst<RegisterId::kSp>.
OnSp(case) ==
    [case EXCEPT !.base = "Sp", !.args = @ \ {"n"}]

(***************************************************************************)
(* The templates of executor/instr/*.h and the parameters of their Call.   *)
(***************************************************************************)
UnaryLoadInstrImm(op, struct) == Case("UnaryLoadInstrImm", op, struct, {"imm32", "t"})
UnaryInstr(op, struct) == Case("UnaryInstr", op, struct, {"d", "m"})
BinaryLoadInstrWithImm(op, struct) == Case("BinaryLoadInstrWithImm", op, struct, {"t", "n", "imm32"})
Binary64bitInstr(op, struct) == Case("Binary64bitInstr", op, struct, {"dLo", "dHi", "n", "m"})
Msr(struct) == Case("Msr", "None", struct, {"n", "mask", "SYSm"})
Mrs(struct) == Case("Mrs", "None", struct, {"d", "mask", "SYSm"})
Ldrd(struct) == Case("Ldrd", "None", struct, {"t", "t2", "n", "imm32"})
\* Mutant: the struct of LSL (immediate) is read for every shift by an immediate.
BinaryInstrWithShiftOfLsl(op, struct) == Case("BinaryInstrWithShift", op, "kLslImmediate", {"d", "m", "shift_res"})
BinaryInstrWithShift(op, struct) == Case("BinaryInstrWithShift", op, struct, {"d", "m", "shift_res"})
BinaryInstr(op, struct) == Case("BinaryInstr", op, struct, {"d", "n", "m"})
TernaryNullInstrWithShift(op, struct) == Case("TernaryNullInstrWithShift", op, struct, {"m", "n", "shift_res"})
BinaryNullInstrWithImm(op, struct) == Case("BinaryNullInstrWithImm", op, struct, {"n", "imm32"})
ItInstr(struct) == Case("ItInstr", "None", struct, {"firstcond", "mask"})
UnaryInstrImmCarry(op, struct) == Case("UnaryInstrImmCarry", op, struct, {"d", "imm32_carry"})
BinaryInstrWithRotation(op, struct) == Case("BinaryInstrWithRotation", op, struct, {"d", "m", "rotation"})
BCond(struct) == Case("BCond", "None", struct, {"imm32", "cond"})
BinaryBranchInstr(op, struct) == Case("BinaryBranchInstr", op, struct, {"n", "m"})
UnaryBranchInstrImm(op, struct) == Case("UnaryBranchInstrImm", op, struct, {"imm32"})
BinaryBranchInstrWithImm(op, struct) == Case("BinaryBranchInstrWithImm", op, struct, {"n", "imm32"})
UnaryBranchInstr(op, struct) == Case("UnaryBranchInstr", op, struct, {"m"})
BinaryInstrWithImm(op, struct) == Case("BinaryInstrWithImm", op, struct, {"d", "n", "imm32"})
UnaryInstrImm(op, struct) == Case("UnaryInstrImm", op, struct, {"d", "imm32"})
BinaryNullInstrWithImmCarry(op, struct) == Case("BinaryNullInstrWithImmCarry", op, struct, {"n", "imm32_carry"})
BinaryInstrWithImmCarry(op, struct) == Case("BinaryInstrWithImmCarry", op, struct, {"d", "n", "imm32_carry"})
Ubfx(struct) == Case("Ubfx", "None", struct, {"d", "n", "lsbit", "widthminus1"})
Bfi(struct) == Case("Bfi", "None", struct, {"d", "n", "lsbit", "msbit"})
TernaryInstr(op, struct) == Case("TernaryInstr", op, struct, {"d", "n", "m", "a"})
TernaryInstrWithShift(op, struct) == Case("TernaryInstrWithShift", op, struct, {"d", "n", "m", "shift_res"})
VariadicStoreInstrDb(struct) == Case("VariadicStoreInstrDb", "None", struct, {"n", "registers"})
VariadicStoreInstr(struct) == Case("VariadicStoreInstr", "None", struct, {"n", "registers"})
VariadicLoadInstr(struct) == Case("VariadicLoadInstr", "None", struct, {"n", "registers"})
Strd(struct) == Case("Strd", "None", struct, {"t", "t2", "n", "imm32"})
TernaryStoreInstrWithShift(op, struct) == Case("TernaryStoreInstrWithShift", op, struct, {"t", "n", "m", "shift_res"})
TernaryLoadInstrWithShift(op, struct) == Case("TernaryLoadInstrWithShift", op, struct, {"t", "n", "m", "shift_res"})
BinaryStoreInstrWithImm(op, struct) == Case("BinaryStoreInstrWithImm", op, struct, {"t", "n", "imm32"})
TernaryStoreInstrWithImm(op, struct) == Case("TernaryStoreInstrWithImm", op, struct, {"d", "t", "n", "imm32"})
Svc(struct) == Case("Svc", "None", struct, {"imm32"})
Bkpt(struct) == Case("Bkpt", "None", struct, {"imm32"})
NullaryInstr(op, struct) == Case("NullaryInstr", op, struct, {})

(***************************************************************************)
(* The cases, in the order of the switch.                                  *)
(***************************************************************************)
CasesLdrLiteralToAsrImmediate ==
    [kLdrLiteral |-> UnaryLoadInstrImm("LoadMemU32", "kLdrImmediate"),
     kClz |-> UnaryInstr("Clz1Op", "kClz"),
     kLdrsbImmediate |-> BinaryLoadInstrWithImm("LoadMemI8", "kLdrsbImmediate"),
     kLdrbImmediate |-> BinaryLoadInstrWithImm("LoadMemU8", "kLdrbImmediate"),
     kLdrImmediate |-> BinaryLoadInstrWithImm("LoadMemU32", "kLdrImmediate"),
     kLdrex |-> BinaryLoadInstrWithImm("LoadMemExU32", "kLdrex"),
     kUmull |-> Binary64bitInstr("Umull2Op", "kUmull"),
     kMsr |-> Msr("kMsr"),
     kMrs |-> Mrs("kMrs"),
     kUmlal |-> Binary64bitInstr("Umlal2Op", "kUmlal"),
     kSmull |-> Binary64bitInstr("Smull2Op", "kSmull"),
     kLdrdImmediate |-> Ldrd("kLdrdImmediate"),
     kLdrhImmediate |-> BinaryLoadInstrWithImm("LoadMemU16", "kLdrhImmediate"),
     kLdrshImmediate |-> BinaryLoadInstrWithImm("LoadMemI16", "kLdrshImmediate"),
     kAsrImmediate |-> BinaryInstrWithShift("Asr1ShiftOp", "kAsrImmediate")]

CasesLslImmediateToSxth ==
    [kLslImmediate |-> BinaryInstrWithShift("Lsl1ShiftOp", "kLslImmediate"),
     kLsrRegister |-> BinaryInstr("Lsr2Op", "kLsrRegister"),
     kAsrRegister |-> BinaryInstr("Asr2Op", "kAsrRegister"),
     kLslRegister |-> BinaryInstr("Lsl2Op", "kLsrRegister"),
     kCmpRegister |-> TernaryNullInstrWithShift("Cmp2ShiftOp", "kCmpRegister"),
     kCmpImmediate |-> BinaryNullInstrWithImm("Cmp1ImmOp", "kCmpImmediate"),
     kCmnImmediate |-> BinaryNullInstrWithImm("Cmn1ImmOp", "kCmpImmediate"),
     kIt |-> ItInstr("kIt"),
     kMovImmediate |-> UnaryInstrImmCarry("MovImmCarryOp", "kMovImmediate"),
     kMvnImmediate |-> UnaryInstrImmCarry("MvnImmCarryOp", "kMvnImmediate"),
     kMovRegister |-> UnaryInstr("Mov1Op", "kMovRegister"),
     kRrx |-> UnaryInstr("Rrx1Op", "kRrx"),
     kUxtb |-> BinaryInstrWithRotation("Uxtb1Rotation", "kUxtb"),
     kSxtb |-> BinaryInstrWithRotation("Sxtb1Rotation", "kSxtb"),
     kSxth |-> BinaryInstrWithRotation("Sxth1Rotation", "kSxth")]

CasesUxthToAddPcPlusImmediate ==
    [kUxth |-> BinaryInstrWithRotation("Uxth1Rotation", "kUxth"),
     kBCond |-> BCond("kBCond"),
     kTbbH |-> BinaryBranchInstr("TbbH2Op", "kTbbH"),
     kB |-> UnaryBranchInstrImm("B1ImmOp", "kB"),
     kBl |-> UnaryBranchInstrImm("Bl1ImmOp", "kB"),
     kCbNZ |-> BinaryBranchInstrWithImm("CbNZ1ImmOp", "kCbNZ"),
     kBx |-> UnaryBranchInstr("Bx1Op", "kBx"),
     kBlx |-> UnaryBranchInstr("Blx1Op", "kBlx"),
     kSubImmediate |-> BinaryInstrWithImm("Sub1ImmOp", "kSubImmediate"),
     kSbcImmediate |-> BinaryInstrWithImm("Sbc1ImmOp", "kSbcImmediate"),
     kRsbImmediate |-> BinaryInstrWithImm("Rsb1ImmOp", "kRsbImmediate"),
     kSubSpMinusImmediate |-> OnSp(BinaryInstrWithImm("Sub1ImmOp", "kSubSpMinusImmediate")),
     kAddImmediate |-> BinaryInstrWithImm("Add1ImmOp", "kAddImmediate"),
     kAdcImmediate |-> BinaryInstrWithImm("Adc1ImmOp", "kAdcImmediate"),
     kAddPcPlusImmediate |-> UnaryInstrImm("AddToPcImmOp", "kAddPcPlusImmediate")]

CasesAddSpPlusImmediateToSubRegister ==
    [kAddSpPlusImmediate |-> OnSp(BinaryInstrWithImm("Add1ImmOp", "kAddSpPlusImmediate")),
     kTeqImmediate |-> BinaryNullInstrWithImmCarry("Teq1ImmCarryOp", "kTeqImmediate"),
     kTstImmediate |-> BinaryNullInstrWithImmCarry("Tst1ImmCarryOp", "kTstImmediate"),
     kTstRegister |-> TernaryNullInstrWithShift("Tst2ShiftOp", "kTstRegister"),
     kTeqRegister |-> TernaryNullInstrWithShift("Teq2ShiftOp", "kTeqRegister"),
     kEorImmediate |-> BinaryInstrWithImmCarry("Eor1ImmCarryOp", "kEorImmediate"),
     kOrrImmediate |-> BinaryInstrWithImmCarry("Orr1ImmCarryOp", "kOrrImmediate"),
     kAndImmediate |-> BinaryInstrWithImmCarry("And1ImmCarryOp", "kAndImmediate"),
     kUbfx |-> Ubfx("kUbfx"),
     kBfi |-> Bfi("kBfi"),
     kUdiv |-> BinaryInstr("UDiv2Op", "kUdiv"),
     kSdiv |-> BinaryInstr("SDiv2Op", "kSdiv"),
     kMul |-> BinaryInstr("Mul2Op", "kMul"),
     kMls |-> TernaryInstr("Mls3Op", "kMls"),
     kMla |-> TernaryInstr("Mla3Op", "kMla"),
     kSubRegister |-> TernaryInstrWithShift("Sub2ShiftOp", "kSubRegister")]

CasesRsbRegisterToBicImmediate ==
    [kRsbRegister |-> TernaryInstrWithShift("Rsb2ShiftOp", "kRsbRegister"),
     kAdcRegister |-> TernaryInstrWithShift("Adc2ShiftOp", "kAdcRegister"),
     kAddRegister |-> TernaryInstrWithShift("Add2ShiftOp", "kAddRegister"),
     kPush |-> OnSp(VariadicStoreInstrDb("kPush")),
     kStm |-> VariadicStoreInstr("kLdm"),
     kLdm |-> VariadicLoadInstr("kLdm"),
     kPop |-> OnSp(VariadicLoadInstr("kPop")),
     kOrrRegister |-> TernaryInstrWithShift("Orr2ShiftOp", "kOrrRegister"),
     kSbcRegister |-> TernaryInstrWithShift("Sbc2ShiftOp", "kSbcRegister"),
     kEorRegister |-> TernaryInstrWithShift("Eor2ShiftOp", "kEorRegister"),
     kAndRegister |-> TernaryInstrWithShift("And2ShiftOp", "kAndRegister"),
     kBicRegister |-> TernaryInstrWithShift("Bic2ShiftOp", "kBicRegister"),
     kBicImmediate |-> BinaryInstrWithImmCarry("Bic1ImmCarryOp", "kBicImmediate")]

CasesMvnRegisterToDmb ==
    [kMvnRegister |-> BinaryInstrWithShift("Mvn1ShiftOp", "kLsrImmediate"),
     kLsrImmediate |-> BinaryInstrWithShift("Lsr1ShiftOp", "kLsrImmediate"),
     kStrdImmediate |-> Strd("kStrdImmediate"),
     kStrRegister |-> TernaryStoreInstrWithShift("StoreMemU32", "kStrRegister"),
     kStrbRegister |-> TernaryStoreInstrWithShift("StoreMemU8", "kStrhRegister"),
     kStrhRegister |-> TernaryStoreInstrWithShift("StoreMemU16", "kStrhRegister"),
     kLdrhRegister |-> TernaryLoadInstrWithShift("LoadMemU16", "kLdrhRegister"),
     kLdrbRegister |-> TernaryLoadInstrWithShift("LoadMemU8", "kLdrbRegister"),
     kLdrRegister |-> TernaryLoadInstrWithShift("LoadMemU32", "kLdrRegister"),
     kStrImmediate |-> BinaryStoreInstrWithImm("StoreMemU32", "kStrImmediate"),
     kStrex |-> TernaryStoreInstrWithImm("StoreMemExU32", "kStrex"),
     kStrhImmediate |-> BinaryStoreInstrWithImm("StoreMemU16", "kStrhImmediate"),
     kStrbImmediate |-> BinaryStoreInstrWithImm("StoreMemU8", "kStrbImmediate"),
     kSvc |-> Svc("kSvc"),
     kBkpt |-> Bkpt("kBkpt"),
     kNop |-> NullaryInstr("Nop0Op", "kNop"),
     kDmb |-> NullaryInstr("Dmb0Op", "kDmb")]

Cases == Merge(CasesLdrLiteralToAsrImmediate,
         Merge(CasesLslImmediateToSxth,
         Merge(CasesUxthToAddPcPlusImmediate,
         Merge(CasesAddSpPlusImmediateToSubRegister,
         Merge(CasesRsbRegisterToBicImmediate, CasesMvnRegisterToDmb)))))

(***************************************************************************)
(* The flags handed to Call: PUSH and POP are executed as store and load   *)
(* multiple with write-back and keep only the size of the encoding.        *)
(***************************************************************************)
CallFlags(instr) ==
    IF instr.id \in {"kPush", "kPop"} THEN {"kWBack"} \cup (instr.flags \cap {"k32Bit"})
    ELSE instr.flags

(***************************************************************************)
(* Where Call finds an argument: at the offset of the struct it reads,     *)
(* which need not be the struct the decoder filled.                        *)
(***************************************************************************)
ReadPlacement == [id \in DOMAIN Cases |->
    LET fields == Layout[Cases[id].struct]
    IN  {<<fields[k], OffsetOf(fields, k)>> :
            k \in {k \in DOMAIN fields : fields[k] \in Cases[id].args}}]
WrittenPlacement == [struct \in DOMAIN Layout |-> Placement(struct)]
==============================================================================
