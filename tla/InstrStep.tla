------------------------------- MODULE InstrStep -------------------------------
(***************************************************************************)
(* One instruction after the other: fetched, decoded with the IT state of  *)
(* the processor, and executed on its registers (processor.h from FETCH to *)
(* EXECUTE, executor.h, executor/instr/*.h, pc_ops.h, if_then_ops.h).      *)
(*                                                                         *)
(* The machine is in thread mode; what the pending exceptions do is the    *)
(* subject of Processor.  Memory may hold any of the given opcodes where   *)
(* pc points, a load delivers any word of Loaded, and the bus may refuse   *)
(* any access, which makes BusFault pending and delivers zero.  Addresses  *)
(* are words of Width bits.                                                *)
(***************************************************************************)
EXTENDS DecoderTree, InstrOps

CONSTANTS
    Memory,    \* for each instruction of a run and each address, the pairs of
               \* halfwords that may lie there
    Starts,    \* processor states to start from
    Loaded,    \* words that a load delivers
    MaxSteps   \* bound on the instructions executed

VARIABLES
    cpu,       \* the registers, see CpuStates
    phase,     \* "fetch", "execute" or "stopped"
    instr,     \* the decoded instruction
    status,    \* the status code that stopped the emulator
    failed,    \* whose assertions about this instruction are false
    steps      \* instructions executed, at most MaxSteps

vars == <<cpu, phase, instr, status, failed, steps>>

kSp == 13
kPc == 15
GeneralRegisters == (0 .. 12) \cup {14}
Stacks == {"kSpMain", "kSpProcess"}
CpuStates ==
    [r : [GeneralRegisters -> Word], sp : [Stacks -> Word], pc : Word,
     apsr : [n : BOOLEAN, z : BOOLEAN, c : BOOLEAN, v : BOOLEAN], istate : 0 .. 255,
     thumb : BOOLEAN, nPriv : BOOLEAN, spsel : BOOLEAN, divByZeroTrap : BOOLEAN,
     pending : SUBSET {"kBusFault", "kUsageFault", "kSVCall", "kHardFault"}]

ASSUME MaxStepsAssumption == MaxSteps \in Nat
ASSUME MemoryAssumption ==
    \A step \in 0 .. MaxSteps - 1, pc \in Word : Memory[step][pc] \subseteq Nat \X Nat
ASSUME StartsAssumption == \A c \in Starts : c \in CpuStates /\ c.pc % 2 = 0
ASSUME LoadedAssumption == Loaded \subseteq Word
\* The two bits of CONTROL fit a register.
ASSUME ControlAssumption == Half >= 2

(***************************************************************************)
(* Registers (reg_ops.h).  LookUpSP compares the masked bit 3 of SysCtrl   *)
(* with 1, and a pc is never written by WriteRegister.                     *)
(***************************************************************************)
LookUpSP(c) == IF 8 * AsBit(c.spsel) = 1 THEN "kSpProcess" ELSE "kSpMain"
ReadPC(c) == Truncate(c.pc + 4)
ReadRegister(c, id) ==
    CASE id = kSp -> c.sp[LookUpSP(c)]
      [] id = kPc -> ReadPC(c)
      [] id \in GeneralRegisters -> c.r[id]
WriteRegister(c, id, value) ==
    CASE id = kSp -> [c EXCEPT !.sp[LookUpSP(c)] = value]
      [] id = kPc -> c
      [] id \in GeneralRegisters -> [c EXCEPT !.r[id] = value]
Raise(c, exception) == [c EXCEPT !.pending = @ \cup {exception}]

(***************************************************************************)
(* Program counter, IT state and flags (pc_ops.h, if_then_ops.h,           *)
(* post_exec.h).                                                           *)
(***************************************************************************)
BranchTo(c, address) == [c EXCEPT !.pc = Truncate(address)]
BranchWritePC(c, address) == BranchTo(c, address - (address % 2))
BXWritePC(c, address) == [BranchWritePC(c, address) EXCEPT !.thumb = (address % 2 = 1)]
AdvanceIt(c) == [c EXCEPT !.istate = ITAdvance(@)]
AdvanceInstr(c, flags) == BranchTo(c, c.pc + IF "k32Bit" \in flags THEN 4 ELSE 2)
AdvancePcAndIt(c, flags) == AdvanceInstr(AdvanceIt(c), flags)

SetFlags(c, res) ==
    [c EXCEPT !.apsr = [n |-> Negative(res.value), z |-> res.value = 0,
                        c |-> res.carry_out, v |-> res.overflow]]
OptionalSetFlags(c, flags, res) == IF "kSetFlags" \in flags THEN SetFlags(c, res) ELSE c

ConditionPassed(apsr, cond) ==
    LET cond_3_1 == cond \div 2
        result == \/ cond_3_1 = \b000 /\ apsr.z
                  \/ cond_3_1 = \b001 /\ apsr.c
                  \/ cond_3_1 = \b010 /\ apsr.n
                  \/ cond_3_1 = \b011 /\ apsr.v
                  \/ cond_3_1 = \b100 /\ apsr.c /\ ~apsr.z
                  \/ cond_3_1 = \b101 /\ apsr.n = apsr.v
                  \/ cond_3_1 = \b110 /\ apsr.n = apsr.v /\ ~apsr.z
                  \/ cond_3_1 = \b111
    IN  IF cond % 2 = 1 /\ cond # 15 THEN ~result ELSE result

(***************************************************************************)
(* Fetch and decode.  A debug build asserts that the decoded instruction   *)
(* has the width it was fetched with (processor.h:107-112).                 *)
(***************************************************************************)
Raw32Bit(opcode) == Bits(opcode[1], 15, 11) \in {\b11101, \b11110, \b11111}
Fetch(opcode) == [low |-> opcode[1], high |-> IF Raw32Bit(opcode) THEN opcode[2] ELSE 0]

Stop(code) == phase' = "stopped" /\ status' = code

Decodes(opcode, decoding) ==
    /\ decoding.status = "kSuccess"
    /\ instr' = decoding.instr
    /\ failed' = decoding.failed \cup
                    When(Raw32Bit(opcode) # ("k32Bit" \in decoding.instr.flags), "processor")
    /\ phase' = "execute"
    /\ UNCHANGED <<cpu, status, steps>>

DecodeFails(decoding) ==
    /\ decoding.status # "kSuccess"
    /\ Stop(decoding.status)
    /\ failed' = decoding.failed
    /\ UNCHANGED <<cpu, instr, steps>>

Decode ==
    /\ phase = "fetch"
    /\ cpu.thumb
    /\ steps < MaxSteps
    /\ \E opcode \in Memory[steps][cpu.pc] :
         LET decoding == call_decoder(Fetch(opcode), cpu.istate)
         IN  Decodes(opcode, decoding) \/ DecodeFails(decoding)

(***************************************************************************)
(* What Execute hands to Call.                                             *)
(***************************************************************************)
Handled == instr.id \in DOMAIN Cases
case == Cases[instr.id]
class == case.class
flags == CallFlags(instr)
Arg(name) == IF name = "n" /\ case.base = "Sp" THEN kSp ELSE instr.fields[name]
Read(name) == ReadRegister(cpu, Arg(name))
HasFlag(flag) == flag \in flags

Done(c, asserts) ==
    /\ cpu' = c
    /\ failed' = failed \cup When(~asserts, "executor")
    /\ phase' = "fetch"
    /\ steps' = steps + 1
    /\ UNCHANGED <<instr, status>>
Fails(c, code, asserts) ==
    /\ cpu' = c
    /\ failed' = failed \cup When(~asserts, "executor")
    /\ Stop(code)
    /\ UNCHANGED <<instr, steps>>
Advances(c, asserts) == Done(AdvancePcAndIt(c, flags), asserts)

\* These calls do not ask for the condition of an IT block.
\* Mutant: nor does SVC.
UnconditionalSvc == {"ItInstr", "BCond", "BinaryBranchInstrWithImm", "Bkpt", "Svc"}
Unconditional == {"ItInstr", "BCond", "BinaryBranchInstrWithImm", "Bkpt"}
Condition == CurrentCond(cpu.istate)
Passes == Condition.status = "kSuccess" /\ ConditionPassed(cpu.apsr, Condition.cond)
Executes(classes) == Handled /\ class \in classes /\ (class \in Unconditional \/ Passes)

ConditionUnknown ==
    /\ Handled /\ class \notin Unconditional
    /\ Condition.status # "kSuccess"
    /\ Fails(cpu, Condition.status, TRUE)

ConditionFails ==
    /\ Handled /\ class \notin Unconditional
    /\ Condition.status = "kSuccess"
    /\ ~ConditionPassed(cpu.apsr, Condition.cond)
    /\ Advances(cpu, TRUE)

\* The default branch of the switch.
Unhandled ==
    /\ ~Handled
    /\ Done(cpu, TRUE)

(***************************************************************************)
(* Data processing.                                                        *)
(***************************************************************************)
Computes(host) ==
    LET op == case.op
        apsr == cpu.apsr
    IN  CASE class = "UnaryInstr" -> UnaryOp(op, apsr, Read("m"))
          [] class = "BinaryInstr" -> BinaryOp(op, apsr, Read("n"), Read("m"), host)
          [] class = "BinaryInstrWithImm" -> BinaryImmOp(op, apsr, Read("n"), Arg("imm32"))
          [] class = "BinaryInstrWithRotation" -> RotationOp(op, Read("m"), Arg("rotation"))
          [] class = "BinaryInstrWithShift" ->
               BinaryShiftOp(op, apsr, Read("m"), Arg("shift_res"), host)
          [] class = "UnaryInstrImm" -> AddToPcImmOp(ReadPC(cpu), HasFlag("kAdd"), Arg("imm32"))
          [] class = "UnaryInstrImmCarry" -> UnaryImmCarryOp(op, apsr, Arg("imm32_carry"))
          [] class = "BinaryInstrWithImmCarry" ->
               BinaryImmCarryOp(op, apsr, Read("n"), Arg("imm32_carry"))
          [] class = "TernaryInstr" -> TernaryOp(op, apsr, Read("n"), Read("m"), Read("a"))
          [] class = "TernaryInstrWithShift" ->
               TernaryShiftOp(op, apsr, Read("n"), Read("m"), Arg("shift_res"), host)
ComputingClasses ==
    {"UnaryInstr", "BinaryInstr", "BinaryInstrWithImm", "BinaryInstrWithRotation",
     "BinaryInstrWithShift", "UnaryInstrImm", "UnaryInstrImmCarry", "BinaryInstrWithImmCarry",
     "TernaryInstr", "TernaryInstrWithShift"}

Divides == case.op \in {"UDiv2Op", "SDiv2Op"}
DividesByZero == Divides /\ Read("m") = 0 /\ cpu.divByZeroTrap
DivisionOverflows == case.op = "SDiv2Op" /\ Read("n") = Half /\ Read("m") = Not(0)

WriteResult(host) ==
    /\ Executes(ComputingClasses)
    /\ ~(class = "UnaryInstr" /\ Arg("d") = kPc)
    /\ LET result == Computes(host)
           raised == IF DividesByZero THEN Raise(cpu, "kUsageFault") ELSE cpu
       IN  Advances(OptionalSetFlags(WriteRegister(raised, Arg("d"), result.value), flags, result),
                    Arg("d") # kPc)

\* Unary operations branch to their result and leave the flags alone.
WriteResultToPc(host) ==
    /\ Executes({"UnaryInstr"})
    /\ Arg("d") = kPc
    /\ Done(AdvanceIt(BranchWritePC(cpu, Computes(host).value)), TRUE)

\* The quotient of the least word by -1 is undefined; hosts that trap end the emulator.
HostDivisionTraps ==
    /\ Executes({"BinaryInstr"})
    /\ DivisionOverflows
    /\ Fails(cpu, "kHostTrap", TRUE)

Compares(host) ==
    CASE class = "BinaryNullInstrWithImm" -> BinaryNullImmOp(case.op, Read("n"), Arg("imm32"))
      [] class = "BinaryNullInstrWithImmCarry" ->
           BinaryNullImmCarryOp(case.op, cpu.apsr, Read("n"), Arg("imm32_carry"))
      [] class = "TernaryNullInstrWithShift" ->
           TernaryNullShiftOp(case.op, cpu.apsr, Read("n"), Read("m"), Arg("shift_res"), host)
ComparingClasses ==
    {"BinaryNullInstrWithImm", "BinaryNullInstrWithImmCarry", "TernaryNullInstrWithShift"}

Compare(host) ==
    /\ Executes(ComparingClasses)
    /\ Advances(SetFlags(cpu, Compares(host)), TRUE)

MultiplyLong ==
    /\ Executes({"Binary64bitInstr"})
    /\ LET result == LongOp(case.op, Read("n"), Read("m"), Read("dLo"))
           low == WriteRegister(cpu, Arg("dLo"), result.lo)
       IN  Advances(WriteRegister(low, Arg("dHi"), result.hi), kPc \notin {Arg("dLo"), Arg("dHi")})

InsertBitField(host) ==
    /\ Executes({"Bfi"})
    /\ Arg("msbit") >= Arg("lsbit")
    /\ LET result == BfiOp(Read("n"), Read("d"), Arg("lsbit"), Arg("msbit"), host)
       IN  Advances(WriteRegister(cpu, Arg("d"), result), Arg("d") # kPc)

UbfxMsbit == Arg("lsbit") + Arg("widthminus1")
ExtractBitField(host) ==
    /\ Executes({"Ubfx"})
    /\ UbfxMsbit <= 31
    /\ LET result == UbfxOp(Read("n"), Arg("lsbit"), UbfxMsbit, host)
       IN  Advances(WriteRegister(cpu, Arg("d"), result), Arg("d") # kPc)

BitFieldFails ==
    /\ \/ Executes({"Bfi"}) /\ Arg("msbit") < Arg("lsbit")
       \/ Executes({"Ubfx"}) /\ UbfxMsbit > 31
    /\ Fails(cpu, "kExecutorUnpredictable", TRUE)

(***************************************************************************)
(* Loads.  A refused read delivers zero and execution goes on: base and    *)
(* target are written whether or not the bus answered.                     *)
(***************************************************************************)
Offset(host) ==
    IF "shift_res" \in DOMAIN instr.fields
    THEN Shifted(cpu.apsr, Read("m"), Arg("shift_res"), host).result
    ELSE Arg("imm32")
Displaced(base, host) == Truncate(IF HasFlag("kAdd") THEN base + Offset(host) ELSE base - Offset(host))
Accessed(refused) == IF refused THEN Raise(cpu, "kBusFault") ELSE cpu
\* Mutant: post-indexed accesses leave the base.
WriteBackIndexed(c, host) ==
    IF HasFlag("kWBack") /\ HasFlag("kIndex") THEN WriteRegister(c, Arg("n"), Displaced(Read("n"), host)) ELSE c
WriteBack(c, host) ==
    IF HasFlag("kWBack") THEN WriteRegister(c, Arg("n"), Displaced(Read("n"), host)) ELSE c
WriteBackHolds == HasFlag("kWBack") => Arg("n") # kPc

LoadMem(op, word) ==
    Truncate(CASE op = "LoadMemU8" -> word % 256
               [] op = "LoadMemI8" -> SignExtend(word % 256, 7)
               [] op = "LoadMemU16" -> word % 65536
               [] op = "LoadMemI16" -> SignExtend(word % 65536, 15)
               [] op \in {"LoadMemU32", "LoadMemExU32"} -> word)
Data(refused, word) == IF refused THEN 0 ELSE LoadMem(case.op, word)

LoadClasses == {"UnaryLoadInstrImm", "BinaryLoadInstrWithImm", "TernaryLoadInstrWithShift"}
LoadAddress(host) ==
    CASE class = "UnaryLoadInstrImm" -> Displaced(ReadPC(cpu) - (ReadPC(cpu) % 4), host)
      [] class # "UnaryLoadInstrImm" /\ HasFlag("kIndex") -> Displaced(Read("n"), host)
      [] class # "UnaryLoadInstrImm" /\ ~HasFlag("kIndex") -> Read("n")
LoadBased(refused, host) ==
    IF class = "UnaryLoadInstrImm" THEN Accessed(refused) ELSE WriteBack(Accessed(refused), host)
LoadHolds == class # "UnaryLoadInstrImm" => WriteBackHolds

LoadRegister(host, refused, word) ==
    /\ Executes(LoadClasses)
    /\ Arg("t") # kPc
    /\ Advances(WriteRegister(LoadBased(refused, host), Arg("t"), Data(refused, word)), LoadHolds)

LoadPc(host, refused, word) ==
    /\ Executes(LoadClasses)
    /\ Arg("t") = kPc
    /\ LoadAddress(host) % 4 = 0
    /\ Done(AdvanceIt(BXWritePC(LoadBased(refused, host), Data(refused, word))), LoadHolds)

LoadPcUnaligned(host, refused) ==
    /\ Executes(LoadClasses)
    /\ Arg("t") = kPc
    /\ LoadAddress(host) % 4 # 0
    /\ Fails(LoadBased(refused, host), "kExecutorUnpredictable", LoadHolds)

LoadDouble(refused, word) ==
    /\ Executes({"Ldrd"})
    /\ LET data == IF refused THEN 0 ELSE word
           first == WriteRegister(WriteBack(Accessed(refused), "masks"), Arg("t"), data)
       IN  Advances(WriteRegister(first, Arg("t2"), data),
                    WriteBackHolds /\ kPc \notin {Arg("t"), Arg("t2")})

(***************************************************************************)
(* Loads and stores of a list of registers, in ascending order; the bus    *)
(* refuses the accesses of the registers from refusedFrom on.              *)
(***************************************************************************)
List == BitsOf(Arg("registers"))
ListAccessed(refusedFrom) == Accessed(\E id \in List : id >= refusedFrom)
LoadList(c, value) ==
    LET general == [c EXCEPT !.r = [id \in GeneralRegisters |->
                       IF id \in List THEN value[id] ELSE @[id]]]
    IN  IF kSp \in List THEN WriteRegister(general, kSp, value[kSp]) ELSE general
ListWriteBack(c, base) ==
    IF HasFlag("kWBack") THEN WriteRegister(c, Arg("n"), Truncate(base)) ELSE c

LoadMultiple(refusedFrom, word) ==
    /\ Executes({"VariadicLoadInstr"})
    /\ LET value == [id \in 0 .. 15 |-> IF id >= refusedFrom THEN 0 ELSE word]
           loaded == LoadList(ListAccessed(refusedFrom), value)
           moved == IF kPc \in List THEN AdvanceIt(BXWritePC(loaded, value[kPc]))
                    ELSE AdvancePcAndIt(loaded, flags)
       IN  Done(IF Arg("n") \in List THEN moved
                ELSE ListWriteBack(moved, Read("n") + 4 * Cardinality(List)), Arg("n") # kPc)

\* lowest_bit_set is a bool: it tells whether the lowest register is not r0.
BaseRefused ==
    HasFlag("kWBack") /\ Arg("n") \in List /\ AsBit(Min(List) # 0) = Arg("n")

StoreMultiple(refusedFrom) ==
    /\ Executes({"VariadicStoreInstr"})
    /\ ~BaseRefused
    /\ Advances(ListWriteBack(ListAccessed(refusedFrom), Read("n") + 4 * Cardinality(List)),
                WriteBackHolds)

StoreMultipleRefusesBase ==
    /\ Executes({"VariadicStoreInstr"})
    /\ BaseRefused
    /\ Fails(cpu, "kExecutorUndefined", TRUE)

StoreMultipleDb(refusedFrom) ==
    /\ Executes({"VariadicStoreInstrDb"})
    /\ Advances(ListWriteBack(ListAccessed(refusedFrom), Read("n") - 4 * Cardinality(List)),
                WriteBackHolds)

(***************************************************************************)
(* Stores.  A store exclusive always reports success.                      *)
(***************************************************************************)
StoreRegister(host, refused) ==
    /\ Executes({"BinaryStoreInstrWithImm", "TernaryStoreInstrWithShift"})
    /\ Advances(WriteBack(Accessed(refused), host),
                WriteBackHolds /\ (class = "TernaryStoreInstrWithShift" => HasFlag("kAdd")))

StoreExclusive(refused) ==
    /\ Executes({"TernaryStoreInstrWithImm"})
    /\ Advances(WriteBack(WriteRegister(Accessed(refused), Arg("d"), 0), "masks"),
                WriteBackHolds /\ Arg("d") # kPc)

StoreDouble(refused) ==
    /\ Executes({"Strd"})
    /\ Advances(WriteBack(Accessed(refused), "masks"), WriteBackHolds)

(***************************************************************************)
(* Branches.                                                               *)
(***************************************************************************)
\* Mutant: the link register has no Thumb bit.
LinkedPlain(address) == WriteRegister(cpu, 14, Truncate(address - (address % 2)))
Linked(address) == WriteRegister(cpu, 14, Truncate(address - (address % 2) + 1))

\* Mutant: the IT state is left alone.
BranchImmediateKeepsIt ==
    /\ Executes({"UnaryBranchInstrImm"})
    /\ Done(BranchWritePC(IF case.op = "Bl1ImmOp" THEN Linked(ReadPC(cpu)) ELSE cpu,
                          ReadPC(cpu) + Arg("imm32")), TRUE)

BranchImmediate ==
    /\ Executes({"UnaryBranchInstrImm"})
    /\ Done(AdvanceIt(BranchWritePC(IF case.op = "Bl1ImmOp" THEN Linked(ReadPC(cpu)) ELSE cpu,
                                    ReadPC(cpu) + Arg("imm32"))), TRUE)

BranchExchange ==
    /\ Executes({"UnaryBranchInstr"})
    /\ Done(AdvanceIt(BXWritePC(IF case.op = "Blx1Op" THEN Linked(ReadPC(cpu) - 2) ELSE cpu,
                                Read("m"))), TRUE)

TableEntry(refused, word) ==
    IF refused THEN 0 ELSE word % (IF HasFlag("kTbh") THEN 65536 ELSE 256)
\* The IT state is not advanced.
TableBranch(refused, word) ==
    /\ Executes({"BinaryBranchInstr"})
    /\ Done(BranchWritePC(Accessed(refused), ReadPC(cpu) + 2 * TableEntry(refused, word)), TRUE)

CompareAndBranch ==
    /\ Executes({"BinaryBranchInstrWithImm"})
    /\ IF (Read("n") # 0) = HasFlag("kNonZero")
       THEN Done(BranchWritePC(cpu, ReadPC(cpu) + Arg("imm32")), TRUE)
       ELSE Advances(cpu, TRUE)

BranchConditional ==
    /\ Executes({"BCond"})
    /\ IF ConditionPassed(cpu.apsr, Arg("cond"))
       THEN Done(BranchWritePC(cpu, ReadPC(cpu) + Arg("imm32")), TRUE)
       ELSE Advances(cpu, TRUE)

(***************************************************************************)
(* Special instructions.  A delegate may handle SVC or BKPT and omit the   *)
(* exception.                                                              *)
(***************************************************************************)
IfThen ==
    /\ Executes({"ItInstr"})
    /\ Done(AdvanceInstr([cpu EXCEPT !.istate = Arg("firstcond") * 16 + Arg("mask")], flags), TRUE)

Call(omitsException) ==
    /\ Executes({"Svc", "Bkpt"})
    /\ Advances(IF omitsException THEN cpu
                ELSE Raise(cpu, IF class = "Svc" THEN "kSVCall" ELSE "kHardFault"), TRUE)

SpecialRegister ==
    CASE Arg("SYSm") = \b00001000 -> "kSpMain"
      [] Arg("SYSm") = \b00001001 -> "kSpProcess"
      [] Arg("SYSm") = \b00010100 -> "kControl"
      [] OTHER -> "unsupported"

MoveToSpecial ==
    /\ Executes({"Msr"})
    /\ LET n == Read("n")
       IN  Advances(CASE SpecialRegister \in Stacks -> [cpu EXCEPT !.sp[SpecialRegister] = n]
                      [] SpecialRegister = "kControl" /\ ~cpu.nPriv ->
                           [cpu EXCEPT !.nPriv = (n % 2 = 1), !.spsel = (Bit(n, 1) = 1)]
                      [] OTHER -> cpu,
                    SpecialRegister # "unsupported")

MoveFromSpecial ==
    /\ Executes({"Mrs"})
    /\ LET value == CASE SpecialRegister \in Stacks -> cpu.sp[SpecialRegister]
                      [] SpecialRegister = "kControl" -> AsBit(cpu.nPriv) + 2 * AsBit(cpu.spsel)
                      [] OTHER -> 0
       IN  Advances(WriteRegister(cpu, Arg("d"), value),
                    SpecialRegister # "unsupported" /\ Arg("d") # kPc)

NoOperation ==
    /\ Executes({"NullaryInstr"})
    /\ Advances(cpu, TRUE)

(***************************************************************************)
(* The specification.                                                      *)
(***************************************************************************)
Init ==
    /\ cpu \in Starts
    /\ phase = "fetch"
    /\ instr = InvalidInstr
    /\ status = "kSuccess"
    /\ failed = {}
    /\ steps = 0

ExecuteData ==
    \/ \E host \in Hosts :
         \/ WriteResult(host)
         \/ WriteResultToPc(host)
         \/ Compare(host)
         \/ InsertBitField(host)
         \/ ExtractBitField(host)
    \/ HostDivisionTraps
    \/ MultiplyLong
    \/ BitFieldFails

ExecuteMemory ==
    \/ \E host \in Hosts, refused \in BOOLEAN :
         \/ \E word \in Loaded : LoadRegister(host, refused, word)
         \/ \E word \in Loaded : LoadPc(host, refused, word)
         \/ LoadPcUnaligned(host, refused)
         \/ StoreRegister(host, refused)
    \/ \E refused \in BOOLEAN :
         \/ \E word \in Loaded : LoadDouble(refused, word)
         \/ StoreExclusive(refused)
         \/ StoreDouble(refused)
    \/ \E refusedFrom \in 0 .. 16, word \in Loaded : LoadMultiple(refusedFrom, word)
    \/ \E refusedFrom \in 0 .. 16 : StoreMultiple(refusedFrom)
    \/ \E refusedFrom \in 0 .. 16 : StoreMultipleDb(refusedFrom)
    \/ StoreMultipleRefusesBase

ExecuteBranch ==
    \/ BranchImmediate
    \/ BranchExchange
    \/ \E refused \in BOOLEAN, word \in Loaded : TableBranch(refused, word)
    \/ CompareAndBranch
    \/ BranchConditional

ExecuteSpecial ==
    \/ IfThen
    \/ \E omitsException \in BOOLEAN : Call(omitsException)
    \/ MoveToSpecial
    \/ MoveFromSpecial
    \/ NoOperation

Execute ==
    /\ phase = "execute"
    /\ \/ ConditionUnknown
       \/ ConditionFails
       \/ Unhandled
       \/ ExecuteData
       \/ ExecuteMemory
       \/ ExecuteBranch
       \/ ExecuteSpecial

Next ==
    \/ Decode
    \/ Execute

Spec == Init /\ [][Next]_vars

(***************************************************************************)
(* Properties.                                                             *)
(***************************************************************************)
Executed(ids) == phase = "execute" /\ steps' # steps /\ instr.id \in ids

\* Registers stay within their width, and the phases follow one another.
InstrTypeOK ==
    /\ cpu \in CpuStates
    /\ phase \in {"fetch", "execute", "stopped"}
    /\ (phase = "stopped") = (status # "kSuccess")
    /\ steps \in 0 .. MaxSteps

\* Whatever the decoder lets through has a case in the executor, and the fields that
\* case hands to Call lie where the decoder wrote them: several cases read a struct of
\* the union that belongs to another instruction (executor.h, instr.h).
Dispatched ==
    phase = "execute" /\ "decoder" \notin failed =>
        /\ Handled
        /\ ReadPlacement[instr.id] \subseteq WrittenPlacement[instr.id]

\* An encoding that passes the decoder's own assertions was decoded with the width it
\* was fetched with (processor.h:110), and no Call is handed a register it asserts is not
\* the pc, a store with subtracted index, or the like (post_exec.h:114).  MSR and MRS
\* assert that the special register is a supported one, which depends on the program.
\* The decoders of SMULL, STREX and ADD (register) let a pc through that Call cannot write.
PcSlipsThrough ==
    \/ instr.id \in {"kSmull", "kStrex"}
    \/ instr.id = "kAddRegister" /\ instr.fields.d = kPc
AssertionsHold ==
    /\ "decoder" \notin failed
    /\ instr.id \notin {"kMsr", "kMrs"}
    /\ ~PcSlipsThrough
    => failed = {}

\* No instruction that the decoder lets through has the pc as a destination that Call
\* excludes: assert(arg.Get() != RegisterId::kPc) (post_exec.h:114).
PcExcluded == "decoder" \notin failed => "executor" \notin failed

\* An instruction whose condition in the IT block is false changes nothing but pc and
\* IT state, whatever its class: those that do not ask for the condition are refused by
\* the decoder inside a block, but for BKPT.
SkippedKeepsState ==
    [][ LET owed == Bits(cpu.istate, 7, 4)
        IN  /\ phase = "execute" /\ "decoder" \notin failed /\ steps' # steps
            /\ InITBlock(cpu.istate) /\ ~ConditionPassed(cpu.apsr, owed) /\ instr.id # "kBkpt"
            => cpu' = [cpu EXCEPT !.pc = cpu'.pc, !.istate = cpu'.istate] ]_vars

\* Only the last instruction of an IT block may branch, for the IT state would follow it
\* to its target.  MOV.W to the pc is the one the decoder lets through (op_decoders.h:616).
MidBlockFallsThrough ==
    [][ /\ phase = "execute" /\ steps' # steps /\ MidITBlock(cpu.istate)
        /\ "decoder" \notin failed
        /\ ~(instr.id = "kMovRegister" /\ HasFlag("k32Bit"))
        => cpu'.pc = AdvanceInstr(cpu, flags).pc ]_vars

\* A 16-bit instruction sets the flags outside an IT block only, except for comparisons:
\* the decoders decide that from the IT state they are called with.
NarrowKeepsFlags ==
    [][ /\ phase = "execute" /\ steps' # steps
        /\ InITBlock(cpu.istate) /\ "k32Bit" \notin instr.flags
        => Handled /\ (class \in ComparingClasses \/ cpu'.apsr = cpu.apsr) ]_vars

\* A load with write-back leaves both its results: the base moved by the offset and, in
\* the target, what memory held.  The executor writes one after the other; that they are
\* two registers is up to the decoder.
WriteBackSurvives ==
    [][ /\ Executed({"kLdrImmediate", "kLdrbImmediate", "kLdrhImmediate", "kLdrsbImmediate",
                     "kLdrshImmediate"})
        /\ Passes /\ HasFlag("kWBack") /\ "kBusFault" \notin cpu'.pending
        => /\ ReadRegister(cpu', Arg("n")) = Displaced(Read("n"), "masks")
           /\ Arg("t") # kPc =>
                ReadRegister(cpu', Arg("t")) \in {LoadMem(case.op, word) : word \in Loaded} ]_vars

\* The link register of BL and BLX, also of BLX through the link register itself, leads
\* back to the instruction after the call, in Thumb state (unary_branch_instr.h).
CallReturns ==
    [][ Executed({"kBl", "kBlx"}) /\ Passes =>
          LET back == BXWritePC(cpu', cpu'.r[14])
          IN  back.thumb /\ back.pc = AdvanceInstr(cpu, flags).pc ]_vars
==============================================================================
