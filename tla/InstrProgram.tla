------------------------------- MODULE InstrProgram ----------------------------
(***************************************************************************)
(* Instructions in sequence: what one leaves for a later one to find.  The *)
(* history variable setter keeps what the flags were last computed from,   *)
(* over as many words as a chain of ADC or SBC has added or subtracted.    *)
(***************************************************************************)
EXTENDS InstrStep

VARIABLE setter    \* [op, x, y, value, radix]: value is x op y, of numbers below radix

Setter(op, x, y, value, radix) ==
    [op |-> op, x |-> x, y |-> y, value |-> value, radix |-> radix]
Unknown == Setter("unknown", 0, 0, 0, 1)

AddOps == {"Add1ImmOp", "Add2ShiftOp", "Cmn1ImmOp"}
SubOps == {"Sub1ImmOp", "Sub2ShiftOp", "Cmp1ImmOp", "Cmp2ShiftOp"}
RsbOps == {"Rsb1ImmOp", "Rsb2ShiftOp"}
AdcOps == {"Adc1ImmOp", "Adc2ShiftOp"}
SbcOps == {"Sbc1ImmOp", "Sbc2ShiftOp"}

SetsFlags ==
    /\ Handled
    /\ class \in Unconditional \/ Passes
    /\ class \in ComparingClasses \/ (class \in ComputingClasses /\ HasFlag("kSetFlags"))
Operand == IF "imm32" \in DOMAIN instr.fields THEN Truncate(Arg("imm32")) ELSE Read("m")
\* The history follows operands that are not shifted and results that are kept: one for
\* the pc is not written.
Followed ==
    /\ "shift_res" \in DOMAIN instr.fields => Arg("shift_res") = ImmShift("LSL", 0)
    /\ "d" \in DOMAIN instr.fields => Arg("d") # kPc
\* A comparison writes no result.
Written(difference) ==
    IF class \in ComparingClasses THEN Truncate(difference) ELSE ReadRegister(cpu', Arg("d"))

WordRadix == 2 * Half
First(op, x, y) == Setter(op, x, y, Written(IF op = "add" THEN x + y ELSE x - y), WordRadix)
Extended(op) ==
    Setter(op, setter.x + Read("n") * setter.radix, setter.y + Operand * setter.radix,
           setter.value + Written(0) * setter.radix, WordRadix * setter.radix)

SetterAfter ==
    CASE ~SetsFlags -> setter
      [] SetsFlags /\ Followed /\ case.op \in AddOps -> First("add", Read("n"), Operand)
      [] SetsFlags /\ Followed /\ case.op \in SubOps -> First("sub", Read("n"), Operand)
      [] SetsFlags /\ Followed /\ case.op \in RsbOps -> First("sub", Operand, Read("n"))
      [] SetsFlags /\ Followed /\ case.op \in AdcOps /\ setter.op = "add" -> Extended("add")
      [] SetsFlags /\ Followed /\ case.op \in SbcOps /\ setter.op = "sub" -> Extended("sub")
      [] OTHER -> Unknown

ProgramInit == Init /\ setter = Unknown
ProgramNext ==
    \/ Decode /\ UNCHANGED setter
    \/ Execute /\ setter' = SetterAfter
programVars == <<vars, setter>>
ProgramSpec == ProgramInit /\ [][ProgramNext]_programVars

(***************************************************************************)
(* Properties.                                                             *)
(***************************************************************************)
SignedBelow(radix, x) == IF 2 * x >= radix THEN x - radix ELSE x

\* The relation that the name of a condition states between the numbers compared.
Relation(cond, x, y, radix) ==
    LET sx == SignedBelow(radix, x)
        sy == SignedBelow(radix, y)
    IN  CASE cond = \b0000 -> x = y
          [] cond = \b0001 -> x # y
          [] cond = \b0010 -> x >= y
          [] cond = \b0011 -> x < y
          [] cond = \b1000 -> x > y
          [] cond = \b1001 -> x <= y
          [] cond = \b1010 -> sx >= sy
          [] cond = \b1011 -> sx < sy
          [] cond = \b1100 -> sx > sy
          [] cond = \b1101 -> sx <= sy
\* Those that do not ask for Z hold for numbers of several words.
RelationsOf(radix) ==
    IF radix = WordRadix THEN {\b0000, \b0001, \b0010, \b0011, \b1000, \b1001, \b1010, \b1011, \b1100, \b1101}
    ELSE {\b0010, \b0011, \b1010, \b1011}

\* After a comparison or subtraction, however many words SBCS has carried it through and
\* whatever else was executed since, a condition passes exactly when the relation it is
\* named for holds between the numbers, unsigned or signed (if_then_ops.h, alu.h).
CompareDecides ==
    setter.op = "sub" =>
        \A cond \in RelationsOf(setter.radix) :
            ConditionPassed(cpu.apsr, cond) = Relation(cond, setter.x, setter.y, setter.radix)

\* ADDS and ADCS, or SUBS and SBCS, give the sum or difference of numbers of several
\* words, with the carry of the whole in C and its signed overflow in V.
CarryChains ==
    LET radix == setter.radix
        total == IF setter.op = "add" THEN setter.x + setter.y ELSE setter.x - setter.y
        signed == IF setter.op = "add"
                  THEN SignedBelow(radix, setter.x) + SignedBelow(radix, setter.y)
                  ELSE SignedBelow(radix, setter.x) - SignedBelow(radix, setter.y)
    IN  setter.op # "unknown" =>
            /\ setter.value = total % radix
            /\ cpu.apsr.c = (IF setter.op = "add" THEN total >= radix ELSE total >= 0)
            /\ cpu.apsr.v = (2 * signed >= radix \/ 2 * signed < -radix)

(***************************************************************************)
(* The IT state as the conditions owed: bits [7:5] with, in turn, each bit *)
(* from [4] down to the one before the last that is set.                   *)
(***************************************************************************)
Owed(istate) ==
    IF ~InITBlock(istate) THEN <<>>
    ELSE [k \in 1 .. 4 - Min(BitsOf(Bits(istate, 3, 0))) |-> Bits(istate, 7, 5) * 2 + Bit(istate, 5 - k)]

Met ==
    IF phase # "execute" THEN [kind |-> "none", conds |-> <<>>]
    ELSE IF instr.id = "kIt"
         THEN [kind |-> "it", conds |-> Owed(Arg("firstcond") * 16 + Arg("mask"))]
    ELSE [kind |-> IF instr.id = "kStmdb" \/ (instr.id = "kTbbH" /\ Passes) THEN "keeps" ELSE "uses",
          conds |-> <<>>]

Block == INSTANCE ItBlock WITH owed <- Owed(cpu.istate), next <- Met, retired <- steps

\* The IT state, advanced by some thirty classes of instructions each in its own way, does
\* what ItBlock promises (if_then_ops.h, post_exec.h).
IsItBlock == Block!Spec
==============================================================================
