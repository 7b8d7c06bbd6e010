----------------------------- MODULE MCInstrProgram ----------------------------
(* A small instance of InstrProgram for TLC. *)
EXTENDS InstrProgram

\* Every value of bits [15:6] below the 32-bit encodings, with several operand fields.
Narrow == {<<high * 64 + low, 0>> : high \in 0 .. 927, low \in {0, 9, 21, 45, 63}}

\* Every value of bits [15:4] of the 32-bit encodings, with several operand fields.
Wide == {<<57344 + kind * 2048 + op * 16 + n, t * 4096 + d * 256 + x * 16 + m>> :
           kind \in 1 .. 3, op \in 0 .. 127, n \in {0, 13, 15}, t \in {0, 15},
           d \in {2, 11, 13, 15}, x \in {0, 9}, m \in {1, 15}}

\* MSR from r1 to, and MRS to r2 from, a status register, both stack pointers and CONTROL.
SpecialRegisters == {<<\b1111001110000001, \b1000100000000000 + SYSm>> : SYSm \in {2, 8, 9, 20}}
               \cup {<<\b1111001111101111, \b1000001000000000 + SYSm>> : SYSm \in {2, 8, 9, 20}}

\* CMP, ADDS, SUBS, ADCS, SBCS, RSBS and ANDS of r0 and r1, MOVS, LDR, IT EQ, ITTE LT,
\* BEQ, CBZ, SVC, BLX r1, BX lr, BL and SDIV.
Sequence == {<<opcode, 0>> : opcode \in
    {\b0100001010001000, \b0001100001000010, \b0001101001000010, \b0100000101001000,
     \b0100001001001000, \b0100000000001000, \b0010000000000001,
     \b0110100000001000, \b1011111100001000, \b1011111110111010, \b1101000000000001,
     \b1011000100001000, \b1101111100000000, \b0100011110001000, \b0100011101110000}}
    \cup {<<\b1110101101110000, \b0000000000000001>>, <<\b1111000000000000, \b1111100000000001>>,
          <<\b1111101110010000, \b1111000011110001>>}

\* The first instruction may be anything; the run goes on in Sequence.
SequenceEnd == 24
Anything == 32
MCMemory == [step \in 0 .. MaxSteps - 1 |-> [pc \in Word |->
    CASE pc = Anything /\ step = 0 -> Narrow \cup Wide \cup SpecialRegisters
      [] pc < SequenceEnd -> Sequence
      [] OTHER -> {}]]

Cpu(pc, r, istate, flag) ==
    [r |-> [id \in GeneralRegisters |-> IF id < 2 THEN r[id + 1] ELSE (5 * id + 3) % (2 * Half)],
     sp |-> [kSpMain |-> 16, kSpProcess |-> 48], pc |-> pc,
     apsr |-> [n |-> flag, z |-> flag, c |-> flag, v |-> FALSE], istate |-> istate,
     thumb |-> TRUE, nPriv |-> FALSE, spsel |-> FALSE, divByZeroTrap |-> TRUE, pending |-> {}]

\* Boundary values for the sequences.  Anything is executed outside an IT block, as its
\* last instruction, in its middle, and where its condition fails.  One IT state is none.
MCStarts ==
    {Cpu(0, <<x, y>>, 0, FALSE) : x, y \in {0, 1, 31, 32, 63}}
    \cup {Cpu(Anything, <<3, 8>>, 0, FALSE), Cpu(Anything, <<0, 63>>, \b00001000, TRUE),
          Cpu(Anything, <<32, 63>>, \b00000100, TRUE), Cpu(Anything, <<3, 8>>, \b00011000, TRUE),
          Cpu(0, <<0, 0>>, \b00010000, FALSE)}
\* ADD pc, r1 as the only instruction.
JumpMemory == [step \in 0 .. MaxSteps - 1 |-> [pc \in Word |-> {<<\b0100010010001111, 0>>}]]
MCLoaded == {1, 62}
=============================================================================
