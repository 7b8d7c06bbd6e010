------------------------------- MODULE InstrProofs ------------------------------
(***************************************************************************)
(* Proofs about instructions in sequence, for words of every size, every   *)
(* memory, every word that a load delivers and every bus.                  *)
(*                                                                         *)
(* First the arithmetic of the ALU and the operations of the executor:     *)
(* each delivers a word and flags.  Then the registers, and for each call  *)
(* of Execute what it may do, Outcome.  From these follow the inductive    *)
(* invariant IInv, what a step may never do, that a program is an ItBlock, *)
(* and that the flags are those of all the words added or subtracted.      *)
(***************************************************************************)
EXTENDS InstrProgram, DecoderProofs, ArithmeticFacts, FiniteSetTheorems

------------------------------------------------------------------------------
(* Sums and differences (alu.h) *)

InSignedRange(n) == -Half <= n /\ n <= Half - 1

LEMMA NotIsWord ==
    ASSUME NEW x \in Word
    PROVE  /\ Not(x) \in Word
           /\ Signed(Not(x)) = -Signed(x) - 1
  BY HalfAssumption DEF Word, Not, Signed, Negative

\* Value and carry of AddWithCarry (alu.h:34) are the sum; its overflow tells whether the
\* sum of the operands, taken as signed numbers, is one of the word.
THEOREM SumCorrect ==
    ASSUME NEW x \in Word, NEW y \in Word, NEW carry_in \in BOOLEAN
    PROVE  LET sum == AddWithCarry(x, y, carry_in)
               signed == Signed(x) + Signed(y) + AsBit(carry_in)
           IN  /\ sum.value \in Word
               /\ sum.value + 2 * Half * AsBit(sum.carry_out) = x + y + AsBit(carry_in)
               /\ sum.overflow <=> ~InSignedRange(signed)
               /\ ~sum.overflow => Signed(sum.value) = signed
<1> DEFINE unsigned_sum == x + y + AsBit(carry_in)
           value == IF unsigned_sum >= 2 * Half THEN unsigned_sum - 2 * Half ELSE unsigned_sum
           signed == Signed(x) + Signed(y) + AsBit(carry_in)
           sum == AddWithCarry(x, y, carry_in)
<1>1. AsBit(carry_in) \in {0, 1}
  BY DEF AsBit
<1>2. sum.value = value /\ sum.carry_out = (unsigned_sum >= 2 * Half)
  BY DEF AddWithCarry
<1>3. sum.overflow = (Negative(x) # Negative(value) /\ Negative(y) # Negative(value))
  BY DEF AddWithCarry
<1> HIDE DEF sum
<1>4. value \in Word
  BY <1>1, HalfAssumption DEF Word
<1>5. value + 2 * Half * AsBit(unsigned_sum >= 2 * Half) = unsigned_sum
  BY <1>1, HalfAssumption DEF Word, AsBit
<1>6. (Negative(x) # Negative(value) /\ Negative(y) # Negative(value)) <=> ~InSignedRange(signed)
  BY <1>1, HalfAssumption DEF Word, Negative, Signed, InSignedRange
<1>7. InSignedRange(signed) => Signed(value) = signed
  BY <1>1, HalfAssumption DEF Word, Negative, Signed, InSignedRange
<1>8. QED
  BY <1>2, <1>3, <1>4, <1>5, <1>6, <1>7 DEF sum

\* The flags of a comparison, AddWithCarry(x, NOT(y), 1), decide the relations that the
\* conditions are named for: Z equality, C unsigned and N = V signed order
\* (if_then_ops.h:178-243).
THEOREM ComparisonDecides ==
    ASSUME NEW x \in Word, NEW y \in Word
    PROVE  LET difference == AddWithCarry(x, Not(y), TRUE)
           IN  /\ difference.value = 0 <=> x = y
               /\ difference.carry_out <=> x >= y
               /\ Negative(difference.value) = difference.overflow <=> Signed(x) >= Signed(y)
<1> DEFINE difference == AddWithCarry(x, Not(y), TRUE)
<1>1. /\ Not(y) \in Word
      /\ Signed(Not(y)) = -Signed(y) - 1
      /\ AsBit(TRUE) = 1
  BY NotIsWord DEF AsBit
<1>2. LET sum == AddWithCarry(x, Not(y), TRUE)
          signed == Signed(x) + Signed(Not(y)) + AsBit(TRUE)
      IN  /\ sum.value \in Word
          /\ sum.value + 2 * Half * AsBit(sum.carry_out) = x + Not(y) + AsBit(TRUE)
          /\ sum.overflow <=> ~InSignedRange(signed)
          /\ ~sum.overflow => Signed(sum.value) = signed
  BY <1>1, SumCorrect
<1>3. QED
  BY <1>1, <1>2, HalfAssumption
  DEF Word, Not, Negative, Signed, InSignedRange, AsBit, AddWithCarry

\* ADC after ADD: when the low words, numbers below some R, add to low with a carry, the
\* next words added with that carry give the sum of the numbers of one word more.
THEOREM CarryExtendsSum ==
    ASSUME NEW x \in Word, NEW y \in Word, NEW carry \in BOOLEAN, NEW R \in Nat \ {0},
           NEW xLow \in 0 .. R - 1, NEW yLow \in 0 .. R - 1, NEW low \in 0 .. R - 1,
           low + R * AsBit(carry) = xLow + yLow
    PROVE  LET high == AddWithCarry(x, y, carry)
           IN  high.value * R + low + 2 * Half * R * AsBit(high.carry_out)
                 = (x * R + xLow) + (y * R + yLow)
<1> DEFINE high == AddWithCarry(x, y, carry)
<1>1. high.value \in Word /\ high.value + 2 * Half * AsBit(high.carry_out) = x + y + AsBit(carry)
  BY SumCorrect
<1>2. AsBit(carry) \in {0, 1} /\ AsBit(high.carry_out) \in {0, 1}
  BY DEF AsBit
<1>3. /\ x \in Nat /\ y \in Nat /\ high.value \in Nat /\ 2 * Half \in Nat
  BY <1>1, HalfAssumption DEF Word
<1> HIDE DEF high
<1>4. (high.value + 2 * Half * AsBit(high.carry_out)) * R = (x + y + AsBit(carry)) * R
  BY <1>1
<1>5. high.value * R + 2 * Half * R * AsBit(high.carry_out) = x * R + y * R + R * AsBit(carry)
  BY <1>2, <1>3, <1>4, HalfAssumption
<1>6. QED
  BY <1>2, <1>3, <1>5, HalfAssumption DEF high

------------------------------------------------------------------------------
(* Powers of two and the bits of a word *)

LEMMA Powers ==
    /\ \A b \in 0 .. 2 * Width : Power(b) \in Nat \ {0} /\ Power(b + 1) = 2 * Power(b)
    /\ Power(0) = 1
    /\ Power(Width) = 2 * Half
<1>1. Power(0) = 1
  BY DEF Power
<1>2. Width - 1 \in 0 .. 2 * Width /\ (Width - 1) + 1 = Width
  BY WidthAssumption
<1>3. Power(Width) = 2 * Power(Width - 1)
  BY <1>2, PowerAssumption
<1>4. QED
  BY <1>1, <1>3, PowerAssumption, WidthAssumption

LEMMA BitOf ==
    \A x, b : Bit(x, b) = (x \div Power(b)) % 2
  BY Zenon DEF Bit, Power

\* A power is a multiple of every lower one, by an even number.
LEMMA PowerSplits ==
    ASSUME NEW n \in 0 .. Width, NEW b \in 0 .. Width, b < n
    PROVE  \E j \in Nat : Power(n) = Power(b) * (2 * j)
<1> DEFINE T == {d \in Nat : \A c \in 0 .. Width : c + 1 + d <= Width =>
                                \E j \in Nat : Power(c + 1 + d) = Power(c) * (2 * j)}
<1>0. Width \in Nat
  BY WidthAssumption
<1>1. 0 \in T
  <2>1. SUFFICES ASSUME NEW c \in 0 .. Width, c + 1 <= Width
                 PROVE  \E j \in Nat : Power(c + 1) = Power(c) * (2 * j)
    BY <1>0
  <2>2. Power(c) \in Nat /\ Power(c + 1) = 2 * Power(c)
    BY <1>0, Powers
  <2>3. Power(c + 1) = Power(c) * (2 * 1) /\ 1 \in Nat
    BY <2>2
  <2>4. QED
    BY <2>3
<1>2. ASSUME NEW d \in Nat, d \in T PROVE d + 1 \in T
  <2>1. SUFFICES ASSUME NEW c \in 0 .. Width, c + 1 + (d + 1) <= Width
                 PROVE  \E j \in Nat : Power(c + 1 + (d + 1)) = Power(c) * (2 * j)
    OBVIOUS
  <2>2. c \in Nat /\ c + 1 + d \in 0 .. 2 * Width /\ c + 1 + d <= Width /\ (c + 1 + d) + 1 = c + 1 + (d + 1)
    BY <1>0, <2>1
  <2>3. PICK j \in Nat : Power(c + 1 + d) = Power(c) * (2 * j)
    BY <1>2, <2>2
  <2>4. Power(c + 1 + (d + 1)) = 2 * Power(c + 1 + d) /\ Power(c) \in Nat
    BY <1>0, <2>2, Powers
  <2>5. Power(c + 1 + (d + 1)) = Power(c) * (2 * (2 * j)) /\ 2 * j \in Nat
    BY <2>3, <2>4
  <2>6. QED
    BY <2>5
<1>3. \A d \in Nat : d \in T
  <2> HIDE DEF T
  <2> QED
    BY <1>1, <1>2, SetInduction
<1>4. n - b - 1 \in Nat /\ b + 1 + (n - b - 1) = n /\ n <= Width
  BY <1>0
<1>5. n - b - 1 \in T
  <2> HIDE DEF T
  <2> QED
    BY <1>3, <1>4
<1>6. b + 1 + (n - b - 1) <= Width =>
        \E j \in Nat : Power(b + 1 + (n - b - 1)) = Power(b) * (2 * j)
  BY <1>5
<1>7. QED
  BY <1>4, <1>6

\* Adding a multiple of a higher power leaves a bit.
LEMMA BitBelow ==
    ASSUME NEW y \in Nat, NEW p \in Nat \ {0}, NEW j \in Nat
    PROVE  ((y + p * (2 * j)) \div p) % 2 = (y \div p) % 2
<1> DEFINE q == y \div p
           t == y % p
<1>1. q \in Nat /\ t \in 0 .. p - 1 /\ y = q * p + t
  BY DivMod
<1> HIDE DEF q, t
<1>2. y + p * (2 * j) = (q + 2 * j) * p + t
  BY <1>1
<1>3. (y + p * (2 * j)) \div p = q + 2 * j
  BY <1>1, <1>2
<1>4. (q + 2 * j) % 2 = q % 2
  BY <1>1
<1>5. QED
  BY <1>3, <1>4 DEF q

\* Every set of bits is that of a word.
LEMMA WordOfBits ==
    ASSUME NEW bits \in SUBSET (0 .. Width - 1)
    PROVE  \E x \in Word : Ones(x) = bits
<1> DEFINE Has(n, s, x) == \A b \in 0 .. n - 1 : Bit(x, b) = 1 <=> b \in s
           T == {n \in Nat : n <= Width =>
                    \A s \in SUBSET (0 .. n - 1) : \E x \in 0 .. Power(n) - 1 : Has(n, s, x)}
<1>0. Width \in Nat
  BY WidthAssumption
<1>1. 0 \in T
  <2>1. 0 \in 0 .. Power(0) - 1
    BY Powers
  <2>2. \A s : Has(0, s, 0)
    OBVIOUS
  <2> HIDE DEF Has
  <2>3. QED
    BY <2>1, <2>2
<1>2. ASSUME NEW n \in Nat, n \in T PROVE n + 1 \in T
  <2>1. SUFFICES ASSUME n + 1 <= Width, NEW s \in SUBSET (0 .. n)
                 PROVE  \E x \in 0 .. Power(n + 1) - 1 : Has(n + 1, s, x)
    <3>1. (n + 1) - 1 = n
      OBVIOUS
    <3> HIDE DEF Has
    <3> QED
      BY <3>1
  <2>2. /\ n \in 0 .. Width /\ n \in 0 .. 2 * Width /\ n <= Width /\ n < Width
        /\ Power(n) \in Nat \ {0} /\ Power(n + 1) = 2 * Power(n)
    <3>1. n \in 0 .. Width /\ n \in 0 .. 2 * Width /\ n < Width
      BY <1>0, <2>1
    <3>2. QED
      BY <3>1, Powers
  <2>3. PICK y \in 0 .. Power(n) - 1 : Has(n, s \ {n}, y)
    <3>1. s \ {n} \in SUBSET (0 .. n - 1)
      OBVIOUS
    <3> HIDE DEF Has
    <3> QED
      BY <1>2, <2>2, <3>1
  <2>4. y \in Nat /\ y < Power(n)
    BY <2>2
  <2>5. CASE n \notin s
    <3>1. y \in 0 .. Power(n + 1) - 1
      BY <2>2
    <3>2. Bit(y, n) = 0
      <4>1. y \div Power(n) = 0
        BY <2>2, <2>4
      <4>2. QED
        BY <4>1, BitOf
    <3>3. Has(n + 1, s, y)
      <4>1. SUFFICES ASSUME NEW b \in 0 .. n PROVE Bit(y, b) = 1 <=> b \in s
        OBVIOUS
      <4>2. CASE b = n
        BY <2>5, <3>2, <4>2
      <4>3. CASE b # n
        <5>1. b \in 0 .. n - 1
          BY <4>3
        <5>2. QED
          BY <2>3, <2>5, <5>1
      <4>4. QED
        BY <4>2, <4>3
    <3> HIDE DEF Has
    <3>4. QED
      BY <3>1, <3>3
  <2>6. CASE n \in s
    <3> DEFINE x == y + Power(n)
    <3>1. x \in 0 .. Power(n + 1) - 1
      BY <2>2
    <3>2. Bit(x, n) = 1
      <4>1. x \div Power(n) = 1
        BY <2>2, <2>4
      <4>2. QED
        BY <4>1, BitOf
    <3>3. \A b \in 0 .. n - 1 : Bit(x, b) = Bit(y, b)
      <4>1. SUFFICES ASSUME NEW b \in 0 .. n - 1 PROVE Bit(x, b) = Bit(y, b)
        OBVIOUS
      <4>2. b \in 0 .. Width /\ b < n /\ b \in 0 .. 2 * Width
        BY <1>0, <2>2
      <4>3. PICK j \in Nat : Power(n) = Power(b) * (2 * j)
        BY <2>2, <4>2, PowerSplits
      <4>4. Power(b) \in Nat \ {0}
        BY <4>2, Powers
      <4>5. ((y + Power(b) * (2 * j)) \div Power(b)) % 2 = (y \div Power(b)) % 2
        BY <2>4, <4>4, BitBelow
      <4>6. QED
        BY <4>3, <4>5, BitOf
    <3> HIDE DEF x
    <3>4. Has(n + 1, s, x)
      <4>1. SUFFICES ASSUME NEW b \in 0 .. n PROVE Bit(x, b) = 1 <=> b \in s
        OBVIOUS
      <4>2. CASE b = n
        BY <2>6, <3>2, <4>2
      <4>3. CASE b # n
        <5>1. b \in 0 .. n - 1
          BY <4>3
        <5>2. QED
          BY <2>3, <3>3, <4>3, <5>1
      <4>4. QED
        BY <4>2, <4>3
    <3> HIDE DEF Has
    <3>5. QED
      BY <3>1, <3>4
  <2>7. QED
    BY <2>5, <2>6
<1>3. \A n \in Nat : n \in T
  <2> HIDE DEF T
  <2> QED
    BY <1>1, <1>2, SetInduction
<1>4. PICK x \in 0 .. Power(Width) - 1 : Has(Width, bits, x)
  <2> HIDE DEF Has
  <2> QED
    BY <1>0, <1>3
<1>5. x \in Word
  BY Powers DEF Word
<1>6. Ones(x) = bits
  BY <1>4 DEF Ones
<1>7. QED
  BY <1>5, <1>6

\* What the bitwise operations return, bit by bit.
LEMMA FromOnesIsWord ==
    ASSUME NEW bits \in SUBSET (0 .. Width - 1)
    PROVE  FromOnes(bits) \in Word /\ Ones(FromOnes(bits)) = bits
  BY WordOfBits DEF FromOnes

\* AND, OR and EOR of two words have the bits that both, one or exactly one of them has: the
\* operators of the host language that alu.h relies on, for words of every size.
THEOREM BitwiseCorrect ==
    ASSUME NEW x, NEW y
    PROVE  /\ AND(x, y) \in Word /\ Ones(AND(x, y)) = Ones(x) \cap Ones(y)
           /\ OR(x, y) \in Word /\ Ones(OR(x, y)) = Ones(x) \cup Ones(y)
           /\ EOR(x, y) \in Word
           /\ Ones(EOR(x, y)) = (Ones(x) \ Ones(y)) \cup (Ones(y) \ Ones(x))
<1>1. /\ Ones(x) \cap Ones(y) \in SUBSET (0 .. Width - 1)
      /\ Ones(x) \cup Ones(y) \in SUBSET (0 .. Width - 1)
      /\ (Ones(x) \ Ones(y)) \cup (Ones(y) \ Ones(x)) \in SUBSET (0 .. Width - 1)
  BY DEF Ones
<1>2. QED
  BY <1>1, FromOnesIsWord DEF AND, OR, EOR

------------------------------------------------------------------------------
(* Shifts and operations deliver words and flags *)

Delivers(res) == res.value \in Word /\ res.carry_out \in BOOLEAN /\ res.overflow \in BOOLEAN

LEMMA TruncateIsWord ==
    ASSUME NEW x \in Int
    PROVE  Truncate(x) \in Word
  BY HalfAssumption DEF Truncate, Word

LEMMA OpResultDelivers ==
    ASSUME NEW value \in Int, NEW carry_out \in BOOLEAN, NEW overflow \in BOOLEAN
    PROVE  Delivers(OpResult(value, carry_out, overflow))
<1>1. Truncate(value) \in Word
  BY TruncateIsWord
<1>2. QED
  BY <1>1, Zenon DEF Delivers, OpResult

LEMMA SumDelivers ==
    ASSUME NEW x \in Int, NEW y \in Int, NEW carry_in \in BOOLEAN
    PROVE  Delivers(Sum(x, y, carry_in))
<1> DEFINE sum == AddWithCarry(x, y, carry_in)
<1>1. AsBit(carry_in) \in {0, 1}
  BY DEF AsBit
<1>2. sum.value \in Int
  BY <1>1, HalfAssumption DEF AddWithCarry
<1>3. sum.carry_out \in BOOLEAN /\ sum.overflow \in BOOLEAN
  BY DEF AddWithCarry
<1> HIDE DEF sum
<1>4. QED
  BY <1>2, <1>3, OpResultDelivers DEF Sum, sum

ShiftDelivers(shift) == shift.result \in Int /\ shift.carry_out \in BOOLEAN

LEMMA PowersIn ==
    \A b \in Int : 0 <= b /\ b <= 2 * Width => Power(b) \in Nat \ {0}
  BY Powers, WidthAssumption

LEMMA HostLeftIsInt ==
    ASSUME NEW x \in Int, NEW shift \in Nat, NEW width \in {Width, 2 * Width}, NEW host
    PROVE  HostLeft(x, shift, width, host) \in Int
<1>1. width \in Nat \ {0} /\ width <= 2 * Width
  BY WidthAssumption
<1>2. shift % width \in 0 .. width
  BY <1>1
<1>3. Power(shift % width) \in Nat /\ Power(width) \in Nat \ {0}
  BY <1>1, <1>2, PowersIn, WidthAssumption
<1>4. x * Power(shift % width) \in Int
  BY <1>3
<1>5. (x * Power(shift % width)) % Power(width) \in Int
  BY <1>3, <1>4
<1>6. QED
  BY <1>5 DEF HostLeft

LEMMA HostRightIsInt ==
    ASSUME NEW x \in Int, NEW shift \in Nat, NEW width \in {Width, 2 * Width}, NEW host
    PROVE  /\ HostRight(x, shift, width, host) \in Int
           /\ x \in Word => HostRight(x, shift, width, host) \in Word
<1> DEFINE amount == IF shift < width THEN shift ELSE IF host = "masks" THEN shift % width ELSE width
<1>1. width \in Nat \ {0} /\ width <= 2 * Width
  BY WidthAssumption
<1>2. amount \in Int /\ 0 <= amount /\ amount <= 2 * Width
  <2>1. shift % width \in 0 .. width
    BY <1>1
  <2>2. QED
    BY <1>1, <2>1, WidthAssumption
<1> HIDE DEF amount
<1>3. Power(amount) \in Nat \ {0}
  BY <1>2, PowersIn
<1>4. x \div Power(amount) \in Int /\ (x \in Nat => x \div Power(amount) \in 0 .. x)
  BY <1>3
<1>5. QED
  BY <1>4, HalfAssumption DEF HostRight, amount, Word

LEMMA ShiftResultDelivers ==
    ASSUME NEW result \in Int, NEW carry_out \in BOOLEAN
    PROVE  ShiftDelivers(ShiftResult(result, carry_out))
  BY Zenon DEF ShiftDelivers, ShiftResult

LEMMA ShiftsDeliver ==
    ASSUME NEW value \in Int, NEW type \in {"LSL", "LSR", "ASR", "ROR", "RRX"}, NEW amount \in Nat,
           NEW carry_in \in BOOLEAN, NEW host
    PROVE  ShiftDelivers(Shift_C(value, type, amount, carry_in, host))
<1>1. Width \in {Width, 2 * Width} /\ 2 * Width \in {Width, 2 * Width} /\ Width \in Nat \ {0}
  BY WidthAssumption
<1>2. Power(Width) \in Nat \ {0}
  BY <1>1, PowersIn
<1>3. CASE amount = 0
  BY <1>3, ShiftResultDelivers DEF Shift_C
<1>4. CASE amount # 0 /\ type = "LSL"
  <2> DEFINE e == HostLeft(value, amount, 2 * Width, host)
  <2>1. e \in Int
    BY <1>1, HostLeftIsInt
  <2> HIDE DEF e
  <2>2. Truncate(e) \in Int /\ (Bit(e, Width) = 1) \in BOOLEAN
    BY <2>1, HalfAssumption DEF Truncate
  <2>3. ShiftDelivers(ShiftResult(Truncate(e), Bit(e, Width) = 1))
    BY <2>2, ShiftResultDelivers
  <2>4. QED
    BY <1>4, <2>3 DEF Shift_C, LSL_C, e
<1>5. CASE amount # 0 /\ type = "LSR"
  <2> DEFINE e == HostRight(value * Power(Width), amount, 2 * Width, host)
  <2>1. value * Power(Width) \in Int
    BY <1>2
  <2>2. e \in Int
    BY <1>1, <2>1, HostRightIsInt
  <2> HIDE DEF e
  <2>3. e \div Power(Width) \in Int /\ (Bit(e, Width - 1) = 1) \in BOOLEAN
    BY <1>2, <2>2
  <2>4. ShiftDelivers(ShiftResult(e \div Power(Width), Bit(e, Width - 1) = 1))
    BY <2>3, ShiftResultDelivers
  <2>5. QED
    BY <1>5, <2>4 DEF Shift_C, LSR_C, e
<1>6. CASE amount # 0 /\ type = "ASR"
  <2> DEFINE e == HostRight(Signed(value), amount, Width, host)
             c == HostRight(Signed(value), amount - 1, Width, host)
  <2>1. Signed(value) \in Int
    BY HalfAssumption DEF Signed
  <2>2. e \in Int
    BY <1>1, <2>1, HostRightIsInt
  <2> HIDE DEF e, c
  <2>3. Truncate(e) \in Int /\ (c % 2 = 1) \in BOOLEAN
    BY <2>2, HalfAssumption DEF Truncate
  <2>4. ShiftDelivers(ShiftResult(Truncate(e), c % 2 = 1))
    BY <2>3, ShiftResultDelivers
  <2>5. QED
    BY <1>6, <2>4 DEF Shift_C, ASR_C, e, c
<1>7. CASE amount # 0 /\ type = "ROR"
  <2> DEFINE m == amount % Width
             e == IF m = 0 THEN value ELSE value \div Power(m) + (value % Power(m)) * Power(Width - m)
  <2>1. m \in 0 .. Width /\ Width - m \in 0 .. Width
    BY <1>1
  <2> HIDE DEF m
  <2>2. Power(m) \in Nat \ {0} /\ Power(Width - m) \in Nat \ {0}
    BY <1>1, <2>1, PowersIn
  <2>3. value \div Power(m) \in Int /\ value % Power(m) \in Int
    BY <2>2
  <2>4. (value % Power(m)) * Power(Width - m) \in Int
    BY <2>2, <2>3
  <2>5. e \in Int
    BY <2>3, <2>4
  <2> HIDE DEF e
  <2>6. Negative(e) \in BOOLEAN
    BY <2>5, HalfAssumption DEF Negative
  <2>7. ShiftDelivers(ShiftResult(e, Negative(e)))
    BY <2>5, <2>6, ShiftResultDelivers
  <2>8. QED
    BY <1>7, <2>7 DEF Shift_C, ROR_C, e, m
<1>8. CASE amount # 0 /\ type = "RRX"
  <2>1. value \div 2 + AsBit(carry_in) * Half \in Int /\ (value % 2 = 1) \in BOOLEAN
    BY HalfAssumption DEF AsBit
  <2>2. ShiftDelivers(ShiftResult(value \div 2 + AsBit(carry_in) * Half, value % 2 = 1))
    BY <2>1, ShiftResultDelivers
  <2>3. QED
    BY <1>8, <2>2 DEF Shift_C, RXR_C
<1>9. QED
  BY <1>3, <1>4, <1>5, <1>6, <1>7, <1>8

Flags(apsr) == apsr.n \in BOOLEAN /\ apsr.z \in BOOLEAN /\ apsr.c \in BOOLEAN /\ apsr.v \in BOOLEAN

LEMMA KeepsFlagsDelivers ==
    ASSUME NEW apsr, Flags(apsr), NEW value \in Int
    PROVE  Delivers(KeepsFlags(apsr, value)) /\ Delivers(ClearsFlags(value))
  BY OpResultDelivers, Zenon DEF KeepsFlags, ClearsFlags, Flags

LEMMA ImmCarryDelivers ==
    ASSUME NEW apsr, Flags(apsr), NEW imm
    PROVE  ImmCarryOut(apsr, imm) \in BOOLEAN
  BY Zenon DEF ImmCarryOut, Flags

LEMMA ShiftedDelivers ==
    ASSUME NEW apsr, Flags(apsr), NEW m \in Int, NEW shift_res \in Shifts, NEW host
    PROVE  ShiftDelivers(Shifted(apsr, m, shift_res, host))
<1> DEFINE amount == IF shift_res.value = 32 THEN Width ELSE shift_res.value
<1>1. shift_res.type \in {"LSL", "LSR", "ASR", "ROR", "RRX"} /\ amount \in Nat
  BY WidthAssumption DEF Shifts
<1>2. apsr.c \in BOOLEAN
  BY Zenon DEF Flags
<1> HIDE DEF amount
<1>3. ShiftDelivers(Shift_C(m, shift_res.type, amount, apsr.c, host))
  BY <1>1, <1>2, ShiftsDeliver, Zenon
<1>4. QED
  BY <1>3, Zenon DEF Shifted, amount

LEMMA UnaryOpDelivers ==
    ASSUME NEW apsr, Flags(apsr), NEW m \in Word, NEW op \in {"Clz1Op", "Mov1Op", "Rrx1Op"}
    PROVE  Delivers(UnaryOp(op, apsr, m))
<1>1. m \in Int
  BY DEF Word
<1>2. CASE op = "Clz1Op"
  <2> DEFINE zeros == {b \in 0 .. Width - 1 : m < Power(b)}
  <2>1. Cardinality(zeros) \in Int
    <3>1. 0 \in Int /\ Width - 1 \in Int
      BY WidthAssumption
    <3>2. IsFiniteSet(0 .. Width - 1)
      BY <3>1, FS_Interval
    <3>3. zeros \subseteq 0 .. Width - 1
      OBVIOUS
    <3>4. IsFiniteSet(zeros)
      BY <3>2, <3>3, FS_Subset
    <3> HIDE DEF zeros
    <3>5. Cardinality(zeros) \in Nat
      BY <3>4, FS_CardinalityType
    <3>6. QED
      BY <3>5
  <2>2. UnaryOp(op, apsr, m) = ClearsFlags(Cardinality(zeros))
    BY <1>2 DEF UnaryOp
  <2> HIDE DEF zeros
  <2>3. QED
    BY <2>1, <2>2, KeepsFlagsDelivers, Zenon
<1>3. CASE op = "Mov1Op"
  <2>1. UnaryOp(op, apsr, m) = KeepsFlags(apsr, m)
    BY <1>3 DEF UnaryOp
  <2>2. QED
    BY <1>1, <2>1, KeepsFlagsDelivers, Zenon
<1>4. CASE op = "Rrx1Op"
  <2> DEFINE rrx == Shift_C(m, "RRX", 1, apsr.c, "masks")
  <2>1. ShiftDelivers(rrx)
    <3>1. apsr.c \in BOOLEAN /\ "RRX" \in {"LSL", "LSR", "ASR", "ROR", "RRX"}
      BY Zenon DEF Flags
    <3>2. 1 \in Nat
      OBVIOUS
    <3>3. QED
      BY <1>1, <3>1, <3>2, ShiftsDeliver, Zenon
  <2>2. UnaryOp(op, apsr, m) = OpResult(rrx.result, rrx.carry_out, apsr.v)
    BY <1>4 DEF UnaryOp
  <2> HIDE DEF rrx
  <2>3. QED
    BY <2>1, <2>2, OpResultDelivers, Zenon DEF ShiftDelivers, Flags
<1>5. QED
  BY <1>2, <1>3, <1>4

LEMMA ShiftByRegisterDelivers ==
    ASSUME NEW apsr, Flags(apsr), NEW n \in Word, NEW m \in Word, NEW type \in {"LSL", "LSR", "ASR"},
           NEW host
    PROVE  Delivers(ShiftByRegister(apsr, n, type, m, host))
<1> DEFINE amount == m % 256
           shift == Shift_C(n, type, amount, apsr.c, host)
<1>1. ShiftDelivers(shift)
  <2>1. n \in Int /\ amount \in Nat
    BY DEF Word
  <2>2. apsr.c \in BOOLEAN /\ type \in {"LSL", "LSR", "ASR", "ROR", "RRX"}
    BY Zenon DEF Flags
  <2> HIDE DEF amount
  <2>3. QED
    BY <2>1, <2>2, ShiftsDeliver, Zenon
<1>2. ShiftByRegister(apsr, n, type, m, host) = OpResult(shift.result, shift.carry_out, apsr.v)
  BY DEF ShiftByRegister
<1> HIDE DEF shift
<1>3. QED
  BY <1>1, <1>2, OpResultDelivers, Zenon DEF ShiftDelivers, Flags

LEMMA QuotientIsInt ==
    ASSUME NEW n \in Word, NEW m \in Word, m # 0
    PROVE  SignedQuotient(n, m) \in Int
<1> DEFINE Magnitude(x) == IF x < 0 THEN -x ELSE x
           q == Magnitude(Signed(n)) \div Magnitude(Signed(m))
<1>1. Signed(n) \in Int /\ Signed(m) \in Int /\ Signed(m) # 0
  BY HalfAssumption DEF Signed, Word, Negative
<1>2. Magnitude(Signed(n)) \in Nat /\ Magnitude(Signed(m)) \in Nat \ {0}
  BY <1>1
<1>3. q \in Int
  <2> HIDE DEF Magnitude
  <2> QED BY <1>2
<1>4. SignedQuotient(n, m) = q \/ SignedQuotient(n, m) = -q
  BY DEF SignedQuotient
<1> HIDE DEF q
<1>5. QED
  BY <1>3, <1>4

LEMMA BinaryOpDelivers ==
    ASSUME NEW apsr, Flags(apsr), NEW n \in Word, NEW m \in Word, NEW host,
           NEW op \in {"Lsr2Op", "Asr2Op", "Lsl2Op", "Mul2Op", "UDiv2Op", "SDiv2Op"}
    PROVE  Delivers(BinaryOp(op, apsr, n, m, host))
<1>1. n * m \in Int /\ (IF m = 0 THEN 0 ELSE n \div m) \in Int
  BY DEF Word
<1>2. (IF m = 0 THEN 0 ELSE SignedQuotient(n, m)) \in Int
  BY QuotientIsInt
<1>3. /\ op = "Lsr2Op" => BinaryOp(op, apsr, n, m, host) = ShiftByRegister(apsr, n, "LSR", m, host)
      /\ op = "Asr2Op" => BinaryOp(op, apsr, n, m, host) = ShiftByRegister(apsr, n, "ASR", m, host)
      /\ op = "Lsl2Op" => BinaryOp(op, apsr, n, m, host) = ShiftByRegister(apsr, n, "LSL", m, host)
      /\ op = "Mul2Op" => BinaryOp(op, apsr, n, m, host) = KeepsFlags(apsr, n * m)
      /\ op = "UDiv2Op" =>
           BinaryOp(op, apsr, n, m, host) = KeepsFlags(apsr, IF m = 0 THEN 0 ELSE n \div m)
      /\ op = "SDiv2Op" =>
           BinaryOp(op, apsr, n, m, host) = KeepsFlags(apsr, IF m = 0 THEN 0 ELSE SignedQuotient(n, m))
  BY DEF BinaryOp
<1>4. /\ Delivers(ShiftByRegister(apsr, n, "LSR", m, host))
      /\ Delivers(ShiftByRegister(apsr, n, "ASR", m, host))
      /\ Delivers(ShiftByRegister(apsr, n, "LSL", m, host))
  BY ShiftByRegisterDelivers, Zenon
<1>5. /\ Delivers(KeepsFlags(apsr, n * m))
      /\ Delivers(KeepsFlags(apsr, IF m = 0 THEN 0 ELSE n \div m))
      /\ Delivers(KeepsFlags(apsr, IF m = 0 THEN 0 ELSE SignedQuotient(n, m)))
  BY <1>1, <1>2, KeepsFlagsDelivers, Zenon
<1>6. QED
  BY <1>3, <1>4, <1>5, Zenon

LEMMA WordsAreInts == \A x \in Word : x \in Int /\ Not(x) \in Int
  BY HalfAssumption DEF Word, Not

LEMMA BinaryImmOpDelivers ==
    ASSUME NEW apsr, Flags(apsr), NEW n \in Word, NEW imm32 \in Int,
           NEW op \in {"Add1ImmOp", "Adc1ImmOp", "Sub1ImmOp", "Sbc1ImmOp", "Rsb1ImmOp"}
    PROVE  Delivers(BinaryImmOp(op, apsr, n, imm32))
<1> DEFINE imm == Truncate(imm32)
<1>1. imm \in Int /\ Not(imm) \in Int /\ n \in Int /\ Not(n) \in Int
  BY TruncateIsWord, WordsAreInts
<1>2. /\ op = "Add1ImmOp" => BinaryImmOp(op, apsr, n, imm32) = Sum(n, imm, FALSE)
      /\ op = "Adc1ImmOp" => BinaryImmOp(op, apsr, n, imm32) = Sum(n, imm, apsr.c)
      /\ op = "Sub1ImmOp" => BinaryImmOp(op, apsr, n, imm32) = Sum(n, Not(imm), TRUE)
      /\ op = "Sbc1ImmOp" => BinaryImmOp(op, apsr, n, imm32) = Sum(n, Not(imm), apsr.c)
      /\ op = "Rsb1ImmOp" => BinaryImmOp(op, apsr, n, imm32) = Sum(Not(n), imm, TRUE)
  BY DEF BinaryImmOp
<1> HIDE DEF imm
<1>3. TRUE \in BOOLEAN /\ FALSE \in BOOLEAN /\ apsr.c \in BOOLEAN
  BY Zenon DEF Flags
<1>4. QED
  BY <1>1, <1>2, <1>3, SumDelivers, Zenon

LEMMA BinaryNullImmOpDelivers ==
    ASSUME NEW n \in Word, NEW imm32 \in Int, NEW op \in {"Cmp1ImmOp", "Cmn1ImmOp"}
    PROVE  Delivers(BinaryNullImmOp(op, n, imm32))
<1> DEFINE imm == Truncate(imm32)
<1>1. imm \in Int /\ Not(imm) \in Int /\ n \in Int
  BY TruncateIsWord, WordsAreInts
<1>2. /\ op = "Cmp1ImmOp" => BinaryNullImmOp(op, n, imm32) = Sum(n, Not(imm), TRUE)
      /\ op = "Cmn1ImmOp" => BinaryNullImmOp(op, n, imm32) = Sum(n, imm, FALSE)
  BY DEF BinaryNullImmOp
<1> HIDE DEF imm
<1>3. TRUE \in BOOLEAN /\ FALSE \in BOOLEAN
  BY Zenon
<1>4. QED
  BY <1>1, <1>2, <1>3, SumDelivers, Zenon

LEMMA RotationIsInt ==
    ASSUME NEW m \in Word, NEW rotation \in Nat
    PROVE  ROR(m, rotation) \in Int
<1>1. CASE rotation = 0
  BY <1>1, WordsAreInts DEF ROR
<1>2. CASE rotation # 0
  <2>1. ShiftDelivers(Shift_C(m, "ROR", rotation, TRUE, "masks"))
    BY WordsAreInts, ShiftsDeliver
  <2>2. Shift_C(m, "ROR", rotation, TRUE, "masks") = ROR_C(m, rotation)
    BY <1>2 DEF Shift_C
  <2>3. QED
    BY <1>2, <2>1, <2>2, Zenon DEF ShiftDelivers, ROR
<1>3. QED
  BY <1>1, <1>2

LEMMA ExtendsSign ==
    ASSUME NEW x \in Int
    PROVE  /\ SignExtend(x % 256, 7) \in Int /\ SignExtend(x % 65536, 15) \in Int
           /\ x % 256 \in Int /\ x % 65536 \in Int
<1>1. x % 256 \in Int /\ x % 65536 \in Int
  OBVIOUS
<1>2. \A w \in Int : SignExtend(w, 7) \in Int /\ SignExtend(w, 15) \in Int
  BY DEF SignExtend
<1>3. QED
  BY <1>1, <1>2

LEMMA RotationOpDelivers ==
    ASSUME NEW m \in Word, NEW rotation \in Nat,
           NEW op \in {"Uxtb1Rotation", "Sxtb1Rotation", "Uxth1Rotation", "Sxth1Rotation"}
    PROVE  Delivers(RotationOp(op, m, rotation))
<1> DEFINE rotated == ROR(m, rotation)
<1>1. /\ SignExtend(rotated % 256, 7) \in Int /\ SignExtend(rotated % 65536, 15) \in Int
      /\ rotated % 256 \in Int /\ rotated % 65536 \in Int
  BY RotationIsInt, ExtendsSign
<1>2. /\ op = "Uxtb1Rotation" => RotationOp(op, m, rotation) = ClearsFlags(rotated % 256)
      /\ op = "Sxtb1Rotation" =>
           RotationOp(op, m, rotation) = ClearsFlags(SignExtend(rotated % 256, 7))
      /\ op = "Uxth1Rotation" => RotationOp(op, m, rotation) = ClearsFlags(rotated % 65536)
      /\ op = "Sxth1Rotation" =>
           RotationOp(op, m, rotation) = ClearsFlags(SignExtend(rotated % 65536, 15))
  BY DEF RotationOp
<1> HIDE DEF rotated
<1>3. \A value \in Int : Delivers(ClearsFlags(value))
  BY OpResultDelivers DEF ClearsFlags
<1>4. CASE op \in {"Uxtb1Rotation", "Sxtb1Rotation"}
  BY <1>1, <1>2, <1>3, <1>4
<1>5. CASE op \in {"Uxth1Rotation", "Sxth1Rotation"}
  BY <1>1, <1>2, <1>3, <1>5
<1>6. QED
  BY <1>4, <1>5

LEMMA BinaryShiftOpDelivers ==
    ASSUME NEW apsr, Flags(apsr), NEW m \in Word, NEW shift_res \in Shifts, NEW host,
           NEW op \in {"Asr1ShiftOp", "Lsl1ShiftOp", "Lsr1ShiftOp", "Mvn1ShiftOp"}
    PROVE  Delivers(BinaryShiftOp(op, apsr, m, shift_res, host))
<1> DEFINE Typed(type) == Shifted(apsr, m, [shift_res EXCEPT !.type = type], host)
           any == Shifted(apsr, m, shift_res, host)
<1>1. m \in Int
  BY WordsAreInts
<1>2. \A type \in {"LSL", "LSR", "ASR"} : [shift_res EXCEPT !.type = type] \in Shifts
  BY DEF Shifts
<1>3. ShiftDelivers(any) /\ \A type \in {"LSL", "LSR", "ASR"} : ShiftDelivers(Typed(type))
  BY <1>1, <1>2, ShiftedDelivers, Zenon
<1>4. /\ op = "Asr1ShiftOp" => BinaryShiftOp(op, apsr, m, shift_res, host)
                                 = OpResult(Typed("ASR").result, Typed("ASR").carry_out, apsr.v)
      /\ op = "Lsl1ShiftOp" => BinaryShiftOp(op, apsr, m, shift_res, host)
                                 = OpResult(Typed("LSL").result, Typed("LSL").carry_out, apsr.v)
      /\ op = "Lsr1ShiftOp" => BinaryShiftOp(op, apsr, m, shift_res, host)
                                 = OpResult(Typed("LSR").result, Typed("LSR").carry_out, apsr.v)
      /\ op = "Mvn1ShiftOp" => BinaryShiftOp(op, apsr, m, shift_res, host)
                                 = OpResult(Not(any.result), any.carry_out, apsr.v)
  BY DEF BinaryShiftOp
<1> HIDE DEF Typed, any
<1>5. \A x \in Int : Not(x) \in Int
  BY HalfAssumption DEF Not
<1>6. apsr.v \in BOOLEAN
  BY Zenon DEF Flags
<1>7. \A shift : ShiftDelivers(shift) =>
        /\ Delivers(OpResult(shift.result, shift.carry_out, apsr.v))
        /\ Delivers(OpResult(Not(shift.result), shift.carry_out, apsr.v))
  BY <1>5, <1>6, OpResultDelivers, Zenon DEF ShiftDelivers
<1>8. QED
  BY <1>3, <1>4, <1>7, Zenon

LEMMA TernaryOpDelivers ==
    ASSUME NEW apsr, Flags(apsr), NEW n \in Word, NEW m \in Word, NEW a \in Word,
           NEW op \in {"Mls3Op", "Mla3Op"}
    PROVE  Delivers(TernaryOp(op, apsr, n, m, a))
<1>1. a - n * m \in Int /\ n * m + a \in Int
  BY DEF Word
<1>2. /\ op = "Mls3Op" => TernaryOp(op, apsr, n, m, a) = ClearsFlags(a - n * m)
      /\ op = "Mla3Op" => TernaryOp(op, apsr, n, m, a) = KeepsFlags(apsr, n * m + a)
  BY DEF TernaryOp
<1>3. QED
  BY <1>1, <1>2, KeepsFlagsDelivers, Zenon

LEMMA BitwiseIsInt ==
    ASSUME NEW x, NEW y
    PROVE  AND(x, y) \in Int /\ OR(x, y) \in Int /\ EOR(x, y) \in Int
  BY BitwiseCorrect, WordsAreInts

LEMMA TernaryShiftOpDelivers ==
    ASSUME NEW apsr, Flags(apsr), NEW n \in Word, NEW m \in Word, NEW shift_res \in Shifts, NEW host,
           NEW op \in {"Eor2ShiftOp", "Orr2ShiftOp", "And2ShiftOp", "Bic2ShiftOp", "Sbc2ShiftOp",
                       "Sub2ShiftOp", "Rsb2ShiftOp", "Add2ShiftOp", "Adc2ShiftOp"}
    PROVE  Delivers(TernaryShiftOp(op, apsr, n, m, shift_res, host))
<1> DEFINE s == Shifted(apsr, m, shift_res, host)
           result == TernaryShiftOp(op, apsr, n, m, shift_res, host)
<1>1. ShiftDelivers(s)
  BY WordsAreInts, ShiftedDelivers, Zenon
<1>2. /\ op = "Eor2ShiftOp" => result = OpResult(EOR(n, s.result), s.carry_out, apsr.v)
      /\ op = "Orr2ShiftOp" => result = OpResult(OR(n, s.result), s.carry_out, apsr.v)
      /\ op = "And2ShiftOp" => result = OpResult(AND(n, s.result), s.carry_out, apsr.v)
      /\ op = "Bic2ShiftOp" => result = OpResult(AND(n, Not(s.result)), s.carry_out, apsr.v)
      /\ op = "Sbc2ShiftOp" => result = Sum(n, Not(s.result), apsr.c)
      /\ op = "Sub2ShiftOp" => result = Sum(n, Not(s.result), TRUE)
      /\ op = "Rsb2ShiftOp" => result = Sum(Not(n), s.result, TRUE)
      /\ op = "Add2ShiftOp" => result = Sum(n, s.result, FALSE)
      /\ op = "Adc2ShiftOp" => result = Sum(n, s.result, apsr.c)
  BY DEF TernaryShiftOp
<1> HIDE DEF s, result
<1>3. n \in Int /\ Not(n) \in Int /\ \A x \in Int : Not(x) \in Int
  BY WordsAreInts, HalfAssumption DEF Not
<1>4. apsr.v \in BOOLEAN /\ apsr.c \in BOOLEAN /\ TRUE \in BOOLEAN /\ FALSE \in BOOLEAN
  BY Zenon DEF Flags
<1>5. s.result \in Int /\ s.carry_out \in BOOLEAN /\ Not(s.result) \in Int
  BY <1>1, <1>3, Zenon DEF ShiftDelivers
<1>6. /\ Delivers(OpResult(EOR(n, s.result), s.carry_out, apsr.v))
      /\ Delivers(OpResult(OR(n, s.result), s.carry_out, apsr.v))
      /\ Delivers(OpResult(AND(n, s.result), s.carry_out, apsr.v))
      /\ Delivers(OpResult(AND(n, Not(s.result)), s.carry_out, apsr.v))
  BY <1>4, <1>5, BitwiseIsInt, OpResultDelivers, Zenon
<1>7. /\ Delivers(Sum(n, Not(s.result), apsr.c)) /\ Delivers(Sum(n, Not(s.result), TRUE))
      /\ Delivers(Sum(Not(n), s.result, TRUE)) /\ Delivers(Sum(n, s.result, FALSE))
      /\ Delivers(Sum(n, s.result, apsr.c))
  BY <1>3, <1>4, <1>5, SumDelivers, Zenon
<1>8. Delivers(result)
  BY <1>2, <1>6, <1>7, Zenon
<1>9. QED
  BY <1>8 DEF result

LEMMA TernaryNullShiftOpDelivers ==
    ASSUME NEW apsr, Flags(apsr), NEW n \in Word, NEW m \in Word, NEW shift_res \in Shifts, NEW host,
           NEW op \in {"Cmp2ShiftOp", "Tst2ShiftOp", "Teq2ShiftOp"}
    PROVE  Delivers(TernaryNullShiftOp(op, apsr, n, m, shift_res, host))
<1> DEFINE s == Shifted(apsr, m, shift_res, host)
           result == TernaryNullShiftOp(op, apsr, n, m, shift_res, host)
<1>1. ShiftDelivers(s)
  BY WordsAreInts, ShiftedDelivers, Zenon
<1>2. /\ op = "Cmp2ShiftOp" => result = Sum(n, Not(s.result), TRUE)
      /\ op = "Tst2ShiftOp" => result = OpResult(AND(n, s.result), s.carry_out, apsr.v)
      /\ op = "Teq2ShiftOp" => result = OpResult(EOR(n, s.result), s.carry_out, apsr.v)
  BY DEF TernaryNullShiftOp
<1> HIDE DEF s, result
<1>3. n \in Int /\ \A x \in Int : Not(x) \in Int
  BY WordsAreInts, HalfAssumption DEF Not
<1>4. apsr.v \in BOOLEAN /\ TRUE \in BOOLEAN
  BY Zenon DEF Flags
<1>5. s.result \in Int /\ s.carry_out \in BOOLEAN /\ Not(s.result) \in Int
  BY <1>1, <1>3, Zenon DEF ShiftDelivers
<1>6. /\ Delivers(OpResult(EOR(n, s.result), s.carry_out, apsr.v))
      /\ Delivers(OpResult(AND(n, s.result), s.carry_out, apsr.v))
      /\ Delivers(Sum(n, Not(s.result), TRUE))
  BY <1>3, <1>4, <1>5, BitwiseIsInt, OpResultDelivers, SumDelivers, Zenon
<1>7. Delivers(result)
  BY <1>2, <1>6, Zenon
<1>8. QED
  BY <1>7 DEF result

LEMMA ImmCarryOpsDeliver ==
    ASSUME NEW apsr, Flags(apsr), NEW n \in Word, NEW imm \in Carries
    PROVE  /\ \A op \in {"MovImmCarryOp", "MvnImmCarryOp"} : Delivers(UnaryImmCarryOp(op, apsr, imm))
           /\ \A op \in {"Orr1ImmCarryOp", "Eor1ImmCarryOp", "And1ImmCarryOp", "Bic1ImmCarryOp"} :
                Delivers(BinaryImmCarryOp(op, apsr, n, imm))
           /\ \A op \in {"Tst1ImmCarryOp", "Teq1ImmCarryOp"} :
                Delivers(BinaryNullImmCarryOp(op, apsr, n, imm))
<1> DEFINE out == Truncate(imm.out)
           Logical(value) == OpResult(value, ImmCarryOut(apsr, imm), apsr.v)
<1>1. out \in Int /\ Not(out) \in Int
  BY TruncateIsWord, WordsAreInts DEF Carries
<1>2. ImmCarryOut(apsr, imm) \in BOOLEAN /\ apsr.v \in BOOLEAN
  BY ImmCarryDelivers, Zenon DEF Flags
<1>3. /\ UnaryImmCarryOp("MovImmCarryOp", apsr, imm) = Logical(out)
      /\ UnaryImmCarryOp("MvnImmCarryOp", apsr, imm) = Logical(Not(out))
  BY DEF UnaryImmCarryOp
<1>4. /\ BinaryImmCarryOp("Orr1ImmCarryOp", apsr, n, imm) = Logical(OR(n, out))
      /\ BinaryImmCarryOp("Eor1ImmCarryOp", apsr, n, imm) = Logical(EOR(n, out))
      /\ BinaryImmCarryOp("And1ImmCarryOp", apsr, n, imm) = Logical(AND(n, out))
      /\ BinaryImmCarryOp("Bic1ImmCarryOp", apsr, n, imm) = Logical(AND(n, Not(out)))
  BY DEF BinaryImmCarryOp
<1>5. /\ BinaryNullImmCarryOp("Tst1ImmCarryOp", apsr, n, imm) = Logical(AND(n, out))
      /\ BinaryNullImmCarryOp("Teq1ImmCarryOp", apsr, n, imm) = Logical(EOR(n, out))
  BY DEF BinaryNullImmCarryOp
<1> HIDE DEF out
<1>6. /\ Delivers(Logical(out)) /\ Delivers(Logical(Not(out)))
      /\ Delivers(Logical(AND(n, out))) /\ Delivers(Logical(AND(n, Not(out))))
      /\ Delivers(Logical(OR(n, out))) /\ Delivers(Logical(EOR(n, out)))
  BY <1>1, <1>2, BitwiseIsInt, OpResultDelivers, Zenon
<1> HIDE DEF Logical
<1>7. QED
  BY <1>3, <1>4, <1>5, <1>6, Zenon

LEMMA AddToPcDelivers ==
    ASSUME NEW pc \in Word, NEW adds \in BOOLEAN, NEW imm32 \in Int
    PROVE  Delivers(AddToPcImmOp(pc, adds, imm32))
<1>1. pc - (pc % 4) + (IF adds THEN imm32 ELSE -imm32) \in Int
  BY DEF Word
<1>2. QED
  BY <1>1, OpResultDelivers, Zenon DEF AddToPcImmOp, ClearsFlags

LEMMA LongOpDelivers ==
    ASSUME NEW n \in Word, NEW m \in Word, NEW dLo \in Word,
           NEW op \in {"Umull2Op", "Smull2Op", "Umlal2Op"}
    PROVE  LongOp(op, n, m, dLo).lo \in Word /\ LongOp(op, n, m, dLo).hi \in Word
<1> DEFINE result == CASE op = "Umull2Op" -> n * m
                       [] op = "Smull2Op" -> Signed(n) * Signed(m)
                       [] op = "Umlal2Op" -> n * m + dLo
<1>1. n * m \in Int /\ n * m + dLo \in Int
  BY DEF Word
<1>2. Signed(n) \in Int /\ Signed(m) \in Int
  BY HalfAssumption DEF Signed, Word
<1>3. Signed(n) * Signed(m) \in Int
  BY <1>2
<1>4. result \in Int
  BY <1>1, <1>3
<1> HIDE DEF result
<1>5. result \div (2 * Half) \in Int
  BY <1>4, HalfAssumption
<1>6. Truncate(result) \in Word /\ Truncate(result \div (2 * Half)) \in Word
  BY <1>4, <1>5, TruncateIsWord
<1>7. LongOp(op, n, m, dLo) = [lo |-> Truncate(result), hi |-> Truncate(result \div (2 * Half))]
  BY DEF LongOp, result
<1>8. QED
  BY <1>6, <1>7

LEMMA BitFieldsDeliver ==
    ASSUME NEW n, NEW d, NEW lsbit \in Nat, NEW msbit, NEW host
    PROVE  BfiOp(n, d, lsbit, msbit, host) \in Word /\ UbfxOp(n, lsbit, msbit, host) \in Word
<1>1. BfiOp(n, d, lsbit, msbit, host) \in Word
  BY BitwiseCorrect, Zenon DEF BfiOp
<1> DEFINE msk == HostLeft(FieldOnes(msbit - lsbit + 1, host), lsbit, Width, host)
<1>2. AND(n, msk) \in Word
  BY BitwiseCorrect, Zenon
<1> HIDE DEF msk
<1>3. Width \in {Width, 2 * Width} /\ AND(n, msk) \in Int
  BY <1>2, WordsAreInts
<1>4. HostRight(AND(n, msk), lsbit, Width, host) \in Word
  BY <1>2, <1>3, HostRightIsInt
<1>5. QED
  BY <1>1, <1>4 DEF UbfxOp, msk

------------------------------------------------------------------------------
(* The processor's registers *)

\* What every processor state of a run is: of its type, at the address of a halfword.
Proper(c) == c \in CpuStates /\ c.pc % 2 = 0

LEMMA EvenTruncates ==
    ASSUME NEW x \in Int, x % 2 = 0
    PROVE  Truncate(x) \in Word /\ Truncate(x) % 2 = 0
<1>1. 2 * Half \in Int /\ 2 * Half > 0 /\ Half \in Int
  BY HalfAssumption
<1>2. PICK q \in Int, r \in 0 .. (2 * Half) - 1 : r = x % (2 * Half) /\ x = (2 * Half) * q + r
  BY <1>1, DivMod
<1> DEFINE p == Half * q
<1>3. p \in Int /\ (2 * Half) * q = 2 * p
  BY <1>1
<1> HIDE DEF p
<1>4. r \in Int /\ r = x - 2 * p
  BY <1>1, <1>2, <1>3
<1>5. r % 2 = 0
  BY <1>3, <1>4
<1>6. QED
  BY <1>2, <1>5 DEF Truncate, Word

LEMMA BranchToProper ==
    ASSUME NEW c, Proper(c), NEW address \in Int, address % 2 = 0
    PROVE  Proper(BranchTo(c, address))
<1>1. Truncate(address) \in Word /\ Truncate(address) % 2 = 0
  BY EvenTruncates
<1>2. [c EXCEPT !.pc = Truncate(address)] \in CpuStates
  BY <1>1 DEF Proper, CpuStates
<1>3. [c EXCEPT !.pc = Truncate(address)].pc = Truncate(address)
  BY DEF Proper, CpuStates
<1>4. QED
  BY <1>1, <1>2, <1>3 DEF Proper, BranchTo

LEMMA BranchWritePCProper ==
    ASSUME NEW c, Proper(c), NEW address \in Int
    PROVE  Proper(BranchWritePC(c, address)) /\ Proper(BXWritePC(c, address))
<1>1. address - (address % 2) \in Int /\ (address - (address % 2)) % 2 = 0
  OBVIOUS
<1>2. Proper(BranchWritePC(c, address))
  BY <1>1, BranchToProper DEF BranchWritePC
<1> DEFINE d == BranchWritePC(c, address)
           state == (address % 2 = 1)
<1>3. state \in BOOLEAN
  OBVIOUS
<1> HIDE DEF d, state
<1>4. [d EXCEPT !.thumb = state] \in CpuStates /\ [d EXCEPT !.thumb = state].pc = d.pc
  BY <1>2, <1>3 DEF Proper, CpuStates, d
<1>5. QED
  BY <1>2, <1>4 DEF Proper, BXWritePC, d, state

\* A branch changes the pc and the instruction set state only.
LEMMA BranchKeeps ==
    ASSUME NEW c, Proper(c), NEW address
    PROVE  LET plain == BranchWritePC(c, address)
               exchange == BXWritePC(c, address)
           IN  /\ plain.apsr = c.apsr /\ plain.istate = c.istate
               /\ plain.r = c.r /\ plain.sp = c.sp /\ plain.spsel = c.spsel
               /\ plain.pending = c.pending
               /\ exchange.pc = plain.pc
               /\ exchange.apsr = c.apsr /\ exchange.istate = c.istate
               /\ exchange.r = c.r /\ exchange.sp = c.sp /\ exchange.spsel = c.spsel
               /\ exchange.pending = c.pending
  BY DEF Proper, CpuStates, BranchWritePC, BXWritePC, BranchTo

LEMMA ITAdvanceInRange == ASSUME NEW istate \in 0 .. 255 PROVE ITAdvance(istate) \in 0 .. 255
<1>1. Bits(istate, 7, 5) \in 0 .. 7 /\ Bits(istate * 2, 4, 0) \in 0 .. 31
  BY DEF Bits
<1>2. QED
  BY <1>1 DEF ITAdvance

LEMMA AdvanceItProper ==
    ASSUME NEW c, Proper(c)
    PROVE  /\ Proper(AdvanceIt(c)) /\ AdvanceIt(c).pc = c.pc /\ AdvanceIt(c).apsr = c.apsr
           /\ AdvanceIt(c).istate = ITAdvance(c.istate)
<1>1. ITAdvance(c.istate) \in 0 .. 255
  <2>1. c.istate \in 0 .. 255
    BY DEF Proper, CpuStates
  <2>2. QED
    BY <2>1, ITAdvanceInRange, Zenon
<1> DEFINE istate == ITAdvance(c.istate)
<1> HIDE DEF istate
<1>2. /\ [c EXCEPT !.istate = istate] \in CpuStates
      /\ [c EXCEPT !.istate = istate].pc = c.pc /\ [c EXCEPT !.istate = istate].apsr = c.apsr
      /\ [c EXCEPT !.istate = istate].istate = istate
  BY <1>1 DEF Proper, CpuStates, istate
<1>3. QED
  BY <1>2 DEF Proper, AdvanceIt, istate

\* The steps from one instruction to the next.
LEMMA AdvanceProper ==
    ASSUME NEW c, Proper(c), NEW set
    PROVE  /\ Proper(AdvanceInstr(c, set)) /\ Proper(AdvancePcAndIt(c, set))
           /\ AdvanceInstr(c, set).pc = Truncate(c.pc + IF "k32Bit" \in set THEN 4 ELSE 2)
           /\ AdvancePcAndIt(c, set).pc = AdvanceInstr(c, set).pc
           /\ AdvanceInstr(c, set).apsr = c.apsr /\ AdvancePcAndIt(c, set).apsr = c.apsr
           /\ AdvanceInstr(c, set).istate = c.istate
           /\ AdvancePcAndIt(c, set).istate = ITAdvance(c.istate)
<1> DEFINE size == IF "k32Bit" \in set THEN 4 ELSE 2
<1>1. \A d : Proper(d) =>
        /\ Proper(AdvanceInstr(d, set))
        /\ AdvanceInstr(d, set).pc = Truncate(d.pc + size)
        /\ AdvanceInstr(d, set).apsr = d.apsr /\ AdvanceInstr(d, set).istate = d.istate
  <2>1. SUFFICES ASSUME NEW d, Proper(d)
                 PROVE  /\ Proper(AdvanceInstr(d, set))
                        /\ AdvanceInstr(d, set).pc = Truncate(d.pc + size)
                        /\ AdvanceInstr(d, set).apsr = d.apsr /\ AdvanceInstr(d, set).istate = d.istate
    OBVIOUS
  <2>2. d.pc \in Nat /\ d.pc % 2 = 0
    BY <2>1 DEF Proper, CpuStates, Word
  <2>3. d.pc + size \in Int /\ (d.pc + size) % 2 = 0
    BY <2>2
  <2>4. AdvanceInstr(d, set) = BranchTo(d, d.pc + size)
    BY DEF AdvanceInstr
  <2> HIDE DEF size
  <2>5. /\ BranchTo(d, d.pc + size).pc = Truncate(d.pc + size)
        /\ BranchTo(d, d.pc + size).apsr = d.apsr /\ BranchTo(d, d.pc + size).istate = d.istate
    BY <2>1 DEF BranchTo, Proper, CpuStates
  <2>6. QED
    BY <2>1, <2>3, <2>4, <2>5, BranchToProper
<1>2. /\ Proper(AdvanceIt(c)) /\ AdvanceIt(c).pc = c.pc /\ AdvanceIt(c).apsr = c.apsr
      /\ AdvanceIt(c).istate = ITAdvance(c.istate)
  BY AdvanceItProper
<1>3. QED
  BY <1>1, <1>2, Zenon DEF AdvancePcAndIt

\* Only the registers of d, the pending exceptions and the like differ from those of c.
Keeps(c, d) == Proper(d) /\ d.pc = c.pc /\ d.istate = c.istate /\ d.apsr = c.apsr

LEMMA KeepsTrans ==
    ASSUME NEW c, NEW d, NEW e, Keeps(c, d), Keeps(d, e)
    PROVE  Keeps(c, e)
  BY DEF Keeps

LEMMA StackOf == \A c : LookUpSP(c) \in Stacks
  BY DEF LookUpSP, Stacks

LEMMA ReadRegisterIsWord ==
    ASSUME NEW c, Proper(c), NEW id \in Registers
    PROVE  ReadRegister(c, id) \in Word
<1>1. c.pc \in Nat /\ c.pc + 4 \in Int
  BY DEF Proper, CpuStates, Word
<1>2. ReadPC(c) \in Word
  BY <1>1, TruncateIsWord DEF ReadPC
<1>3. \A stack \in Stacks : c.sp[stack] \in Word
  BY DEF Proper, CpuStates
<1>4. c.sp[LookUpSP(c)] \in Word
  BY <1>3, StackOf
<1>5. \A g \in GeneralRegisters : c.r[g] \in Word
  BY DEF Proper, CpuStates
<1>6. id = kSp \/ id = kPc \/ (id \in GeneralRegisters /\ id # kSp /\ id # kPc)
  BY DEF Registers, GeneralRegisters, kSp, kPc
<1>7. /\ id = kSp => ReadRegister(c, id) = c.sp[LookUpSP(c)]
      /\ id = kPc => ReadRegister(c, id) = ReadPC(c)
      /\ id \in GeneralRegisters => ReadRegister(c, id) = c.r[id]
  BY <1>6 DEF ReadRegister, kSp, kPc, GeneralRegisters
<1>8. QED
  BY <1>2, <1>4, <1>5, <1>6, <1>7

LEMMA WriteRegisterKeeps ==
    ASSUME NEW c, Proper(c), NEW id \in Registers, NEW value \in Word
    PROVE  Keeps(c, WriteRegister(c, id, value))
<1>1. CASE id = kSp
  <2> DEFINE stack == LookUpSP(c)
  <2>1. stack \in Stacks
    BY StackOf
  <2>2. WriteRegister(c, id, value) = [c EXCEPT !.sp[stack] = value]
    BY <1>1 DEF WriteRegister, kSp, kPc, GeneralRegisters
  <2> HIDE DEF stack
  <2>3. [c.sp EXCEPT ![stack] = value] \in [Stacks -> Word]
    BY <2>1 DEF Proper, CpuStates
  <2> DEFINE sp == [c.sp EXCEPT ![stack] = value]
  <2> HIDE DEF sp
  <2>4. Keeps(c, [c EXCEPT !.sp = sp])
    BY <2>3 DEF Keeps, Proper, CpuStates, sp
  <2>5. QED
    BY <2>2, <2>4 DEF sp
<1>2. CASE id = kPc
  BY <1>2 DEF Keeps, WriteRegister, kSp, kPc, GeneralRegisters
<1>3. CASE id \notin {kSp, kPc}
  <2>1. id \in GeneralRegisters
    BY <1>3 DEF Registers, GeneralRegisters, kSp, kPc
  <2>2. WriteRegister(c, id, value) = [c EXCEPT !.r[id] = value]
    BY <1>3, <2>1 DEF WriteRegister
  <2>3. Keeps(c, [c EXCEPT !.r[id] = value])
    BY <2>1 DEF Keeps, Proper, CpuStates
  <2>4. QED
    BY <2>2, <2>3
<1>4. QED
  BY <1>1, <1>2, <1>3

LEMMA RaiseKeeps ==
    ASSUME NEW c, Proper(c), NEW exception \in {"kBusFault", "kUsageFault", "kSVCall", "kHardFault"}
    PROVE  Keeps(c, Raise(c, exception))
<1>1. c.pending \cup {exception} \in SUBSET {"kBusFault", "kUsageFault", "kSVCall", "kHardFault"}
  BY DEF Proper, CpuStates
<1> DEFINE pending == c.pending \cup {exception}
<1> HIDE DEF pending
<1>2. Keeps(c, [c EXCEPT !.pending = pending])
  BY <1>1 DEF Keeps, Proper, CpuStates, pending
<1>3. QED
  BY <1>2 DEF Raise, pending

LEMMA SetFlagsProper ==
    ASSUME NEW c, Proper(c), NEW res, Delivers(res)
    PROVE  /\ Proper(SetFlags(c, res))
           /\ SetFlags(c, res).pc = c.pc /\ SetFlags(c, res).istate = c.istate
<1> DEFINE apsr == [n |-> Negative(res.value), z |-> res.value = 0,
                    c |-> res.carry_out, v |-> res.overflow]
<1>1. apsr \in [n : BOOLEAN, z : BOOLEAN, c : BOOLEAN, v : BOOLEAN]
  <2>1. res.value \in Int /\ Half \in Int
    BY HalfAssumption DEF Delivers, Word
  <2>2. Negative(res.value) \in BOOLEAN /\ (res.value = 0) \in BOOLEAN
    BY <2>1 DEF Negative
  <2>3. QED
    BY <2>2, Zenon DEF Delivers
<1>2. SetFlags(c, res) = [c EXCEPT !.apsr = apsr]
  BY DEF SetFlags
<1> HIDE DEF apsr
<1>3. /\ [c EXCEPT !.apsr = apsr] \in CpuStates
      /\ [c EXCEPT !.apsr = apsr].pc = c.pc /\ [c EXCEPT !.apsr = apsr].istate = c.istate
  BY <1>1 DEF Proper, CpuStates
<1>4. QED
  BY <1>2, <1>3 DEF Proper

LEMMA FlagsOf == ASSUME NEW c, Proper(c) PROVE Flags(c.apsr)
  BY DEF Proper, CpuStates, Flags

------------------------------------------------------------------------------
(* The arguments of Call *)

LEMMA CaseFits == Handled => Fits(instr.id, case)
  BY CasesFit DEF Handled, case

LEMMA RegisterWord == ASSUME Proper(cpu), NEW name, Arg(name) \in Registers PROVE Read(name) \in Word
  BY ReadRegisterIsWord DEF Read

LEMMA UnaryLoadInstrImmOperands ==
    ASSUME Handled, Shaped(instr), class = "UnaryLoadInstrImm"
    PROVE  /\ instr.id = "kLdrLiteral"
           /\ case.op = "LoadMemU32"
           /\ instr.fields \in [t : Registers, imm32 : Int]
           /\ Arg("t") \in Registers /\ Arg("imm32") \in Int
<1>1. Fits(instr.id, case)
  BY CaseFits
<1>2. /\ instr.id = "kLdrLiteral"
      /\ case.op = "LoadMemU32"
  BY <1>1 DEF Fits, class
<1>3. /\ instr.fields \in [t : Registers, imm32 : Int]
  BY <1>2 DEF Shaped
<1>4. case.base = "n"
  BY <1>1, <1>2 DEF Fits
<1>5. QED
  BY <1>2, <1>3, <1>4 DEF Arg

LEMMA UnaryInstrOperands ==
    ASSUME Handled, Shaped(instr), class = "UnaryInstr"
    PROVE  /\ instr.id \in {"kClz", "kMovRegister", "kRrx"}
           /\ case.op \in {"Clz1Op", "Mov1Op", "Rrx1Op"}
           /\ instr.fields \in [d : Registers, m : Registers]
           /\ Arg("d") \in Registers /\ Arg("m") \in Registers
<1>1. Fits(instr.id, case)
  BY CaseFits
<1>2. /\ instr.id \in {"kClz", "kMovRegister", "kRrx"}
      /\ case.op \in {"Clz1Op", "Mov1Op", "Rrx1Op"}
  BY <1>1 DEF Fits, class
<1>3. /\ instr.fields \in [d : Registers, m : Registers]
  BY <1>2 DEF Shaped
<1>4. case.base = "n"
  BY <1>1, <1>2 DEF Fits
<1>5. QED
  BY <1>2, <1>3, <1>4 DEF Arg

LEMMA BinaryLoadInstrWithImmOperands ==
    ASSUME Handled, Shaped(instr), class = "BinaryLoadInstrWithImm"
    PROVE  /\ instr.id \in {"kLdrsbImmediate", "kLdrbImmediate", "kLdrImmediate", "kLdrex",
                            "kLdrhImmediate", "kLdrshImmediate"}
           /\ case.op \in {"LoadMemI8", "LoadMemU8", "LoadMemU32", "LoadMemExU32", "LoadMemU16",
                           "LoadMemI16"}
           /\ instr.fields \in [t : Registers, n : Registers, imm32 : Int]
           /\ Arg("t") \in Registers /\ Arg("n") \in Registers /\ Arg("imm32") \in Int
<1>1. Fits(instr.id, case)
  BY CaseFits
<1>2. /\ instr.id \in {"kLdrsbImmediate", "kLdrbImmediate", "kLdrImmediate", "kLdrex",
                       "kLdrhImmediate", "kLdrshImmediate"}
      /\ case.op \in {"LoadMemI8", "LoadMemU8", "LoadMemU32", "LoadMemExU32", "LoadMemU16",
                      "LoadMemI16"}
  BY <1>1 DEF Fits, class
<1>3. /\ instr.fields \in [t : Registers, n : Registers, imm32 : Int]
  BY <1>2 DEF Shaped
<1>4. case.base = "n"
  BY <1>1, <1>2 DEF Fits
<1>5. QED
  BY <1>2, <1>3, <1>4 DEF Arg

LEMMA Binary64bitInstrOperands ==
    ASSUME Handled, Shaped(instr), class = "Binary64bitInstr"
    PROVE  /\ instr.id \in {"kUmull", "kUmlal", "kSmull"}
           /\ case.op \in {"Umull2Op", "Umlal2Op", "Smull2Op"}
           /\ instr.fields \in [dLo : Registers, dHi : Registers, n : Registers, m : Registers]
           /\ Arg("dLo") \in Registers /\ Arg("dHi") \in Registers /\ Arg("n") \in Registers
           /\ Arg("m") \in Registers
<1>1. Fits(instr.id, case)
  BY CaseFits
<1>2. /\ instr.id \in {"kUmull", "kUmlal", "kSmull"}
      /\ case.op \in {"Umull2Op", "Umlal2Op", "Smull2Op"}
  BY <1>1 DEF Fits, class
<1>3. /\ instr.fields \in [dLo : Registers, dHi : Registers, n : Registers, m : Registers]
  BY <1>2 DEF Shaped
<1>4. case.base = "n"
  BY <1>1, <1>2 DEF Fits
<1>5. QED
  BY <1>2, <1>3, <1>4 DEF Arg

LEMMA MsrOperands ==
    ASSUME Handled, Shaped(instr), class = "Msr"
    PROVE  /\ instr.id = "kMsr"
           /\ instr.fields \in [n : Registers, mask : Nat, SYSm : Nat]
           /\ Arg("n") \in Registers /\ Arg("SYSm") \in Nat
<1>1. Fits(instr.id, case)
  BY CaseFits
<1>2. /\ instr.id = "kMsr"
  BY <1>1 DEF Fits, class
<1>3. /\ instr.fields \in [n : Registers, mask : Nat, SYSm : Nat]
  BY <1>2 DEF Shaped
<1>4. case.base = "n"
  BY <1>1, <1>2 DEF Fits
<1>5. QED
  BY <1>2, <1>3, <1>4 DEF Arg

LEMMA MrsOperands ==
    ASSUME Handled, Shaped(instr), class = "Mrs"
    PROVE  /\ instr.id = "kMrs"
           /\ instr.fields \in [d : Registers, mask : Nat, SYSm : Nat]
           /\ Arg("d") \in Registers /\ Arg("SYSm") \in Nat
<1>1. Fits(instr.id, case)
  BY CaseFits
<1>2. /\ instr.id = "kMrs"
  BY <1>1 DEF Fits, class
<1>3. /\ instr.fields \in [d : Registers, mask : Nat, SYSm : Nat]
  BY <1>2 DEF Shaped
<1>4. case.base = "n"
  BY <1>1, <1>2 DEF Fits
<1>5. QED
  BY <1>2, <1>3, <1>4 DEF Arg

LEMMA LdrdOperands ==
    ASSUME Handled, Shaped(instr), class = "Ldrd"
    PROVE  /\ instr.id = "kLdrdImmediate"
           /\ instr.fields \in [t : Registers, t2 : Registers, n : Registers, imm32 : Int]
           /\ Arg("t") \in Registers /\ Arg("t2") \in Registers /\ Arg("n") \in Registers
           /\ Arg("imm32") \in Int
<1>1. Fits(instr.id, case)
  BY CaseFits
<1>2. /\ instr.id = "kLdrdImmediate"
  BY <1>1 DEF Fits, class
<1>3. /\ instr.fields \in [t : Registers, t2 : Registers, n : Registers, imm32 : Int]
  BY <1>2 DEF Shaped
<1>4. case.base = "n"
  BY <1>1, <1>2 DEF Fits
<1>5. QED
  BY <1>2, <1>3, <1>4 DEF Arg

LEMMA BinaryInstrWithShiftOperands ==
    ASSUME Handled, Shaped(instr), class = "BinaryInstrWithShift"
    PROVE  /\ instr.id \in {"kAsrImmediate", "kLslImmediate", "kMvnRegister", "kLsrImmediate"}
           /\ case.op \in {"Asr1ShiftOp", "Lsl1ShiftOp", "Mvn1ShiftOp", "Lsr1ShiftOp"}
           /\ instr.fields \in [d : Registers, m : Registers, shift_res : Shifts]
           /\ Arg("d") \in Registers /\ Arg("m") \in Registers /\ Arg("shift_res") \in Shifts
<1>1. Fits(instr.id, case)
  BY CaseFits
<1>2. /\ instr.id \in {"kAsrImmediate", "kLslImmediate", "kMvnRegister", "kLsrImmediate"}
      /\ case.op \in {"Asr1ShiftOp", "Lsl1ShiftOp", "Mvn1ShiftOp", "Lsr1ShiftOp"}
  BY <1>1 DEF Fits, class
<1>3. /\ instr.fields \in [d : Registers, m : Registers, shift_res : Shifts]
  BY <1>2 DEF Shaped
<1>4. case.base = "n"
  BY <1>1, <1>2 DEF Fits
<1>5. QED
  BY <1>2, <1>3, <1>4 DEF Arg

LEMMA BinaryInstrOperands ==
    ASSUME Handled, Shaped(instr), class = "BinaryInstr"
    PROVE  /\ instr.id \in {"kLsrRegister", "kAsrRegister", "kLslRegister", "kUdiv", "kSdiv",
                            "kMul"}
           /\ case.op \in {"Lsr2Op", "Asr2Op", "Lsl2Op", "UDiv2Op", "SDiv2Op", "Mul2Op"}
           /\ instr.fields \in [d : Registers, n : Registers, m : Registers]
           /\ Arg("d") \in Registers /\ Arg("n") \in Registers /\ Arg("m") \in Registers
<1>1. Fits(instr.id, case)
  BY CaseFits
<1>2. /\ instr.id \in {"kLsrRegister", "kAsrRegister", "kLslRegister", "kUdiv", "kSdiv",
                       "kMul"}
      /\ case.op \in {"Lsr2Op", "Asr2Op", "Lsl2Op", "UDiv2Op", "SDiv2Op", "Mul2Op"}
  BY <1>1 DEF Fits, class
<1>3. /\ instr.fields \in [d : Registers, n : Registers, m : Registers]
  BY <1>2 DEF Shaped
<1>4. case.base = "n"
  BY <1>1, <1>2 DEF Fits
<1>5. QED
  BY <1>2, <1>3, <1>4 DEF Arg

LEMMA TernaryNullInstrWithShiftOperands ==
    ASSUME Handled, Shaped(instr), class = "TernaryNullInstrWithShift"
    PROVE  /\ instr.id \in {"kCmpRegister", "kTstRegister", "kTeqRegister"}
           /\ case.op \in {"Cmp2ShiftOp", "Tst2ShiftOp", "Teq2ShiftOp"}
           /\ instr.fields \in [n : Registers, m : Registers, shift_res : Shifts]
           /\ Arg("n") \in Registers /\ Arg("m") \in Registers /\ Arg("shift_res") \in Shifts
<1>1. Fits(instr.id, case)
  BY CaseFits
<1>2. /\ instr.id \in {"kCmpRegister", "kTstRegister", "kTeqRegister"}
      /\ case.op \in {"Cmp2ShiftOp", "Tst2ShiftOp", "Teq2ShiftOp"}
  BY <1>1 DEF Fits, class
<1>3. /\ instr.fields \in [n : Registers, m : Registers, shift_res : Shifts]
  BY <1>2 DEF Shaped
<1>4. case.base = "n"
  BY <1>1, <1>2 DEF Fits
<1>5. QED
  BY <1>2, <1>3, <1>4 DEF Arg

LEMMA BinaryNullInstrWithImmOperands ==
    ASSUME Handled, Shaped(instr), class = "BinaryNullInstrWithImm"
    PROVE  /\ instr.id \in {"kCmpImmediate", "kCmnImmediate"}
           /\ case.op \in {"Cmp1ImmOp", "Cmn1ImmOp"}
           /\ instr.fields \in [n : Registers, imm32 : Int]
           /\ Arg("n") \in Registers /\ Arg("imm32") \in Int
<1>1. Fits(instr.id, case)
  BY CaseFits
<1>2. /\ instr.id \in {"kCmpImmediate", "kCmnImmediate"}
      /\ case.op \in {"Cmp1ImmOp", "Cmn1ImmOp"}
  BY <1>1 DEF Fits, class
<1>3. /\ instr.fields \in [n : Registers, imm32 : Int]
  BY <1>2 DEF Shaped
<1>4. case.base = "n"
  BY <1>1, <1>2 DEF Fits
<1>5. QED
  BY <1>2, <1>3, <1>4 DEF Arg

LEMMA ItInstrOperands ==
    ASSUME Handled, Shaped(instr), class = "ItInstr"
    PROVE  /\ instr.id = "kIt"
           /\ instr.fields \in [firstcond : Registers, mask : Registers]
           /\ Arg("firstcond") \in Registers /\ Arg("mask") \in Registers
<1>1. Fits(instr.id, case)
  BY CaseFits
<1>2. /\ instr.id = "kIt"
  BY <1>1 DEF Fits, class
<1>3. /\ instr.fields \in [firstcond : Registers, mask : Registers]
  BY <1>2 DEF Shaped
<1>4. case.base = "n"
  BY <1>1, <1>2 DEF Fits
<1>5. QED
  BY <1>2, <1>3, <1>4 DEF Arg

LEMMA UnaryInstrImmCarryOperands ==
    ASSUME Handled, Shaped(instr), class = "UnaryInstrImmCarry"
    PROVE  /\ instr.id \in {"kMovImmediate", "kMvnImmediate"}
           /\ case.op \in {"MovImmCarryOp", "MvnImmCarryOp"}
           /\ instr.fields \in [d : Registers, imm32_carry : Carries]
           /\ Arg("d") \in Registers /\ Arg("imm32_carry") \in Carries
<1>1. Fits(instr.id, case)
  BY CaseFits
<1>2. /\ instr.id \in {"kMovImmediate", "kMvnImmediate"}
      /\ case.op \in {"MovImmCarryOp", "MvnImmCarryOp"}
  BY <1>1 DEF Fits, class
<1>3. /\ instr.fields \in [d : Registers, imm32_carry : Carries]
  BY <1>2 DEF Shaped
<1>4. case.base = "n"
  BY <1>1, <1>2 DEF Fits
<1>5. QED
  BY <1>2, <1>3, <1>4 DEF Arg

LEMMA BinaryInstrWithRotationOperands ==
    ASSUME Handled, Shaped(instr), class = "BinaryInstrWithRotation"
    PROVE  /\ instr.id \in {"kUxtb", "kSxtb", "kSxth", "kUxth"}
           /\ case.op \in {"Uxtb1Rotation", "Sxtb1Rotation", "Sxth1Rotation", "Uxth1Rotation"}
           /\ instr.fields \in [d : Registers, m : Registers, rotation : Nat]
           /\ Arg("d") \in Registers /\ Arg("m") \in Registers /\ Arg("rotation") \in Nat
<1>1. Fits(instr.id, case)
  BY CaseFits
<1>2. /\ instr.id \in {"kUxtb", "kSxtb", "kSxth", "kUxth"}
      /\ case.op \in {"Uxtb1Rotation", "Sxtb1Rotation", "Sxth1Rotation", "Uxth1Rotation"}
  BY <1>1 DEF Fits, class
<1>3. /\ instr.fields \in [d : Registers, m : Registers, rotation : Nat]
  BY <1>2 DEF Shaped
<1>4. case.base = "n"
  BY <1>1, <1>2 DEF Fits
<1>5. QED
  BY <1>2, <1>3, <1>4 DEF Arg

LEMMA BCondOperands ==
    ASSUME Handled, Shaped(instr), class = "BCond"
    PROVE  /\ instr.id = "kBCond"
           /\ instr.fields \in [cond : Registers, imm32 : Int]
           /\ Arg("imm32") \in Int /\ Arg("cond") \in Registers
<1>1. Fits(instr.id, case)
  BY CaseFits
<1>2. /\ instr.id = "kBCond"
  BY <1>1 DEF Fits, class
<1>3. /\ instr.fields \in [cond : Registers, imm32 : Int]
  BY <1>2 DEF Shaped
<1>4. case.base = "n"
  BY <1>1, <1>2 DEF Fits
<1>5. QED
  BY <1>2, <1>3, <1>4 DEF Arg

LEMMA BinaryBranchInstrOperands ==
    ASSUME Handled, Shaped(instr), class = "BinaryBranchInstr"
    PROVE  /\ instr.id = "kTbbH"
           /\ case.op = "TbbH2Op"
           /\ instr.fields \in [n : Registers, m : Registers]
           /\ Arg("n") \in Registers /\ Arg("m") \in Registers
<1>1. Fits(instr.id, case)
  BY CaseFits
<1>2. /\ instr.id = "kTbbH"
      /\ case.op = "TbbH2Op"
  BY <1>1 DEF Fits, class
<1>3. /\ instr.fields \in [n : Registers, m : Registers]
  BY <1>2 DEF Shaped
<1>4. case.base = "n"
  BY <1>1, <1>2 DEF Fits
<1>5. QED
  BY <1>2, <1>3, <1>4 DEF Arg

LEMMA UnaryBranchInstrImmOperands ==
    ASSUME Handled, Shaped(instr), class = "UnaryBranchInstrImm"
    PROVE  /\ instr.id \in {"kB", "kBl"}
           /\ case.op \in {"B1ImmOp", "Bl1ImmOp"}
           /\ instr.fields \in [imm32 : Int]
           /\ Arg("imm32") \in Int
<1>1. Fits(instr.id, case)
  BY CaseFits
<1>2. /\ instr.id \in {"kB", "kBl"}
      /\ case.op \in {"B1ImmOp", "Bl1ImmOp"}
  BY <1>1 DEF Fits, class
<1>3. /\ instr.fields \in [imm32 : Int]
  BY <1>2 DEF Shaped
<1>4. case.base = "n"
  BY <1>1, <1>2 DEF Fits
<1>5. QED
  BY <1>2, <1>3, <1>4 DEF Arg

LEMMA BinaryBranchInstrWithImmOperands ==
    ASSUME Handled, Shaped(instr), class = "BinaryBranchInstrWithImm"
    PROVE  /\ instr.id = "kCbNZ"
           /\ case.op = "CbNZ1ImmOp"
           /\ instr.fields \in [n : Registers, imm32 : Int]
           /\ Arg("n") \in Registers /\ Arg("imm32") \in Int
<1>1. Fits(instr.id, case)
  BY CaseFits
<1>2. /\ instr.id = "kCbNZ"
      /\ case.op = "CbNZ1ImmOp"
  BY <1>1 DEF Fits, class
<1>3. /\ instr.fields \in [n : Registers, imm32 : Int]
  BY <1>2 DEF Shaped
<1>4. case.base = "n"
  BY <1>1, <1>2 DEF Fits
<1>5. QED
  BY <1>2, <1>3, <1>4 DEF Arg

LEMMA UnaryBranchInstrOperands ==
    ASSUME Handled, Shaped(instr), class = "UnaryBranchInstr"
    PROVE  /\ instr.id \in {"kBx", "kBlx"}
           /\ case.op \in {"Bx1Op", "Blx1Op"}
           /\ instr.fields \in [m : Registers]
           /\ Arg("m") \in Registers
<1>1. Fits(instr.id, case)
  BY CaseFits
<1>2. /\ instr.id \in {"kBx", "kBlx"}
      /\ case.op \in {"Bx1Op", "Blx1Op"}
  BY <1>1 DEF Fits, class
<1>3. /\ instr.fields \in [m : Registers]
  BY <1>2 DEF Shaped
<1>4. case.base = "n"
  BY <1>1, <1>2 DEF Fits
<1>5. QED
  BY <1>2, <1>3, <1>4 DEF Arg

LEMMA BinaryInstrWithImmOperands ==
    ASSUME Handled, Shaped(instr), class = "BinaryInstrWithImm"
    PROVE  /\ instr.id \in {"kSubImmediate", "kSbcImmediate", "kRsbImmediate",
                            "kSubSpMinusImmediate", "kAddImmediate", "kAdcImmediate",
                            "kAddSpPlusImmediate"}
           /\ case.op \in {"Sub1ImmOp", "Sbc1ImmOp", "Rsb1ImmOp", "Add1ImmOp", "Adc1ImmOp"}
           /\ instr.id \in {"kSubImmediate", "kSbcImmediate", "kRsbImmediate", "kAddImmediate",
                            "kAdcImmediate"} =>
                instr.fields \in [d : Registers, n : Registers, imm32 : Int]
           /\ instr.id \in {"kSubSpMinusImmediate", "kAddSpPlusImmediate"} =>
                instr.fields \in [d : Registers, imm32 : Int]
           /\ Arg("d") \in Registers /\ Arg("n") \in Registers /\ Arg("imm32") \in Int
           /\ instr.id \in {"kSubSpMinusImmediate", "kAddSpPlusImmediate"} => Arg("n") = kSp
           /\ instr.id \notin {"kSubSpMinusImmediate", "kAddSpPlusImmediate"} => Arg("n") = instr.fields.n
<1>1. Fits(instr.id, case)
  BY CaseFits
<1>2. /\ instr.id \in {"kSubImmediate", "kSbcImmediate", "kRsbImmediate",
                       "kSubSpMinusImmediate", "kAddImmediate", "kAdcImmediate",
                       "kAddSpPlusImmediate"}
      /\ case.op \in {"Sub1ImmOp", "Sbc1ImmOp", "Rsb1ImmOp", "Add1ImmOp", "Adc1ImmOp"}
  BY <1>1 DEF Fits, class
<1>3. /\ instr.id \in {"kSubImmediate", "kSbcImmediate", "kRsbImmediate", "kAddImmediate",
                       "kAdcImmediate"} =>
           instr.fields \in [d : Registers, n : Registers, imm32 : Int]
      /\ instr.id \in {"kSubSpMinusImmediate", "kAddSpPlusImmediate"} =>
           instr.fields \in [d : Registers, imm32 : Int]
  BY <1>2 DEF Shaped
<1>4. case.base = IF instr.id \in {"kSubSpMinusImmediate", "kAddSpPlusImmediate"} THEN "Sp" ELSE "n"
  BY <1>1, <1>2 DEF Fits
<1>5. QED
  BY <1>2, <1>3, <1>4 DEF Arg, Registers, kSp

LEMMA UnaryInstrImmOperands ==
    ASSUME Handled, Shaped(instr), class = "UnaryInstrImm"
    PROVE  /\ instr.id = "kAddPcPlusImmediate"
           /\ case.op = "AddToPcImmOp"
           /\ instr.fields \in [d : Registers, imm32 : Int]
           /\ Arg("d") \in Registers /\ Arg("imm32") \in Int
<1>1. Fits(instr.id, case)
  BY CaseFits
<1>2. /\ instr.id = "kAddPcPlusImmediate"
      /\ case.op = "AddToPcImmOp"
  BY <1>1 DEF Fits, class
<1>3. /\ instr.fields \in [d : Registers, imm32 : Int]
  BY <1>2 DEF Shaped
<1>4. case.base = "n"
  BY <1>1, <1>2 DEF Fits
<1>5. QED
  BY <1>2, <1>3, <1>4 DEF Arg

LEMMA BinaryNullInstrWithImmCarryOperands ==
    ASSUME Handled, Shaped(instr), class = "BinaryNullInstrWithImmCarry"
    PROVE  /\ instr.id \in {"kTeqImmediate", "kTstImmediate"}
           /\ case.op \in {"Teq1ImmCarryOp", "Tst1ImmCarryOp"}
           /\ instr.fields \in [n : Registers, imm32_carry : Carries]
           /\ Arg("n") \in Registers /\ Arg("imm32_carry") \in Carries
<1>1. Fits(instr.id, case)
  BY CaseFits
<1>2. /\ instr.id \in {"kTeqImmediate", "kTstImmediate"}
      /\ case.op \in {"Teq1ImmCarryOp", "Tst1ImmCarryOp"}
  BY <1>1 DEF Fits, class
<1>3. /\ instr.fields \in [n : Registers, imm32_carry : Carries]
  BY <1>2 DEF Shaped
<1>4. case.base = "n"
  BY <1>1, <1>2 DEF Fits
<1>5. QED
  BY <1>2, <1>3, <1>4 DEF Arg

LEMMA BinaryInstrWithImmCarryOperands ==
    ASSUME Handled, Shaped(instr), class = "BinaryInstrWithImmCarry"
    PROVE  /\ instr.id \in {"kEorImmediate", "kOrrImmediate", "kAndImmediate", "kBicImmediate"}
           /\ case.op \in {"Eor1ImmCarryOp", "Orr1ImmCarryOp", "And1ImmCarryOp", "Bic1ImmCarryOp"}
           /\ instr.fields \in [d : Registers, n : Registers, imm32_carry : Carries]
           /\ Arg("d") \in Registers /\ Arg("n") \in Registers /\ Arg("imm32_carry") \in Carries
<1>1. Fits(instr.id, case)
  BY CaseFits
<1>2. /\ instr.id \in {"kEorImmediate", "kOrrImmediate", "kAndImmediate", "kBicImmediate"}
      /\ case.op \in {"Eor1ImmCarryOp", "Orr1ImmCarryOp", "And1ImmCarryOp", "Bic1ImmCarryOp"}
  BY <1>1 DEF Fits, class
<1>3. /\ instr.fields \in [d : Registers, n : Registers, imm32_carry : Carries]
  BY <1>2 DEF Shaped
<1>4. case.base = "n"
  BY <1>1, <1>2 DEF Fits
<1>5. QED
  BY <1>2, <1>3, <1>4 DEF Arg

LEMMA UbfxOperands ==
    ASSUME Handled, Shaped(instr), class = "Ubfx"
    PROVE  /\ instr.id = "kUbfx"
           /\ instr.fields \in [d : Registers, n : Registers, lsbit : Nat, widthminus1 : Nat]
           /\ Arg("d") \in Registers /\ Arg("n") \in Registers /\ Arg("lsbit") \in Nat
           /\ Arg("widthminus1") \in Nat
<1>1. Fits(instr.id, case)
  BY CaseFits
<1>2. /\ instr.id = "kUbfx"
  BY <1>1 DEF Fits, class
<1>3. /\ instr.fields \in [d : Registers, n : Registers, lsbit : Nat, widthminus1 : Nat]
  BY <1>2 DEF Shaped
<1>4. case.base = "n"
  BY <1>1, <1>2 DEF Fits
<1>5. QED
  BY <1>2, <1>3, <1>4 DEF Arg

LEMMA BfiOperands ==
    ASSUME Handled, Shaped(instr), class = "Bfi"
    PROVE  /\ instr.id = "kBfi"
           /\ instr.fields \in [d : Registers, n : Registers, lsbit : Nat, msbit : Nat]
           /\ Arg("d") \in Registers /\ Arg("n") \in Registers /\ Arg("lsbit") \in Nat
           /\ Arg("msbit") \in Nat
<1>1. Fits(instr.id, case)
  BY CaseFits
<1>2. /\ instr.id = "kBfi"
  BY <1>1 DEF Fits, class
<1>3. /\ instr.fields \in [d : Registers, n : Registers, lsbit : Nat, msbit : Nat]
  BY <1>2 DEF Shaped
<1>4. case.base = "n"
  BY <1>1, <1>2 DEF Fits
<1>5. QED
  BY <1>2, <1>3, <1>4 DEF Arg

LEMMA TernaryInstrOperands ==
    ASSUME Handled, Shaped(instr), class = "TernaryInstr"
    PROVE  /\ instr.id \in {"kMls", "kMla"}
           /\ case.op \in {"Mls3Op", "Mla3Op"}
           /\ instr.fields \in [d : Registers, n : Registers, m : Registers, a : Registers]
           /\ Arg("d") \in Registers /\ Arg("n") \in Registers /\ Arg("m") \in Registers
           /\ Arg("a") \in Registers
<1>1. Fits(instr.id, case)
  BY CaseFits
<1>2. /\ instr.id \in {"kMls", "kMla"}
      /\ case.op \in {"Mls3Op", "Mla3Op"}
  BY <1>1 DEF Fits, class
<1>3. /\ instr.fields \in [d : Registers, n : Registers, m : Registers, a : Registers]
  BY <1>2 DEF Shaped
<1>4. case.base = "n"
  BY <1>1, <1>2 DEF Fits
<1>5. QED
  BY <1>2, <1>3, <1>4 DEF Arg

LEMMA TernaryInstrWithShiftOperands ==
    ASSUME Handled, Shaped(instr), class = "TernaryInstrWithShift"
    PROVE  /\ instr.id \in {"kSubRegister", "kRsbRegister", "kAdcRegister", "kAddRegister",
                            "kOrrRegister", "kSbcRegister", "kEorRegister", "kAndRegister",
                            "kBicRegister"}
           /\ case.op \in {"Sub2ShiftOp", "Rsb2ShiftOp", "Adc2ShiftOp", "Add2ShiftOp",
                           "Orr2ShiftOp", "Sbc2ShiftOp", "Eor2ShiftOp", "And2ShiftOp",
                           "Bic2ShiftOp"}
           /\ instr.fields \in [d : Registers, n : Registers, m : Registers, shift_res : Shifts]
           /\ Arg("d") \in Registers /\ Arg("n") \in Registers /\ Arg("m") \in Registers
           /\ Arg("shift_res") \in Shifts
<1>1. Fits(instr.id, case)
  BY CaseFits
<1>2. /\ instr.id \in {"kSubRegister", "kRsbRegister", "kAdcRegister", "kAddRegister",
                       "kOrrRegister", "kSbcRegister", "kEorRegister", "kAndRegister",
                       "kBicRegister"}
      /\ case.op \in {"Sub2ShiftOp", "Rsb2ShiftOp", "Adc2ShiftOp", "Add2ShiftOp",
                      "Orr2ShiftOp", "Sbc2ShiftOp", "Eor2ShiftOp", "And2ShiftOp",
                      "Bic2ShiftOp"}
  BY <1>1 DEF Fits, class
<1>3. /\ instr.fields \in [d : Registers, n : Registers, m : Registers, shift_res : Shifts]
  BY <1>2 DEF Shaped
<1>4. case.base = "n"
  BY <1>1, <1>2 DEF Fits
<1>5. QED
  BY <1>2, <1>3, <1>4 DEF Arg

LEMMA VariadicStoreInstrDbOperands ==
    ASSUME Handled, Shaped(instr), class = "VariadicStoreInstrDb"
    PROVE  /\ instr.id = "kPush"
           /\ instr.fields \in [registers : Nat]
           /\ Arg("n") \in Registers /\ Arg("registers") \in Nat
           /\ Arg("n") = kSp
<1>1. Fits(instr.id, case)
  BY CaseFits
<1>2. /\ instr.id = "kPush"
  BY <1>1 DEF Fits, class
<1>3. /\ instr.fields \in [registers : Nat]
  BY <1>2 DEF Shaped
<1>4. case.base = "Sp"
  BY <1>1, <1>2 DEF Fits
<1>5. QED
  BY <1>2, <1>3, <1>4 DEF Arg, Registers, kSp

LEMMA VariadicStoreInstrOperands ==
    ASSUME Handled, Shaped(instr), class = "VariadicStoreInstr"
    PROVE  /\ instr.id = "kStm"
           /\ instr.fields \in [n : Registers, registers : Nat]
           /\ Arg("n") \in Registers /\ Arg("registers") \in Nat
<1>1. Fits(instr.id, case)
  BY CaseFits
<1>2. /\ instr.id = "kStm"
  BY <1>1 DEF Fits, class
<1>3. /\ instr.fields \in [n : Registers, registers : Nat]
  BY <1>2 DEF Shaped
<1>4. case.base = "n"
  BY <1>1, <1>2 DEF Fits
<1>5. QED
  BY <1>2, <1>3, <1>4 DEF Arg

LEMMA VariadicLoadInstrOperands ==
    ASSUME Handled, Shaped(instr), class = "VariadicLoadInstr"
    PROVE  /\ instr.id \in {"kLdm", "kPop"}
           /\ instr.id = "kLdm" =>
                instr.fields \in [n : Registers, registers : Nat]
           /\ instr.id = "kPop" =>
                instr.fields \in [registers : Nat]
           /\ Arg("n") \in Registers /\ Arg("registers") \in Nat
           /\ instr.id = "kPop" => Arg("n") = kSp
           /\ instr.id \notin {"kPop"} => Arg("n") = instr.fields.n
<1>1. Fits(instr.id, case)
  BY CaseFits
<1>2. /\ instr.id \in {"kLdm", "kPop"}
  BY <1>1 DEF Fits, class
<1>3. /\ instr.id = "kLdm" =>
           instr.fields \in [n : Registers, registers : Nat]
      /\ instr.id = "kPop" =>
           instr.fields \in [registers : Nat]
  BY <1>2 DEF Shaped
<1>4. case.base = IF instr.id \in {"kPop"} THEN "Sp" ELSE "n"
  BY <1>1, <1>2 DEF Fits
<1>5. QED
  BY <1>2, <1>3, <1>4 DEF Arg, Registers, kSp

LEMMA StrdOperands ==
    ASSUME Handled, Shaped(instr), class = "Strd"
    PROVE  /\ instr.id = "kStrdImmediate"
           /\ instr.fields \in [t : Registers, t2 : Registers, n : Registers, imm32 : Int]
           /\ Arg("t") \in Registers /\ Arg("t2") \in Registers /\ Arg("n") \in Registers
           /\ Arg("imm32") \in Int
<1>1. Fits(instr.id, case)
  BY CaseFits
<1>2. /\ instr.id = "kStrdImmediate"
  BY <1>1 DEF Fits, class
<1>3. /\ instr.fields \in [t : Registers, t2 : Registers, n : Registers, imm32 : Int]
  BY <1>2 DEF Shaped
<1>4. case.base = "n"
  BY <1>1, <1>2 DEF Fits
<1>5. QED
  BY <1>2, <1>3, <1>4 DEF Arg

LEMMA TernaryStoreInstrWithShiftOperands ==
    ASSUME Handled, Shaped(instr), class = "TernaryStoreInstrWithShift"
    PROVE  /\ instr.id \in {"kStrRegister", "kStrbRegister", "kStrhRegister"}
           /\ case.op \in {"StoreMemU32", "StoreMemU8", "StoreMemU16"}
           /\ instr.fields \in [t : Registers, n : Registers, m : Registers, shift_res : Shifts]
           /\ Arg("t") \in Registers /\ Arg("n") \in Registers /\ Arg("m") \in Registers
           /\ Arg("shift_res") \in Shifts
<1>1. Fits(instr.id, case)
  BY CaseFits
<1>2. /\ instr.id \in {"kStrRegister", "kStrbRegister", "kStrhRegister"}
      /\ case.op \in {"StoreMemU32", "StoreMemU8", "StoreMemU16"}
  BY <1>1 DEF Fits, class
<1>3. /\ instr.fields \in [t : Registers, n : Registers, m : Registers, shift_res : Shifts]
  BY <1>2 DEF Shaped
<1>4. case.base = "n"
  BY <1>1, <1>2 DEF Fits
<1>5. QED
  BY <1>2, <1>3, <1>4 DEF Arg

LEMMA TernaryLoadInstrWithShiftOperands ==
    ASSUME Handled, Shaped(instr), class = "TernaryLoadInstrWithShift"
    PROVE  /\ instr.id \in {"kLdrhRegister", "kLdrbRegister", "kLdrRegister"}
           /\ case.op \in {"LoadMemU16", "LoadMemU8", "LoadMemU32"}
           /\ instr.fields \in [t : Registers, n : Registers, m : Registers, shift_res : Shifts]
           /\ Arg("t") \in Registers /\ Arg("n") \in Registers /\ Arg("m") \in Registers
           /\ Arg("shift_res") \in Shifts
<1>1. Fits(instr.id, case)
  BY CaseFits
<1>2. /\ instr.id \in {"kLdrhRegister", "kLdrbRegister", "kLdrRegister"}
      /\ case.op \in {"LoadMemU16", "LoadMemU8", "LoadMemU32"}
  BY <1>1 DEF Fits, class
<1>3. /\ instr.fields \in [t : Registers, n : Registers, m : Registers, shift_res : Shifts]
  BY <1>2 DEF Shaped
<1>4. case.base = "n"
  BY <1>1, <1>2 DEF Fits
<1>5. QED
  BY <1>2, <1>3, <1>4 DEF Arg

LEMMA BinaryStoreInstrWithImmOperands ==
    ASSUME Handled, Shaped(instr), class = "BinaryStoreInstrWithImm"
    PROVE  /\ instr.id \in {"kStrImmediate", "kStrhImmediate", "kStrbImmediate"}
           /\ case.op \in {"StoreMemU32", "StoreMemU16", "StoreMemU8"}
           /\ instr.fields \in [t : Registers, n : Registers, imm32 : Int]
           /\ Arg("t") \in Registers /\ Arg("n") \in Registers /\ Arg("imm32") \in Int
<1>1. Fits(instr.id, case)
  BY CaseFits
<1>2. /\ instr.id \in {"kStrImmediate", "kStrhImmediate", "kStrbImmediate"}
      /\ case.op \in {"StoreMemU32", "StoreMemU16", "StoreMemU8"}
  BY <1>1 DEF Fits, class
<1>3. /\ instr.fields \in [t : Registers, n : Registers, imm32 : Int]
  BY <1>2 DEF Shaped
<1>4. case.base = "n"
  BY <1>1, <1>2 DEF Fits
<1>5. QED
  BY <1>2, <1>3, <1>4 DEF Arg

LEMMA TernaryStoreInstrWithImmOperands ==
    ASSUME Handled, Shaped(instr), class = "TernaryStoreInstrWithImm"
    PROVE  /\ instr.id = "kStrex"
           /\ case.op = "StoreMemExU32"
           /\ instr.fields \in [t : Registers, n : Registers, d : Registers, imm32 : Int]
           /\ Arg("d") \in Registers /\ Arg("t") \in Registers /\ Arg("n") \in Registers
           /\ Arg("imm32") \in Int
<1>1. Fits(instr.id, case)
  BY CaseFits
<1>2. /\ instr.id = "kStrex"
      /\ case.op = "StoreMemExU32"
  BY <1>1 DEF Fits, class
<1>3. /\ instr.fields \in [t : Registers, n : Registers, d : Registers, imm32 : Int]
  BY <1>2 DEF Shaped
<1>4. case.base = "n"
  BY <1>1, <1>2 DEF Fits
<1>5. QED
  BY <1>2, <1>3, <1>4 DEF Arg

LEMMA SvcOperands ==
    ASSUME Handled, Shaped(instr), class = "Svc"
    PROVE  /\ instr.id = "kSvc"
           /\ instr.fields \in [imm32 : Int]
           /\ Arg("imm32") \in Int
<1>1. Fits(instr.id, case)
  BY CaseFits
<1>2. /\ instr.id = "kSvc"
  BY <1>1 DEF Fits, class
<1>3. /\ instr.fields \in [imm32 : Int]
  BY <1>2 DEF Shaped
<1>4. case.base = "n"
  BY <1>1, <1>2 DEF Fits
<1>5. QED
  BY <1>2, <1>3, <1>4 DEF Arg

LEMMA BkptOperands ==
    ASSUME Handled, Shaped(instr), class = "Bkpt"
    PROVE  /\ instr.id = "kBkpt"
           /\ instr.fields \in [imm32 : Int]
           /\ Arg("imm32") \in Int
<1>1. Fits(instr.id, case)
  BY CaseFits
<1>2. /\ instr.id = "kBkpt"
  BY <1>1 DEF Fits, class
<1>3. /\ instr.fields \in [imm32 : Int]
  BY <1>2 DEF Shaped
<1>4. case.base = "n"
  BY <1>1, <1>2 DEF Fits
<1>5. QED
  BY <1>2, <1>3, <1>4 DEF Arg

LEMMA NullaryInstrOperands ==
    ASSUME Handled, Shaped(instr), class = "NullaryInstr"
    PROVE  /\ instr.id \in {"kNop", "kDmb"}
           /\ case.op \in {"Nop0Op", "Dmb0Op"}
<1>1. Fits(instr.id, case)
  BY CaseFits
<1>2. /\ instr.id \in {"kNop", "kDmb"}
      /\ case.op \in {"Nop0Op", "Dmb0Op"}
  BY <1>1 DEF Fits, class
<1>3. QED
  BY <1>2

------------------------------------------------------------------------------
(* What an instruction that is executed may do *)

Wide == "k32Bit" \in instr.flags

\* An instruction that was decoded and is about to be executed.
Executing ==
    /\ phase = "execute"
    /\ Proper(cpu)
    /\ steps \in 0 .. MaxSteps - 1
    /\ Formed(instr, cpu.istate, Wide)
    /\ failed \subseteq {"decoder"}
    /\ failed = {} => Valid(instr, cpu.istate, Wide)

Exempt == instr.id \in {"kMsr", "kMrs"} \/ PcSlipsThrough
Assured(asserts) == failed = {} /\ ~Exempt => asserts

\* Instructions that go on elsewhere than behind themselves, or not at all.
Redirects ==
    \/ ~Handled
    \/ class \in {"UnaryBranchInstrImm", "UnaryBranchInstr", "BinaryBranchInstr",
                  "BinaryBranchInstrWithImm", "BCond"}
    \/ class = "UnaryInstr" /\ Arg("d") = kPc
    \/ class \in LoadClasses /\ Arg("t") = kPc
    \/ class = "VariadicLoadInstr" /\ kPc \in List

\* The IT state of an instruction that goes on elsewhere: one that asks for no condition of
\* the block, or a table branch, leaves it alone.
Resumed(istate) ==
    \/ istate = ITAdvance(cpu.istate)
    \/ /\ ~Handled \/ class \in {"BinaryBranchInstr", "BinaryBranchInstrWithImm", "BCond"}
       /\ istate = cpu.istate

StartsBlock == class = "ItInstr" /\ cpu'.istate = Arg("firstcond") * 16 + Arg("mask")

GoesOn == phase' = "fetch" /\ steps' = steps + 1 /\ status' = status
Falls ==
    /\ cpu'.pc = AdvanceInstr(cpu, flags).pc
    /\ cpu'.apsr = cpu.apsr \/ SetsFlags
    /\ cpu'.istate = ITAdvance(cpu.istate) \/ StartsBlock
    /\ GoesOn
Jumps == Redirects /\ cpu'.apsr = cpu.apsr /\ Resumed(cpu'.istate) /\ GoesOn
Ends == /\ phase' = "stopped" /\ steps' = steps /\ status' # "kSuccess"
        /\ cpu'.istate = cpu.istate /\ cpu'.apsr = cpu.apsr

Outcome ==
    /\ Proper(cpu')
    /\ instr' = instr
    /\ failed \subseteq failed' /\ failed' \subseteq failed \cup {"executor"}
    /\ Assured(failed' = {})
    /\ Falls \/ Jumps \/ Ends

LEMMA FailedOutcome ==
    ASSUME NEW asserts, Assured(asserts), failed' = failed \cup When(~asserts, "executor")
    PROVE  /\ failed \subseteq failed' /\ failed' \subseteq failed \cup {"executor"}
           /\ Assured(failed' = {})
  BY DEF Assured, When

LEMMA AdvancesOutcome ==
    ASSUME Executing, NEW c, Proper(c), c.pc = cpu.pc, c.istate = cpu.istate,
           c.apsr = cpu.apsr \/ SetsFlags, NEW asserts, Assured(asserts), Advances(c, asserts)
    PROVE  Outcome
<1>1. /\ Proper(AdvancePcAndIt(c, flags))
      /\ AdvancePcAndIt(c, flags).pc = AdvanceInstr(c, flags).pc
      /\ AdvancePcAndIt(c, flags).apsr = c.apsr
      /\ AdvancePcAndIt(c, flags).istate = ITAdvance(c.istate)
  BY AdvanceProper
<1>2. AdvanceInstr(c, flags).pc = AdvanceInstr(cpu, flags).pc
  <2>1. AdvanceInstr(c, flags).pc = Truncate(c.pc + IF "k32Bit" \in flags THEN 4 ELSE 2)
    BY AdvanceProper
  <2>2. AdvanceInstr(cpu, flags).pc = Truncate(cpu.pc + IF "k32Bit" \in flags THEN 4 ELSE 2)
    BY AdvanceProper DEF Executing
  <2>3. QED
    BY <2>1, <2>2
<1>3. QED
  BY <1>1, <1>2, FailedOutcome, Zenon DEF Advances, Done, Outcome, Falls, GoesOn

LEMMA JumpsOutcome ==
    ASSUME NEW c, Proper(c), c.apsr = cpu.apsr, Resumed(c.istate), Redirects,
           NEW asserts, Assured(asserts), Done(c, asserts)
    PROVE  Outcome
  BY FailedOutcome, Zenon DEF Done, Outcome, Jumps, GoesOn

LEMMA FailsOutcome ==
    ASSUME NEW c, Proper(c), c.istate = cpu.istate, c.apsr = cpu.apsr,
           NEW code, code # "kSuccess", NEW asserts, Assured(asserts), Fails(c, code, asserts)
    PROVE  Outcome
  BY FailedOutcome, Zenon DEF Fails, Stop, Outcome, Ends

------------------------------------------------------------------------------
(* Data processing *)

LEMMA Started == ASSUME Executing PROVE Proper(cpu) /\ Shaped(instr) /\ Flags(cpu.apsr)
  BY FlagsOf DEF Executing, Formed

\* Every template delivers a word and flags.
LEMMA ComputesDelivers ==
    ASSUME Executing, Handled, class \in ComputingClasses, NEW host \in Hosts
    PROVE  Delivers(Computes(host)) /\ Arg("d") \in Registers
<1>1. Proper(cpu) /\ Shaped(instr) /\ Flags(cpu.apsr)
  BY Started
<1>2. CASE class = "UnaryInstr"
  <2>1. Computes(host) = UnaryOp(case.op, cpu.apsr, Read("m"))
    BY <1>2 DEF Computes
  <2>2. QED
    BY <1>1, <1>2, <2>1, UnaryInstrOperands, RegisterWord, UnaryOpDelivers
<1>3. CASE class = "BinaryInstr"
  <2>1. Computes(host) = BinaryOp(case.op, cpu.apsr, Read("n"), Read("m"), host)
    BY <1>3 DEF Computes
  <2>2. QED
    BY <1>1, <1>3, <2>1, BinaryInstrOperands, RegisterWord, BinaryOpDelivers
<1>4. CASE class = "BinaryInstrWithImm"
  <2>1. Computes(host) = BinaryImmOp(case.op, cpu.apsr, Read("n"), Arg("imm32"))
    BY <1>4 DEF Computes
  <2>2. QED
    BY <1>1, <1>4, <2>1, BinaryInstrWithImmOperands, RegisterWord, BinaryImmOpDelivers
<1>5. CASE class = "BinaryInstrWithRotation"
  <2>1. Computes(host) = RotationOp(case.op, Read("m"), Arg("rotation"))
    BY <1>5 DEF Computes
  <2>2. QED
    BY <1>1, <1>5, <2>1, BinaryInstrWithRotationOperands, RegisterWord, RotationOpDelivers
<1>6. CASE class = "BinaryInstrWithShift"
  <2>1. Computes(host) = BinaryShiftOp(case.op, cpu.apsr, Read("m"), Arg("shift_res"), host)
    BY <1>6 DEF Computes
  <2>2. QED
    BY <1>1, <1>6, <2>1, BinaryInstrWithShiftOperands, RegisterWord, BinaryShiftOpDelivers
<1>7. CASE class = "UnaryInstrImm"
  <2>1. Computes(host) = AddToPcImmOp(ReadPC(cpu), HasFlag("kAdd"), Arg("imm32"))
    BY <1>7 DEF Computes
  <2>2. ReadPC(cpu) \in Word /\ HasFlag("kAdd") \in BOOLEAN
    <3>1. cpu.pc + 4 \in Int
      BY <1>1 DEF Proper, CpuStates, Word
    <3>2. QED
      BY <3>1, TruncateIsWord DEF ReadPC, HasFlag
  <2>3. QED
    BY <1>1, <1>7, <2>1, <2>2, UnaryInstrImmOperands, AddToPcDelivers
<1>8. CASE class = "UnaryInstrImmCarry"
  <2>1. Computes(host) = UnaryImmCarryOp(case.op, cpu.apsr, Arg("imm32_carry"))
    BY <1>8 DEF Computes
  <2>2. 0 \in Word
    BY HalfAssumption DEF Word
  <2>3. QED
    BY <1>1, <1>8, <2>1, <2>2, UnaryInstrImmCarryOperands, ImmCarryOpsDeliver
<1>9. CASE class = "BinaryInstrWithImmCarry"
  <2>1. Computes(host) = BinaryImmCarryOp(case.op, cpu.apsr, Read("n"), Arg("imm32_carry"))
    BY <1>9 DEF Computes
  <2>2. QED
    BY <1>1, <1>9, <2>1, BinaryInstrWithImmCarryOperands, RegisterWord, ImmCarryOpsDeliver
<1>10. CASE class = "TernaryInstr"
  <2>1. Computes(host) = TernaryOp(case.op, cpu.apsr, Read("n"), Read("m"), Read("a"))
    BY <1>10 DEF Computes
  <2>2. QED
    BY <1>1, <1>10, <2>1, TernaryInstrOperands, RegisterWord, TernaryOpDelivers
<1>11. CASE class = "TernaryInstrWithShift"
  <2>1. Computes(host) =
          TernaryShiftOp(case.op, cpu.apsr, Read("n"), Read("m"), Arg("shift_res"), host)
    BY <1>11 DEF Computes
  <2>2. QED
    BY <1>1, <1>11, <2>1, TernaryInstrWithShiftOperands, RegisterWord, TernaryShiftOpDelivers
<1>12. QED
  BY <1>2, <1>3, <1>4, <1>5, <1>6, <1>7, <1>8, <1>9, <1>10, <1>11 DEF ComputingClasses

\* None is handed the pc as destination, but by the decoders that let it through.
LEMMA DestinationAssured ==
    ASSUME Executing, Handled, class \in ComputingClasses, ~(class = "UnaryInstr" /\ Arg("d") = kPc)
    PROVE  Assured(Arg("d") # kPc)
<1>1. Shaped(instr) /\ Arg("d") = instr.fields.d
  BY Started DEF Arg
<1>2. class # "UnaryInstr" => "d" \in DOMAIN instr.fields /\ instr.id \notin {"kMovRegister", "kStrex"}
  <2>1. CASE class \in {"BinaryInstr", "BinaryInstrWithImm", "BinaryInstrWithRotation"}
    <3>1. \/ instr.fields \in [d : Registers, n : Registers, m : Registers]
          \/ instr.fields \in [d : Registers, n : Registers, imm32 : Int]
          \/ instr.fields \in [d : Registers, imm32 : Int]
          \/ instr.fields \in [d : Registers, m : Registers, rotation : Nat]
      BY <1>1, <2>1, BinaryInstrOperands, BinaryInstrWithImmOperands, BinaryInstrWithRotationOperands
    <3>2. instr.id \notin {"kMovRegister", "kStrex"}
      BY <1>1, <2>1, BinaryInstrOperands, BinaryInstrWithImmOperands, BinaryInstrWithRotationOperands
    <3>3. QED
      BY <3>1, <3>2
  <2>2. CASE class \in {"BinaryInstrWithShift", "UnaryInstrImm", "UnaryInstrImmCarry"}
    BY <1>1, <2>2, BinaryInstrWithShiftOperands, UnaryInstrImmOperands, UnaryInstrImmCarryOperands
  <2>3. CASE class \in {"BinaryInstrWithImmCarry", "TernaryInstr", "TernaryInstrWithShift"}
    BY <1>1, <2>3, BinaryInstrWithImmCarryOperands, TernaryInstrOperands, TernaryInstrWithShiftOperands
  <2>4. QED
    BY <2>1, <2>2, <2>3 DEF ComputingClasses
<1>3. ASSUME failed = {}, ~Exempt PROVE Arg("d") # kPc
  <2>1. Valid(instr, cpu.istate, Wide)
    BY <1>3 DEF Executing
  <2>2. CASE class = "UnaryInstr"
    BY <2>2
  <2>3. CASE instr.id = "kAddRegister"
    BY <1>1, <1>3, <2>3 DEF Exempt, PcSlipsThrough
  <2>4. CASE class # "UnaryInstr" /\ instr.id # "kAddRegister"
    BY <1>1, <1>2, <2>1, <2>4 DEF Valid, kPc
  <2>5. QED
    BY <2>2, <2>3, <2>4
<1>4. QED
  BY <1>3 DEF Assured

\* Raised exceptions and written registers leave the rest alone.
LEMMA WrittenKeeps ==
    ASSUME NEW c, Keeps(cpu, c), NEW id \in Registers, NEW value \in Word
    PROVE  Keeps(cpu, WriteRegister(c, id, value))
  BY WriteRegisterKeeps, KeepsTrans DEF Keeps

LEMMA KeepsSelf == ASSUME Executing PROVE Keeps(cpu, cpu)
  BY DEF Executing, Keeps

LEMMA WriteResultOutcome ==
    ASSUME Executing, NEW host \in Hosts, WriteResult(host)
    PROVE  Outcome
<1> DEFINE result == Computes(host)
           raised == IF DividesByZero THEN Raise(cpu, "kUsageFault") ELSE cpu
           written == WriteRegister(raised, Arg("d"), result.value)
           c == OptionalSetFlags(written, flags, result)
           asserts == Arg("d") # kPc
<1>1. /\ Handled /\ class \in ComputingClasses /\ ~(class = "UnaryInstr" /\ Arg("d") = kPc)
      /\ class \in Unconditional \/ Passes
      /\ Advances(c, asserts)
  BY DEF WriteResult, Executes
<1>2. Delivers(result) /\ Arg("d") \in Registers
  BY <1>1, ComputesDelivers
<1>3. Assured(asserts)
  BY <1>1, DestinationAssured
<1>4. Keeps(cpu, raised)
  BY RaiseKeeps, KeepsSelf DEF Executing
<1> HIDE DEF result, raised, asserts
<1>5. Keeps(cpu, written)
  BY <1>2, <1>4, WrittenKeeps DEF Delivers
<1> HIDE DEF written
<1>6. /\ "kSetFlags" \in flags => c = SetFlags(written, result)
      /\ "kSetFlags" \notin flags => c = written
  BY DEF OptionalSetFlags
<1> HIDE DEF c
<1>7. Proper(c) /\ c.pc = cpu.pc /\ c.istate = cpu.istate /\ (c.apsr = cpu.apsr \/ SetsFlags)
  <2>1. CASE "kSetFlags" \in flags
    BY <1>1, <1>2, <1>5, <1>6, <2>1, SetFlagsProper DEF Keeps, SetsFlags, HasFlag
  <2>2. CASE "kSetFlags" \notin flags
    BY <1>5, <1>6, <2>2 DEF Keeps
  <2>3. QED
    BY <2>1, <2>2
<1>8. QED
  BY <1>1, <1>3, <1>7, AdvancesOutcome

LEMMA WriteResultToPcOutcome ==
    ASSUME Executing, NEW host \in Hosts, WriteResultToPc(host)
    PROVE  Outcome
<1> DEFINE target == BranchWritePC(cpu, Computes(host).value)
<1>1. /\ Handled /\ class = "UnaryInstr" /\ Arg("d") = kPc
      /\ Done(AdvanceIt(target), TRUE)
  BY DEF WriteResultToPc, Executes
<1>2. Computes(host).value \in Int
  BY <1>1, ComputesDelivers, WordsAreInts DEF ComputingClasses, Delivers
<1>3. Proper(target) /\ target.apsr = cpu.apsr /\ target.istate = cpu.istate
  <2>1. Proper(target)
    BY <1>2, BranchWritePCProper DEF Executing
  <2>2. QED
    BY <2>1, Started, BranchKeeps
<1> HIDE DEF target
<1>4. /\ Proper(AdvanceIt(target)) /\ AdvanceIt(target).apsr = cpu.apsr
      /\ Resumed(AdvanceIt(target).istate)
  BY <1>3, AdvanceItProper DEF Resumed
<1>5. QED
  BY <1>1, <1>4, JumpsOutcome DEF Redirects, Assured

LEMMA HostDivisionTrapsOutcome ==
    ASSUME Executing, HostDivisionTraps
    PROVE  Outcome
  BY Started, FailsOutcome DEF HostDivisionTraps, Assured

LEMMA ComparesDelivers ==
    ASSUME Executing, Handled, class \in ComparingClasses, NEW host \in Hosts
    PROVE  Delivers(Compares(host))
<1>1. Proper(cpu) /\ Shaped(instr) /\ Flags(cpu.apsr)
  BY Started
<1>2. CASE class = "BinaryNullInstrWithImm"
  <2>1. Compares(host) = BinaryNullImmOp(case.op, Read("n"), Arg("imm32"))
    BY <1>2 DEF Compares
  <2>2. QED
    BY <1>1, <1>2, <2>1, BinaryNullInstrWithImmOperands, RegisterWord, BinaryNullImmOpDelivers
<1>3. CASE class = "BinaryNullInstrWithImmCarry"
  <2>1. Compares(host) = BinaryNullImmCarryOp(case.op, cpu.apsr, Read("n"), Arg("imm32_carry"))
    BY <1>3 DEF Compares
  <2>2. QED
    BY <1>1, <1>3, <2>1, BinaryNullInstrWithImmCarryOperands, RegisterWord, ImmCarryOpsDeliver
<1>4. CASE class = "TernaryNullInstrWithShift"
  <2>1. Compares(host) =
          TernaryNullShiftOp(case.op, cpu.apsr, Read("n"), Read("m"), Arg("shift_res"), host)
    BY <1>4 DEF Compares
  <2>2. QED
    BY <1>1, <1>4, <2>1, TernaryNullInstrWithShiftOperands, RegisterWord, TernaryNullShiftOpDelivers
<1>5. QED
  BY <1>2, <1>3, <1>4 DEF ComparingClasses

LEMMA CompareOutcome ==
    ASSUME Executing, NEW host \in Hosts, Compare(host)
    PROVE  Outcome
<1>1. /\ Handled /\ class \in ComparingClasses /\ (class \in Unconditional \/ Passes)
      /\ Advances(SetFlags(cpu, Compares(host)), TRUE)
  BY DEF Compare, Executes
<1>2. Delivers(Compares(host))
  BY <1>1, ComparesDelivers
<1> DEFINE c == SetFlags(cpu, Compares(host))
<1>3. Proper(c) /\ c.pc = cpu.pc /\ c.istate = cpu.istate
  BY <1>2, Started, SetFlagsProper
<1> HIDE DEF c
<1>4. QED
  BY <1>1, <1>3, AdvancesOutcome DEF c, Assured, SetsFlags

LEMMA MultiplyLongOutcome ==
    ASSUME Executing, MultiplyLong
    PROVE  Outcome
<1> DEFINE result == LongOp(case.op, Read("n"), Read("m"), Read("dLo"))
           low == WriteRegister(cpu, Arg("dLo"), result.lo)
           c == WriteRegister(low, Arg("dHi"), result.hi)
           asserts == kPc \notin {Arg("dLo"), Arg("dHi")}
<1>1. Handled /\ class = "Binary64bitInstr" /\ Advances(c, asserts) /\ Shaped(instr)
  BY Started DEF MultiplyLong, Executes
<1>2. result.lo \in Word /\ result.hi \in Word
  BY <1>1, Started, Binary64bitInstrOperands, RegisterWord, LongOpDelivers
<1>3. Assured(asserts)
  BY <1>1, Binary64bitInstrOperands
     DEF Executing, Exempt, PcSlipsThrough, Assured, Valid, Arg, kPc
<1> HIDE DEF result, asserts
<1>4. Keeps(cpu, low)
  BY <1>1, <1>2, KeepsSelf, WrittenKeeps, Binary64bitInstrOperands
<1> HIDE DEF low
<1>5. Keeps(cpu, c)
  BY <1>1, <1>2, <1>4, WrittenKeeps, Binary64bitInstrOperands
<1> HIDE DEF c
<1>6. QED
  BY <1>1, <1>3, <1>5, AdvancesOutcome DEF Keeps

LEMMA InsertBitFieldOutcome ==
    ASSUME Executing, NEW host \in Hosts, InsertBitField(host)
    PROVE  Outcome
<1> DEFINE result == BfiOp(Read("n"), Read("d"), Arg("lsbit"), Arg("msbit"), host)
           c == WriteRegister(cpu, Arg("d"), result)
           asserts == Arg("d") # kPc
<1>1. Handled /\ class = "Bfi" /\ Advances(c, asserts) /\ Shaped(instr)
  BY Started DEF InsertBitField, Executes
<1>2. result \in Word
  BY <1>1, BfiOperands, BitFieldsDeliver
<1>3. Assured(asserts)
  BY <1>1, BfiOperands DEF Executing, Assured, Valid, Arg, kPc
<1> HIDE DEF result, asserts
<1>4. Keeps(cpu, c)
  BY <1>1, <1>2, KeepsSelf, WrittenKeeps, BfiOperands
<1> HIDE DEF c
<1>5. QED
  BY <1>1, <1>3, <1>4, AdvancesOutcome DEF Keeps

LEMMA ExtractBitFieldOutcome ==
    ASSUME Executing, NEW host \in Hosts, ExtractBitField(host)
    PROVE  Outcome
<1> DEFINE result == UbfxOp(Read("n"), Arg("lsbit"), UbfxMsbit, host)
           c == WriteRegister(cpu, Arg("d"), result)
           asserts == Arg("d") # kPc
<1>1. Handled /\ class = "Ubfx" /\ Advances(c, asserts) /\ Shaped(instr)
  BY Started DEF ExtractBitField, Executes
<1>2. result \in Word
  BY <1>1, UbfxOperands, BitFieldsDeliver
<1>3. Assured(asserts)
  BY <1>1, UbfxOperands DEF Executing, Assured, Valid, Arg, kPc
<1> HIDE DEF result, asserts
<1>4. Keeps(cpu, c)
  BY <1>1, <1>2, KeepsSelf, WrittenKeeps, UbfxOperands
<1> HIDE DEF c
<1>5. QED
  BY <1>1, <1>3, <1>4, AdvancesOutcome DEF Keeps

LEMMA BitFieldFailsOutcome ==
    ASSUME Executing, BitFieldFails
    PROVE  Outcome
  BY Started, FailsOutcome DEF BitFieldFails, Assured

LEMMA ExecuteDataOutcome ==
    ASSUME Executing, ExecuteData
    PROVE  Outcome
  BY WriteResultOutcome, WriteResultToPcOutcome, CompareOutcome, InsertBitFieldOutcome,
     ExtractBitFieldOutcome, HostDivisionTrapsOutcome, MultiplyLongOutcome, BitFieldFailsOutcome
     DEF ExecuteData

\* An instruction whose condition is unknown or false, or that has no case.
LEMMA ConditionOutcome ==
    ASSUME Executing, ConditionUnknown \/ ConditionFails \/ Unhandled
    PROVE  Outcome
<1>1. CASE ConditionUnknown
  BY <1>1, Started, FailsOutcome DEF ConditionUnknown, Assured
<1>2. CASE ConditionFails
  BY <1>2, Started, AdvancesOutcome DEF ConditionFails, Assured
<1>3. CASE Unhandled
  BY <1>3, Started, JumpsOutcome DEF Unhandled, Assured, Redirects, Resumed
<1>4. QED
  BY <1>1, <1>2, <1>3

------------------------------------------------------------------------------
(* Loads and stores *)

StoreClasses == {"BinaryStoreInstrWithImm", "TernaryStoreInstrWithShift", "TernaryStoreInstrWithImm"}
BasedClasses == (LoadClasses \ {"UnaryLoadInstrImm"}) \cup StoreClasses \cup {"Ldrd", "Strd"}

\* The offset of an access is a number, its base a register other than the pc where it
\* is written back.
LEMMA BaseOperands ==
    ASSUME Executing, Handled, class \in BasedClasses
    PROVE  /\ Arg("n") \in Registers /\ Arg("n") = instr.fields.n /\ "n" \in DOMAIN instr.fields
           /\ instr.id \notin {"kPush", "kPop", "kMsr", "kMrs", "kAddRegister"}
           /\ \/ "shift_res" \in DOMAIN instr.fields /\ Arg("shift_res") \in Shifts /\ Arg("m") \in Registers
              \/ "shift_res" \notin DOMAIN instr.fields /\ Arg("imm32") \in Int
<1>1. Shaped(instr)
  BY Started
<1>2. CASE class \in {"BinaryLoadInstrWithImm", "BinaryStoreInstrWithImm"}
  <2>1. Arg("n") \in Registers /\ instr.fields \in [t : Registers, n : Registers, imm32 : Int]
    BY <1>1, <1>2, BinaryLoadInstrWithImmOperands, BinaryStoreInstrWithImmOperands
  <2>2. /\ instr.id \notin {"kPush", "kPop", "kMsr", "kMrs", "kAddRegister"}
        /\ Arg("imm32") \in Int /\ case.base = "n"
    BY <1>1, <1>2, BinaryLoadInstrWithImmOperands, BinaryStoreInstrWithImmOperands, CaseFits DEF Fits
  <2>3. QED
    BY <2>1, <2>2 DEF Arg
<1>3. CASE class \in {"TernaryLoadInstrWithShift", "TernaryStoreInstrWithShift"}
  <2>1. /\ Arg("n") \in Registers
        /\ instr.fields \in [t : Registers, n : Registers, m : Registers, shift_res : Shifts]
    BY <1>1, <1>3, TernaryLoadInstrWithShiftOperands, TernaryStoreInstrWithShiftOperands
  <2>2. /\ instr.id \notin {"kPush", "kPop", "kMsr", "kMrs", "kAddRegister"}
        /\ Arg("shift_res") \in Shifts /\ Arg("m") \in Registers /\ case.base = "n"
    BY <1>1, <1>3, TernaryLoadInstrWithShiftOperands, TernaryStoreInstrWithShiftOperands, CaseFits DEF Fits
  <2>3. QED
    BY <2>1, <2>2 DEF Arg
<1>4. CASE class \in {"Ldrd", "Strd"}
  <2>1. /\ Arg("n") \in Registers
        /\ instr.fields \in [t : Registers, t2 : Registers, n : Registers, imm32 : Int]
    BY <1>1, <1>4, LdrdOperands, StrdOperands
  <2>2. /\ instr.id \notin {"kPush", "kPop", "kMsr", "kMrs", "kAddRegister"}
        /\ Arg("imm32") \in Int /\ case.base = "n"
    BY <1>1, <1>4, LdrdOperands, StrdOperands, CaseFits DEF Fits
  <2>3. QED
    BY <2>1, <2>2 DEF Arg
<1>5. CASE class = "TernaryStoreInstrWithImm"
  <2>1. /\ Arg("n") \in Registers
        /\ instr.fields \in [t : Registers, n : Registers, d : Registers, imm32 : Int]
    BY <1>1, <1>5, TernaryStoreInstrWithImmOperands
  <2>2. /\ instr.id \notin {"kPush", "kPop", "kMsr", "kMrs", "kAddRegister"}
        /\ Arg("imm32") \in Int /\ case.base = "n"
    BY <1>1, <1>5, TernaryStoreInstrWithImmOperands, CaseFits DEF Fits
  <2>3. QED
    BY <2>1, <2>2 DEF Arg
<1>6. QED
  BY <1>2, <1>3, <1>4, <1>5 DEF BasedClasses, LoadClasses, StoreClasses

LEMMA OffsetIsInt ==
    ASSUME Executing, Handled, class \in BasedClasses \cup {"UnaryLoadInstrImm"}, NEW host
    PROVE  Offset(host) \in Int
<1>1. CASE class = "UnaryLoadInstrImm"
  <2>1. instr.fields \in [t : Registers, imm32 : Int] /\ Arg("imm32") \in Int
    BY <1>1, Started, UnaryLoadInstrImmOperands
  <2>2. QED
    BY <2>1 DEF Offset
<1>2. CASE class \in BasedClasses
  <2>1. CASE "shift_res" \notin DOMAIN instr.fields
    BY <1>2, <2>1, BaseOperands DEF Offset
  <2>2. CASE "shift_res" \in DOMAIN instr.fields
    <3>1. Arg("shift_res") \in Shifts /\ Read("m") \in Word
      BY <1>2, <2>2, BaseOperands, RegisterWord, Started
    <3>2. ShiftDelivers(Shifted(cpu.apsr, Read("m"), Arg("shift_res"), host))
      BY <3>1, Started, ShiftedDelivers, WordsAreInts
    <3>3. QED
      BY <2>2, <3>2 DEF Offset, ShiftDelivers
  <2>3. QED
    BY <2>1, <2>2
<1>3. QED
  BY <1>1, <1>2

LEMMA DisplacedIsWord ==
    ASSUME Executing, Handled, class \in BasedClasses, NEW host
    PROVE  Read("n") \in Word /\ Displaced(Read("n"), host) \in Word
<1>1. Read("n") \in Word
  BY BaseOperands, RegisterWord, Started
<1>2. Offset(host) \in Int /\ Read("n") \in Int
  BY <1>1, OffsetIsInt, WordsAreInts
<1>3. (IF HasFlag("kAdd") THEN Read("n") + Offset(host) ELSE Read("n") - Offset(host)) \in Int
  BY <1>2
<1>4. QED
  BY <1>1, <1>3, TruncateIsWord DEF Displaced

LEMMA AccessedKeeps ==
    ASSUME Executing, NEW refused
    PROVE  Keeps(cpu, Accessed(refused))
  BY RaiseKeeps, KeepsSelf, Started DEF Accessed

LEMMA WriteBackKeeps ==
    ASSUME Executing, Handled, class \in BasedClasses, NEW host, NEW c, Keeps(cpu, c)
    PROVE  Keeps(cpu, WriteBack(c, host))
<1>1. Arg("n") \in Registers /\ Displaced(Read("n"), host) \in Word
  BY BaseOperands, DisplacedIsWord
<1>2. Keeps(cpu, WriteRegister(c, Arg("n"), Displaced(Read("n"), host)))
  BY <1>1, WrittenKeeps
<1>3. QED
  BY <1>2 DEF WriteBack

LEMMA WriteBackAssured ==
    ASSUME Executing, Handled, class \in BasedClasses
    PROVE  Assured(WriteBackHolds)
<1>1. /\ Arg("n") = instr.fields.n /\ "n" \in DOMAIN instr.fields
      /\ instr.id \notin {"kPush", "kPop"}
  BY BaseOperands
<1>2. HasFlag("kWBack") => "kWBack" \in instr.flags
  BY <1>1 DEF HasFlag, flags, CallFlags
<1>3. QED
  BY <1>1, <1>2 DEF Executing, Assured, WriteBackHolds, Valid, kPc

LEMMA LoadOperands ==
    ASSUME Executing, Handled, class \in LoadClasses
    PROVE  /\ Arg("t") \in Registers
           /\ case.op \in {"LoadMemU8", "LoadMemI8", "LoadMemU16", "LoadMemI16", "LoadMemU32", "LoadMemExU32"}
           /\ class # "UnaryLoadInstrImm" => class \in BasedClasses
  BY Started, UnaryLoadInstrImmOperands, BinaryLoadInstrWithImmOperands, TernaryLoadInstrWithShiftOperands
     DEF LoadClasses, BasedClasses

LEMMA DataIsWord ==
    ASSUME NEW word \in Loaded, NEW refused,
           case.op \in {"LoadMemU8", "LoadMemI8", "LoadMemU16", "LoadMemI16", "LoadMemU32", "LoadMemExU32"}
    PROVE  Data(refused, word) \in Word
<1>1. word \in Int
  BY LoadedAssumption, WordsAreInts
<1>2. /\ SignExtend(word % 256, 7) \in Int /\ SignExtend(word % 65536, 15) \in Int
      /\ word % 256 \in Int /\ word % 65536 \in Int
  BY <1>1, ExtendsSign
<1>3. LoadMem(case.op, word) \in Word
  <2> DEFINE byte == word % 256
             halfword == word % 65536
             value == CASE case.op = "LoadMemU8" -> byte
                        [] case.op = "LoadMemI8" -> SignExtend(byte, 7)
                        [] case.op = "LoadMemU16" -> halfword
                        [] case.op = "LoadMemI16" -> SignExtend(halfword, 15)
                        [] case.op \in {"LoadMemU32", "LoadMemExU32"} -> word
  <2>1. LoadMem(case.op, word) = Truncate(value)
    BY DEF LoadMem
  <2> HIDE DEF byte, halfword
  <2>2. value \in Int
    BY <1>1, <1>2 DEF byte, halfword
  <2>3. QED
    BY <2>1, <2>2, TruncateIsWord
<1>4. 0 \in Word
  BY HalfAssumption DEF Word
<1>5. QED
  BY <1>3, <1>4 DEF Data

LEMMA LoadBasedKeeps ==
    ASSUME Executing, Handled, class \in LoadClasses, NEW refused, NEW host
    PROVE  Keeps(cpu, LoadBased(refused, host)) /\ Assured(LoadHolds)
<1>1. Keeps(cpu, LoadBased(refused, host))
  BY LoadOperands, AccessedKeeps, WriteBackKeeps DEF LoadBased
<1>2. Assured(LoadHolds)
  BY LoadOperands, WriteBackAssured DEF Assured, LoadHolds
<1>3. QED
  BY <1>1, <1>2

LEMMA LoadRegisterOutcome ==
    ASSUME Executing, NEW host, NEW refused, NEW word \in Loaded, LoadRegister(host, refused, word)
    PROVE  Outcome
<1> DEFINE based == LoadBased(refused, host)
           c == WriteRegister(based, Arg("t"), Data(refused, word))
<1>1. Handled /\ class \in LoadClasses /\ Advances(c, LoadHolds)
  BY DEF LoadRegister, Executes
<1>2. Keeps(cpu, based) /\ Assured(LoadHolds)
  BY <1>1, LoadBasedKeeps
<1>3. Arg("t") \in Registers /\ Data(refused, word) \in Word
  BY <1>1, LoadOperands, DataIsWord
<1> HIDE DEF based
<1>4. Keeps(cpu, c)
  BY <1>2, <1>3, WrittenKeeps
<1> HIDE DEF c
<1>5. QED
  BY <1>1, <1>2, <1>4, AdvancesOutcome DEF Keeps

LEMMA LoadPcOutcome ==
    ASSUME Executing, NEW host, NEW refused, NEW word \in Loaded, LoadPc(host, refused, word)
    PROVE  Outcome
<1> DEFINE based == LoadBased(refused, host)
           target == BXWritePC(based, Data(refused, word))
<1>1. Handled /\ class \in LoadClasses /\ Arg("t") = kPc /\ Done(AdvanceIt(target), LoadHolds)
  BY DEF LoadPc, Executes
<1>2. Keeps(cpu, based) /\ Assured(LoadHolds)
  BY <1>1, LoadBasedKeeps
<1>3. Data(refused, word) \in Int
  BY <1>1, LoadOperands, DataIsWord, WordsAreInts
<1> HIDE DEF based
<1>4. Proper(target) /\ target.apsr = cpu.apsr /\ target.istate = cpu.istate
  BY <1>2, <1>3, BranchWritePCProper, BranchKeeps DEF Keeps
<1> HIDE DEF target
<1>5. /\ Proper(AdvanceIt(target)) /\ AdvanceIt(target).apsr = cpu.apsr
      /\ Resumed(AdvanceIt(target).istate)
  BY <1>4, AdvanceItProper DEF Resumed
<1>6. QED
  BY <1>1, <1>2, <1>5, JumpsOutcome DEF Redirects

LEMMA LoadPcUnalignedOutcome ==
    ASSUME Executing, NEW host, NEW refused, LoadPcUnaligned(host, refused)
    PROVE  Outcome
<1>1. /\ Handled /\ class \in LoadClasses
      /\ Fails(LoadBased(refused, host), "kExecutorUnpredictable", LoadHolds)
  BY DEF LoadPcUnaligned, Executes
<1>2. Keeps(cpu, LoadBased(refused, host)) /\ Assured(LoadHolds)
  BY <1>1, LoadBasedKeeps
<1>3. QED
  BY <1>1, <1>2, FailsOutcome DEF Keeps

LEMMA LoadDoubleOutcome ==
    ASSUME Executing, NEW refused, NEW word \in Loaded, LoadDouble(refused, word)
    PROVE  Outcome
<1> DEFINE data == IF refused THEN 0 ELSE word
           based == WriteBack(Accessed(refused), "masks")
           first == WriteRegister(based, Arg("t"), data)
           c == WriteRegister(first, Arg("t2"), data)
           asserts == WriteBackHolds /\ kPc \notin {Arg("t"), Arg("t2")}
<1>1. Handled /\ class = "Ldrd" /\ class \in BasedClasses /\ Advances(c, asserts) /\ Shaped(instr)
  BY Started DEF LoadDouble, Executes, BasedClasses
<1>2. data \in Word
  BY LoadedAssumption, HalfAssumption DEF Word
<1>3. Arg("t") \in Registers /\ Arg("t2") \in Registers /\ instr.id = "kLdrdImmediate"
  BY <1>1, LdrdOperands
<1>4. Assured(asserts)
  <2>1. Assured(kPc \notin {Arg("t"), Arg("t2")})
    BY <1>3 DEF Executing, Assured, Valid, Arg, kPc
  <2>2. QED
    BY <1>1, <2>1, WriteBackAssured DEF Assured
<1>5. Keeps(cpu, based)
  BY <1>1, AccessedKeeps, WriteBackKeeps
<1> HIDE DEF data, based, asserts
<1>6. Keeps(cpu, first)
  BY <1>2, <1>3, <1>5, WrittenKeeps
<1> HIDE DEF first
<1>7. Keeps(cpu, c)
  BY <1>2, <1>3, <1>6, WrittenKeeps
<1> HIDE DEF c
<1>8. QED
  BY <1>1, <1>4, <1>7, AdvancesOutcome DEF Keeps

LEMMA StoreRegisterOutcome ==
    ASSUME Executing, NEW host, NEW refused, StoreRegister(host, refused)
    PROVE  Outcome
<1> DEFINE c == WriteBack(Accessed(refused), host)
           adds == class = "TernaryStoreInstrWithShift" => HasFlag("kAdd")
<1>1. /\ Handled /\ class \in {"BinaryStoreInstrWithImm", "TernaryStoreInstrWithShift"}
      /\ class \in BasedClasses /\ Advances(c, WriteBackHolds /\ adds) /\ Shaped(instr)
  BY Started DEF StoreRegister, Executes, BasedClasses, StoreClasses
<1>2. Assured(adds)
  BY <1>1, TernaryStoreInstrWithShiftOperands
     DEF Executing, Assured, Valid, HasFlag, flags, CallFlags
<1>3. Assured(WriteBackHolds)
  BY <1>1, WriteBackAssured
<1>4. Keeps(cpu, c)
  BY <1>1, AccessedKeeps, WriteBackKeeps
<1> HIDE DEF c, adds
<1>5. Assured(WriteBackHolds /\ adds)
  BY <1>2, <1>3 DEF Assured
<1>6. QED
  BY <1>1, <1>4, <1>5, AdvancesOutcome DEF Keeps

LEMMA StoreExclusiveOutcome ==
    ASSUME Executing, NEW refused, StoreExclusive(refused)
    PROVE  Outcome
<1> DEFINE success == WriteRegister(Accessed(refused), Arg("d"), 0)
           c == WriteBack(success, "masks")
           asserts == WriteBackHolds /\ Arg("d") # kPc
<1>1. /\ Handled /\ class = "TernaryStoreInstrWithImm" /\ class \in BasedClasses
      /\ Advances(c, asserts) /\ Shaped(instr)
  BY Started DEF StoreExclusive, Executes, BasedClasses, StoreClasses
<1>2. Arg("d") \in Registers /\ Exempt /\ 0 \in Word
  BY <1>1, TernaryStoreInstrWithImmOperands, HalfAssumption DEF Exempt, PcSlipsThrough, Word
<1>3. Keeps(cpu, success)
  BY <1>2, AccessedKeeps, WrittenKeeps
<1> HIDE DEF success, asserts
<1>4. Keeps(cpu, c)
  BY <1>1, <1>3, WriteBackKeeps
<1> HIDE DEF c
<1>5. QED
  BY <1>1, <1>2, <1>4, AdvancesOutcome DEF Keeps, Assured

LEMMA StoreDoubleOutcome ==
    ASSUME Executing, NEW refused, StoreDouble(refused)
    PROVE  Outcome
<1> DEFINE c == WriteBack(Accessed(refused), "masks")
<1>1. Handled /\ class = "Strd" /\ class \in BasedClasses /\ Advances(c, WriteBackHolds)
  BY DEF StoreDouble, Executes, BasedClasses
<1>2. Assured(WriteBackHolds) /\ Keeps(cpu, c)
  BY <1>1, WriteBackAssured, AccessedKeeps, WriteBackKeeps
<1> HIDE DEF c
<1>3. QED
  BY <1>1, <1>2, AdvancesOutcome DEF Keeps

(* Lists of registers *)

ListClasses == {"VariadicLoadInstr", "VariadicStoreInstr", "VariadicStoreInstrDb"}

LEMMA ListOperands ==
    ASSUME Executing, Handled, class \in ListClasses
    PROVE  /\ Arg("n") \in Registers /\ Read("n") \in Word
           /\ List \in SUBSET Registers /\ Cardinality(List) \in Nat
           /\ Assured(WriteBackHolds)
           /\ class = "VariadicLoadInstr" => Assured(Arg("n") # kPc)
<1>1. Shaped(instr)
  BY Started
<1>2. Arg("n") \in Registers
  BY <1>1, VariadicLoadInstrOperands, VariadicStoreInstrOperands, VariadicStoreInstrDbOperands
     DEF ListClasses
<1>3. Read("n") \in Word
  BY <1>2, Started, RegisterWord
<1>4. List \in SUBSET Registers
  BY DEF List, BitsOf, Registers
<1>5. Cardinality(List) \in Nat
  <2>1. IsFiniteSet(Registers)
    <3>1. 0 \in Int /\ 15 \in Int
      OBVIOUS
    <3>2. IsFiniteSet(0 .. 15)
      BY <3>1, FS_Interval, Zenon
    <3>3. QED
      BY <3>2 DEF Registers
  <2>2. IsFiniteSet(List)
    BY <1>4, <2>1, FS_Subset
  <2>3. QED
    BY <2>2, FS_CardinalityType
<1>6. \/ Arg("n") = kSp
      \/ /\ instr.id \in {"kLdm", "kStm"} /\ "n" \in DOMAIN instr.fields /\ Arg("n") = instr.fields.n
         /\ class = "VariadicLoadInstr" => instr.id = "kLdm"
  <2>1. CASE class = "VariadicLoadInstr"
    BY <1>1, <2>1, VariadicLoadInstrOperands
  <2>2. CASE class = "VariadicStoreInstr"
    <3>1. instr.id = "kStm" /\ instr.fields \in [n : Registers, registers : Nat] /\ case.base = "n"
      BY <1>1, <2>2, VariadicStoreInstrOperands, CaseFits DEF Fits
    <3>2. QED
      BY <2>2, <3>1 DEF Arg
  <2>3. CASE class = "VariadicStoreInstrDb"
    BY <1>1, <2>3, VariadicStoreInstrDbOperands
  <2>4. QED
    BY <2>1, <2>2, <2>3 DEF ListClasses
<1>7. CASE Arg("n") = kSp
  <2>1. Arg("n") # kPc
    BY <1>7 DEF kSp, kPc
  <2>2. QED
    BY <1>2, <1>3, <1>4, <1>5, <2>1 DEF Assured, WriteBackHolds
<1>8. CASE Arg("n") # kSp
  <2>1. HasFlag("kWBack") => "kWBack" \in instr.flags
    BY <1>6, <1>8 DEF HasFlag, flags, CallFlags
  <2>2. ASSUME failed = {}
        PROVE  WriteBackHolds /\ (class = "VariadicLoadInstr" => Arg("n") # kPc)
    <3>1. Valid(instr, cpu.istate, Wide)
      BY <2>2 DEF Executing
    <3>2. QED
      BY <1>6, <1>8, <2>1, <3>1 DEF Valid, WriteBackHolds, kPc
  <2>3. QED
    BY <1>2, <1>3, <1>4, <1>5, <2>2 DEF Assured
<1>9. QED
  BY <1>7, <1>8

LEMMA ListWriteBackKeeps ==
    ASSUME NEW c, Proper(c), NEW base \in Int, Arg("n") \in Registers
    PROVE  Keeps(c, ListWriteBack(c, base))
<1>1. Truncate(base) \in Word
  BY TruncateIsWord
<1>2. Keeps(c, WriteRegister(c, Arg("n"), Truncate(base)))
  BY <1>1, WriteRegisterKeeps
<1>3. QED
  BY <1>2 DEF ListWriteBack, Keeps

LEMMA LoadListKeeps ==
    ASSUME Executing, NEW c, Keeps(cpu, c), NEW value \in [0 .. 15 -> Word]
    PROVE  Keeps(cpu, LoadList(c, value))
<1> DEFINE r == [id \in GeneralRegisters |-> IF id \in List THEN value[id] ELSE c.r[id]]
           general == [c EXCEPT !.r = r]
<1>1. r \in [GeneralRegisters -> Word]
  BY DEF Keeps, Proper, CpuStates, GeneralRegisters
<1>2. LoadList(c, value) = IF kSp \in List THEN WriteRegister(general, kSp, value[kSp]) ELSE general
  BY DEF LoadList
<1> HIDE DEF r
<1>3. Keeps(c, general)
  BY <1>1 DEF Keeps, Proper, CpuStates
<1> HIDE DEF general
<1>4. Keeps(cpu, general)
  BY <1>3, KeepsTrans
<1>5. kSp \in Registers /\ value[kSp] \in Word
  BY DEF Registers, kSp
<1>6. Keeps(cpu, WriteRegister(general, kSp, value[kSp]))
  BY <1>4, <1>5, WrittenKeeps
<1>7. QED
  BY <1>2, <1>4, <1>6

LEMMA StoreMultiplesOutcome ==
    ASSUME Executing, NEW refusedFrom,
           StoreMultiple(refusedFrom) \/ StoreMultipleDb(refusedFrom) \/ StoreMultipleRefusesBase
    PROVE  Outcome
<1>1. ASSUME NEW base \in Int, Handled, class \in ListClasses,
             Advances(ListWriteBack(ListAccessed(refusedFrom), base), WriteBackHolds)
      PROVE  Outcome
  <2> DEFINE accessed == ListAccessed(refusedFrom)
             c == ListWriteBack(accessed, base)
  <2>1. Keeps(cpu, accessed)
    BY AccessedKeeps DEF ListAccessed
  <2>2. Arg("n") \in Registers /\ Assured(WriteBackHolds)
    BY <1>1, ListOperands
  <2> HIDE DEF accessed
  <2>3. Keeps(cpu, c)
    BY <2>1, <2>2, ListWriteBackKeeps, KeepsTrans DEF Keeps
  <2> HIDE DEF c
  <2>4. Advances(c, WriteBackHolds)
    BY <1>1 DEF c, accessed
  <2>5. QED
    BY <2>2, <2>3, <2>4, AdvancesOutcome DEF Keeps
<1>2. CASE StoreMultiple(refusedFrom)
  <2>1. Handled /\ class \in ListClasses
    BY <1>2 DEF StoreMultiple, Executes, ListClasses
  <2>2. Read("n") + 4 * Cardinality(List) \in Int
    BY <2>1, ListOperands, WordsAreInts
  <2>3. QED
    BY <1>1, <1>2, <2>1, <2>2 DEF StoreMultiple
<1>3. CASE StoreMultipleDb(refusedFrom)
  <2>1. Handled /\ class \in ListClasses
    BY <1>3 DEF StoreMultipleDb, Executes, ListClasses
  <2>2. Read("n") - 4 * Cardinality(List) \in Int
    BY <2>1, ListOperands, WordsAreInts
  <2>3. QED
    BY <1>1, <1>3, <2>1, <2>2 DEF StoreMultipleDb
<1>4. CASE StoreMultipleRefusesBase
  BY <1>4, Started, FailsOutcome DEF StoreMultipleRefusesBase, Assured
<1>5. QED
  BY <1>2, <1>3, <1>4

LEMMA LoadMultipleOutcome ==
    ASSUME Executing, NEW refusedFrom \in 0 .. 16, NEW word \in Loaded, LoadMultiple(refusedFrom, word)
    PROVE  Outcome
<1> DEFINE value == [id \in 0 .. 15 |-> IF id >= refusedFrom THEN 0 ELSE word]
           loaded == LoadList(ListAccessed(refusedFrom), value)
           target == BXWritePC(loaded, value[kPc])
           moved == IF kPc \in List THEN AdvanceIt(target) ELSE AdvancePcAndIt(loaded, flags)
           base == Read("n") + 4 * Cardinality(List)
           c == IF Arg("n") \in List THEN moved ELSE ListWriteBack(moved, base)
           asserts == Arg("n") # kPc
<1>1. Handled /\ class = "VariadicLoadInstr" /\ class \in ListClasses /\ Done(c, asserts)
  BY DEF LoadMultiple, Executes, ListClasses
<1>2. Arg("n") \in Registers /\ Assured(asserts) /\ base \in Int
  BY <1>1, ListOperands, WordsAreInts
<1>3. value \in [0 .. 15 -> Word] /\ value[kPc] \in Word
  BY LoadedAssumption, HalfAssumption DEF Word, kPc
<1> HIDE DEF value
<1>4. Keeps(cpu, loaded)
  <2>1. Keeps(cpu, ListAccessed(refusedFrom))
    BY AccessedKeeps, Zenon DEF ListAccessed
  <2>2. QED
    BY <1>3, <2>1, LoadListKeeps, Zenon
<1>5. value[kPc] \in Int
  BY <1>3, WordsAreInts
<1> HIDE DEF loaded, base, asserts
<1>6. Proper(target) /\ target.apsr = cpu.apsr /\ target.istate = cpu.istate
  <2>1. Proper(loaded) /\ loaded.apsr = cpu.apsr /\ loaded.istate = cpu.istate
    BY <1>4, Zenon DEF Keeps
  <2>2. Proper(target)
    BY <1>5, <2>1, BranchWritePCProper, Zenon
  <2>3. target.apsr = loaded.apsr /\ target.istate = loaded.istate
    BY <1>5, <2>1, BranchKeeps, Zenon
  <2>4. QED
    BY <2>1, <2>2, <2>3, Zenon
<1> HIDE DEF target
<1>7. /\ Proper(moved) /\ moved.apsr = cpu.apsr /\ moved.istate = ITAdvance(cpu.istate)
      /\ kPc \notin List => moved.pc = AdvanceInstr(cpu, flags).pc
  <2>1. CASE kPc \in List
    BY <1>6, <2>1, AdvanceItProper
  <2>2. CASE kPc \notin List
    <3>1. /\ Proper(AdvancePcAndIt(loaded, flags))
          /\ AdvancePcAndIt(loaded, flags).apsr = cpu.apsr
          /\ AdvancePcAndIt(loaded, flags).istate = ITAdvance(cpu.istate)
          /\ AdvancePcAndIt(loaded, flags).pc = Truncate(cpu.pc + IF "k32Bit" \in flags THEN 4 ELSE 2)
      BY <1>4, AdvanceProper DEF Keeps
    <3>2. AdvanceInstr(cpu, flags).pc = Truncate(cpu.pc + IF "k32Bit" \in flags THEN 4 ELSE 2)
      BY Started, AdvanceProper
    <3>3. QED
      BY <2>2, <3>1, <3>2
  <2>3. QED
    BY <2>1, <2>2
<1> HIDE DEF moved
<1>8. Keeps(moved, c)
  <2>1. Keeps(moved, moved)
    BY <1>7 DEF Keeps
  <2>2. QED
    BY <1>2, <1>7, <2>1, ListWriteBackKeeps
<1> HIDE DEF c
<1>9. /\ Proper(c) /\ c.apsr = cpu.apsr /\ c.istate = ITAdvance(cpu.istate)
      /\ (kPc \notin List => c.pc = AdvanceInstr(cpu, flags).pc)
  BY <1>7, <1>8 DEF Keeps
<1>10. CASE kPc \in List
  BY <1>1, <1>2, <1>9, <1>10, JumpsOutcome DEF Redirects, Resumed
<1>11. CASE kPc \notin List
  BY <1>1, <1>2, <1>9, <1>11, FailedOutcome, Zenon DEF Done, Outcome, Falls, GoesOn
<1>12. QED
  BY <1>10, <1>11

LEMMA ExecuteMemoryOutcome ==
    ASSUME Executing, ExecuteMemory
    PROVE  Outcome
  BY LoadRegisterOutcome, LoadPcOutcome, LoadPcUnalignedOutcome, StoreRegisterOutcome,
     LoadDoubleOutcome, StoreExclusiveOutcome, StoreDoubleOutcome, LoadMultipleOutcome,
     StoreMultiplesOutcome DEF ExecuteMemory

------------------------------------------------------------------------------
(* Branches and special instructions *)

\* The pc that is read is a word, and so is the link.
LEMMA LinkedKeeps ==
    ASSUME Executing
    PROVE  /\ ReadPC(cpu) \in Word /\ ReadPC(cpu) \in Int
           /\ Keeps(cpu, Linked(ReadPC(cpu))) /\ Keeps(cpu, Linked(ReadPC(cpu) - 2))
<1>1. cpu.pc + 4 \in Int
  BY Started DEF Proper, CpuStates, Word
<1>2. ReadPC(cpu) \in Word /\ ReadPC(cpu) \in Int
  BY <1>1, TruncateIsWord, WordsAreInts DEF ReadPC
<1>3. ASSUME NEW address \in Int PROVE Keeps(cpu, Linked(address))
  <2>1. address - (address % 2) + 1 \in Int
    OBVIOUS
  <2>2. Truncate(address - (address % 2) + 1) \in Word
    BY <2>1, TruncateIsWord
  <2>3. 14 \in Registers
    BY DEF Registers
  <2>4. QED
    BY <2>2, <2>3, KeepsSelf, WrittenKeeps DEF Linked
<1>4. QED
  BY <1>2, <1>3

LEMMA BranchImmediateOutcome ==
    ASSUME Executing, BranchImmediate
    PROVE  Outcome
<1> DEFINE linked == IF case.op = "Bl1ImmOp" THEN Linked(ReadPC(cpu)) ELSE cpu
           address == ReadPC(cpu) + Arg("imm32")
           target == BranchWritePC(linked, address)
<1>1. Handled /\ class = "UnaryBranchInstrImm" /\ Done(AdvanceIt(target), TRUE)
  BY DEF BranchImmediate, Executes
<1>2. address \in Int
  BY <1>1, Started, UnaryBranchInstrImmOperands, LinkedKeeps
<1>3. Keeps(cpu, linked)
  BY LinkedKeeps, KeepsSelf
<1> HIDE DEF linked, address
<1>4. Proper(target) /\ target.apsr = cpu.apsr /\ target.istate = cpu.istate
  BY <1>2, <1>3, BranchWritePCProper, BranchKeeps DEF Keeps
<1> HIDE DEF target
<1>5. /\ Proper(AdvanceIt(target)) /\ AdvanceIt(target).apsr = cpu.apsr
      /\ Resumed(AdvanceIt(target).istate)
  BY <1>4, AdvanceItProper DEF Resumed
<1>6. QED
  BY <1>1, <1>5, JumpsOutcome DEF Redirects, Assured

LEMMA BranchExchangeOutcome ==
    ASSUME Executing, BranchExchange
    PROVE  Outcome
<1> DEFINE linked == IF case.op = "Blx1Op" THEN Linked(ReadPC(cpu) - 2) ELSE cpu
           address == Read("m")
           target == BXWritePC(linked, address)
<1>1. Handled /\ class = "UnaryBranchInstr" /\ Done(AdvanceIt(target), TRUE)
  BY DEF BranchExchange, Executes
<1>2. address \in Int
  BY <1>1, Started, UnaryBranchInstrOperands, RegisterWord, WordsAreInts
<1>3. Keeps(cpu, linked)
  BY LinkedKeeps, KeepsSelf
<1> HIDE DEF linked, address
<1>4. Proper(target) /\ target.apsr = cpu.apsr /\ target.istate = cpu.istate
  BY <1>2, <1>3, BranchWritePCProper, BranchKeeps DEF Keeps
<1> HIDE DEF target
<1>5. /\ Proper(AdvanceIt(target)) /\ AdvanceIt(target).apsr = cpu.apsr
      /\ Resumed(AdvanceIt(target).istate)
  BY <1>4, AdvanceItProper DEF Resumed
<1>6. QED
  BY <1>1, <1>5, JumpsOutcome DEF Redirects, Assured

LEMMA TableBranchOutcome ==
    ASSUME Executing, NEW refused, NEW word \in Loaded, TableBranch(refused, word)
    PROVE  Outcome
<1> DEFINE address == ReadPC(cpu) + 2 * TableEntry(refused, word)
           target == BranchWritePC(Accessed(refused), address)
<1>1. Handled /\ class = "BinaryBranchInstr" /\ Done(target, TRUE)
  BY Zenon DEF TableBranch, Executes
<1>2. TableEntry(refused, word) \in Int
  <2> DEFINE size == IF HasFlag("kTbh") THEN 65536 ELSE 256
  <2>1. size \in Int /\ size > 0
    OBVIOUS
  <2>2. TableEntry(refused, word) = IF refused THEN 0 ELSE word % size
    BY SMT DEF TableEntry
  <2> HIDE DEF size
  <2>3. word \in Int
    BY LoadedAssumption, WordsAreInts
  <2>4. word % size \in Int
    BY <2>1, <2>3
  <2>5. QED
    BY <2>2, <2>4
<1>3. address \in Int
  BY <1>2, LinkedKeeps
<1> HIDE DEF address
<1>4. Proper(target) /\ target.apsr = cpu.apsr /\ target.istate = cpu.istate
  BY <1>3, AccessedKeeps, BranchWritePCProper, BranchKeeps DEF Keeps
<1> HIDE DEF target
<1>5. QED
  BY <1>1, <1>4, JumpsOutcome DEF Redirects, Resumed, Assured

\* A branch that asks for a condition of its own.
LEMMA OwnConditionOutcome ==
    ASSUME Executing, CompareAndBranch \/ BranchConditional
    PROVE  Outcome
<1> DEFINE target == BranchWritePC(cpu, ReadPC(cpu) + Arg("imm32"))
<1>1. /\ Handled /\ class \in {"BinaryBranchInstrWithImm", "BCond"}
      /\ Done(target, TRUE) \/ Advances(cpu, TRUE)
  BY Zenon DEF CompareAndBranch, BranchConditional, Executes
<1>2. Arg("imm32") \in Int
  BY <1>1, Started, BinaryBranchInstrWithImmOperands, BCondOperands
<1>3. ReadPC(cpu) + Arg("imm32") \in Int
  BY <1>2, LinkedKeeps
<1>4. Proper(target) /\ target.apsr = cpu.apsr /\ target.istate = cpu.istate
  BY <1>3, Started, BranchWritePCProper, BranchKeeps
<1> HIDE DEF target
<1>5. CASE Done(target, TRUE)
  BY <1>1, <1>4, <1>5, JumpsOutcome DEF Redirects, Resumed, Assured
<1>6. CASE Advances(cpu, TRUE)
  BY <1>6, Started, AdvancesOutcome DEF Assured
<1>7. QED
  BY <1>1, <1>5, <1>6, Zenon

LEMMA ExecuteBranchOutcome ==
    ASSUME Executing, ExecuteBranch
    PROVE  Outcome
  BY BranchImmediateOutcome, BranchExchangeOutcome, TableBranchOutcome, OwnConditionOutcome
     DEF ExecuteBranch

LEMMA IfThenOutcome ==
    ASSUME Executing, IfThen
    PROVE  Outcome
<1> DEFINE istate == Arg("firstcond") * 16 + Arg("mask")
           begun == [cpu EXCEPT !.istate = istate]
           c == AdvanceInstr(begun, flags)
<1>1. Handled /\ class = "ItInstr" /\ Done(c, TRUE)
  BY DEF IfThen, Executes
<1>2. istate \in 0 .. 255
  BY <1>1, Started, ItInstrOperands DEF Registers
<1> HIDE DEF istate
<1>3. Proper(begun) /\ begun.pc = cpu.pc /\ begun.apsr = cpu.apsr /\ begun.istate = istate
  BY <1>2, Started DEF Proper, CpuStates
<1> HIDE DEF begun
<1>4. /\ Proper(c) /\ c.apsr = cpu.apsr /\ c.istate = istate
      /\ c.pc = Truncate(cpu.pc + IF "k32Bit" \in flags THEN 4 ELSE 2)
  BY <1>3, AdvanceProper
<1>5. AdvanceInstr(cpu, flags).pc = Truncate(cpu.pc + IF "k32Bit" \in flags THEN 4 ELSE 2)
  BY Started, AdvanceProper
<1> HIDE DEF c
<1>6. Falls
  BY <1>1, <1>4, <1>5, Zenon DEF Done, Falls, GoesOn, StartsBlock, istate
<1>7. /\ failed \subseteq failed' /\ failed' \subseteq failed \cup {"executor"}
      /\ Assured(failed' = {})
  BY <1>1, FailedOutcome DEF Done, Assured
<1>8. QED
  BY <1>1, <1>4, <1>6, <1>7, Zenon DEF Done, Outcome

LEMMA CallOutcome ==
    ASSUME Executing, NEW omitsException, Call(omitsException)
    PROVE  Outcome
<1> DEFINE c == IF omitsException THEN cpu
                ELSE Raise(cpu, IF class = "Svc" THEN "kSVCall" ELSE "kHardFault")
<1>1. Advances(c, TRUE)
  BY DEF Call
<1>2. Keeps(cpu, c)
  BY Started, KeepsSelf, RaiseKeeps
<1> HIDE DEF c
<1>3. QED
  BY <1>1, <1>2, AdvancesOutcome DEF Keeps, Assured

LEMMA MoveToSpecialOutcome ==
    ASSUME Executing, MoveToSpecial
    PROVE  Outcome
<1> DEFINE n == Read("n")
           privilege == n % 2 = 1
           selected == Bit(n, 1) = 1
           c == CASE SpecialRegister \in Stacks -> [cpu EXCEPT !.sp[SpecialRegister] = n]
                  [] SpecialRegister = "kControl" /\ ~cpu.nPriv ->
                       [cpu EXCEPT !.nPriv = privilege, !.spsel = selected]
                  [] OTHER -> cpu
<1>1. Handled /\ class = "Msr" /\ Advances(c, SpecialRegister # "unsupported")
  BY DEF MoveToSpecial, Executes
<1>2. n \in Word /\ Exempt
  BY <1>1, Started, MsrOperands, RegisterWord DEF Exempt
<1>3. privilege \in BOOLEAN /\ selected \in BOOLEAN
  OBVIOUS
<1>4. Keeps(cpu, c)
  <2> HIDE DEF n, privilege, selected
  <2>1. CASE SpecialRegister \in Stacks
    <3> DEFINE sp == [cpu.sp EXCEPT ![SpecialRegister] = n]
    <3>1. sp \in [Stacks -> Word]
      BY <1>2, <2>1, Started DEF Proper, CpuStates
    <3>2. c = [cpu EXCEPT !.sp = sp]
      BY <2>1 DEF Stacks
    <3> HIDE DEF sp
    <3>3. QED
      BY <3>1, <3>2, Started DEF Keeps, Proper, CpuStates
  <2>2. CASE SpecialRegister = "kControl" /\ ~cpu.nPriv
    <3>1. c = [cpu EXCEPT !.nPriv = privilege, !.spsel = selected]
      BY <2>2 DEF Stacks
    <3> DEFINE d == [cpu EXCEPT !.nPriv = privilege]
    <3>2. Keeps(cpu, d)
      BY <1>3, Started DEF Keeps, Proper, CpuStates
    <3>3. c = [d EXCEPT !.spsel = selected]
      BY <3>1, Started DEF Proper, CpuStates
    <3> HIDE DEF d
    <3>4. Keeps(d, [d EXCEPT !.spsel = selected])
      BY <1>3, <3>2 DEF Keeps, Proper, CpuStates
    <3>5. QED
      BY <3>2, <3>3, <3>4, KeepsTrans
  <2>3. CASE SpecialRegister \notin Stacks /\ ~(SpecialRegister = "kControl" /\ ~cpu.nPriv)
    BY <2>3, KeepsSelf
  <2>4. QED
    BY <2>1, <2>2, <2>3
<1> HIDE DEF c
<1>5. QED
  BY <1>1, <1>2, <1>4, AdvancesOutcome DEF Keeps, Assured

LEMMA MoveFromSpecialOutcome ==
    ASSUME Executing, MoveFromSpecial
    PROVE  Outcome
<1> DEFINE value == CASE SpecialRegister \in Stacks -> cpu.sp[SpecialRegister]
                      [] SpecialRegister = "kControl" -> AsBit(cpu.nPriv) + 2 * AsBit(cpu.spsel)
                      [] OTHER -> 0
           c == WriteRegister(cpu, Arg("d"), value)
           asserts == SpecialRegister # "unsupported" /\ Arg("d") # kPc
<1>1. Handled /\ class = "Mrs" /\ Advances(c, asserts)
  BY DEF MoveFromSpecial, Executes
<1>2. Arg("d") \in Registers /\ Exempt
  BY <1>1, Started, MrsOperands DEF Exempt
<1>3. value \in Word
  <2>1. CASE SpecialRegister \in Stacks
    <3>1. \A stack \in Stacks : cpu.sp[stack] \in Word
      BY Started DEF Proper, CpuStates
    <3>2. value = cpu.sp[SpecialRegister]
      BY <2>1 DEF Stacks
    <3> HIDE DEF value
    <3>3. QED
      BY <2>1, <3>1, <3>2
  <2>2. CASE SpecialRegister \notin Stacks
    <3>1. 0 \in Word /\ AsBit(cpu.nPriv) + 2 * AsBit(cpu.spsel) \in Word
      BY HalfAssumption, ControlAssumption DEF AsBit, Word
    <3>2. QED
      BY <2>2, <3>1
  <2>3. QED
    BY <2>1, <2>2
<1> HIDE DEF value, asserts
<1>4. Keeps(cpu, c)
  BY <1>2, <1>3, KeepsSelf, WrittenKeeps
<1> HIDE DEF c
<1>5. QED
  BY <1>1, <1>2, <1>4, AdvancesOutcome DEF Keeps, Assured

LEMMA NoOperationOutcome ==
    ASSUME Executing, NoOperation
    PROVE  Outcome
  BY Started, AdvancesOutcome DEF NoOperation, Assured

LEMMA ExecuteSpecialOutcome ==
    ASSUME Executing, ExecuteSpecial
    PROVE  Outcome
  BY IfThenOutcome, CallOutcome, MoveToSpecialOutcome, MoveFromSpecialOutcome, NoOperationOutcome
     DEF ExecuteSpecial

LEMMA ExecuteOutcome ==
    ASSUME Executing, Execute
    PROVE  Outcome
  BY ConditionOutcome, ExecuteDataOutcome, ExecuteMemoryOutcome, ExecuteBranchOutcome,
     ExecuteSpecialOutcome DEF Execute

------------------------------------------------------------------------------
(* Which call an instruction gets *)

DataClasses == ComputingClasses \cup ComparingClasses \cup {"Binary64bitInstr", "Bfi", "Ubfx"}
MemoryClasses ==
    {"UnaryLoadInstrImm", "BinaryLoadInstrWithImm", "TernaryLoadInstrWithShift", "Ldrd",
     "VariadicLoadInstr", "VariadicStoreInstr", "VariadicStoreInstrDb", "BinaryStoreInstrWithImm",
     "TernaryStoreInstrWithShift", "TernaryStoreInstrWithImm", "Strd"}
BranchClasses ==
    {"UnaryBranchInstrImm", "UnaryBranchInstr", "BinaryBranchInstr", "BinaryBranchInstrWithImm", "BCond"}
SpecialClasses == {"ItInstr", "Svc", "Bkpt", "Msr", "Mrs", "NullaryInstr"}

LEMMA ExecutesMore ==
    ASSUME NEW few, NEW many, few \subseteq many, Executes(few)
    PROVE  Executes(many)
  BY DEF Executes

LEMMA DataExecutes == ASSUME ExecuteData PROVE Executes(DataClasses)
<1>1. \/ Executes(ComputingClasses) \/ Executes(ComparingClasses) \/ Executes({"UnaryInstr"})
      \/ Executes({"BinaryInstr"}) \/ Executes({"Binary64bitInstr"}) \/ Executes({"Bfi"})
      \/ Executes({"Ubfx"})
  BY Zenon DEF ExecuteData, WriteResult, WriteResultToPc, Compare, InsertBitField, ExtractBitField,
     HostDivisionTraps, MultiplyLong, BitFieldFails
<1>2. /\ ComputingClasses \subseteq DataClasses /\ ComparingClasses \subseteq DataClasses
      /\ {"UnaryInstr"} \subseteq DataClasses /\ {"BinaryInstr"} \subseteq DataClasses
      /\ {"Binary64bitInstr"} \subseteq DataClasses /\ {"Bfi"} \subseteq DataClasses
      /\ {"Ubfx"} \subseteq DataClasses
  BY DEF DataClasses, ComputingClasses
<1>3. QED
  BY <1>1, <1>2, ExecutesMore

LEMMA MemoryExecutes == ASSUME ExecuteMemory PROVE Executes(MemoryClasses)
<1>1. \/ Executes(LoadClasses) \/ Executes({"BinaryStoreInstrWithImm", "TernaryStoreInstrWithShift"})
      \/ Executes({"Ldrd"}) \/ Executes({"TernaryStoreInstrWithImm"}) \/ Executes({"Strd"})
      \/ Executes({"VariadicLoadInstr"}) \/ Executes({"VariadicStoreInstr"})
      \/ Executes({"VariadicStoreInstrDb"})
  BY Zenon DEF ExecuteMemory, LoadRegister, LoadPc, LoadPcUnaligned, StoreRegister, LoadDouble,
     StoreExclusive, StoreDouble, LoadMultiple, StoreMultiple, StoreMultipleDb, StoreMultipleRefusesBase
<1>2. QED
  BY <1>1, ExecutesMore DEF MemoryClasses, LoadClasses

LEMMA BranchExecutes == ASSUME ExecuteBranch PROVE Executes(BranchClasses)
<1>1. \/ Executes({"UnaryBranchInstrImm"}) \/ Executes({"UnaryBranchInstr"})
      \/ Executes({"BinaryBranchInstr"}) \/ Executes({"BinaryBranchInstrWithImm"}) \/ Executes({"BCond"})
  BY Zenon DEF ExecuteBranch, BranchImmediate, BranchExchange, TableBranch, CompareAndBranch,
     BranchConditional
<1>2. QED
  BY <1>1, ExecutesMore DEF BranchClasses

LEMMA SpecialExecutes == ASSUME ExecuteSpecial PROVE Executes(SpecialClasses)
<1>1. \/ Executes({"ItInstr"}) \/ Executes({"Svc", "Bkpt"}) \/ Executes({"Msr"}) \/ Executes({"Mrs"})
      \/ Executes({"NullaryInstr"})
  BY Zenon DEF ExecuteSpecial, IfThen, Call, MoveToSpecial, MoveFromSpecial, NoOperation
<1>2. QED
  BY <1>1, ExecutesMore DEF SpecialClasses

\* An instruction with a case whose condition passes, or is not asked for, is executed by
\* the call of its class and by no other.
LEMMA OneCall ==
    ASSUME Execute, Handled, class \in Unconditional \/ Passes
    PROVE  /\ class \in DataClasses \cup MemoryClasses \cup BranchClasses \cup SpecialClasses
           /\ class \in DataClasses => ExecuteData
           /\ class \in MemoryClasses => ExecuteMemory
           /\ class \in BranchClasses => ExecuteBranch
           /\ class \in SpecialClasses => ExecuteSpecial
<1>1. ExecuteData \/ ExecuteMemory \/ ExecuteBranch \/ ExecuteSpecial
  BY DEF Execute, ConditionUnknown, ConditionFails, Unhandled, Passes
<1>2. /\ ExecuteData => class \in DataClasses
      /\ ExecuteMemory => class \in MemoryClasses
      /\ ExecuteBranch => class \in BranchClasses
      /\ ExecuteSpecial => class \in SpecialClasses
  BY DataExecutes, MemoryExecutes, BranchExecutes, SpecialExecutes DEF Executes
<1>3. /\ DataClasses \cap (MemoryClasses \cup BranchClasses \cup SpecialClasses) = {}
      /\ MemoryClasses \cap (BranchClasses \cup SpecialClasses) = {}
      /\ BranchClasses \cap SpecialClasses = {}
  BY DEF DataClasses, MemoryClasses, BranchClasses, SpecialClasses, ComputingClasses, ComparingClasses
<1>4. QED
  BY <1>1, <1>2, <1>3

\* One whose condition fails advances the pc and the IT state only.
LEMMA NoCall ==
    ASSUME Execute, Handled, class \notin Unconditional, ~Passes, steps' # steps, steps \in Int
    PROVE  cpu' = AdvancePcAndIt(cpu, flags)
<1>1. ~ExecuteData /\ ~ExecuteMemory /\ ~ExecuteBranch /\ ~ExecuteSpecial
  BY DataExecutes, MemoryExecutes, BranchExecutes, SpecialExecutes DEF Executes
<1>2. ConditionUnknown \/ ConditionFails \/ Unhandled
  BY <1>1 DEF Execute
<1>3. QED
  BY <1>2 DEF ConditionUnknown, ConditionFails, Unhandled, Fails, Advances, Done

------------------------------------------------------------------------------
(* The invariant *)

Decoded ==
    phase = "execute" =>
        /\ steps < MaxSteps
        /\ Formed(instr, cpu.istate, Wide)
        /\ failed \subseteq {"decoder"}
        /\ failed = {} => Valid(instr, cpu.istate, Wide)

IInv == InstrTypeOK /\ cpu.pc % 2 = 0 /\ AssertionsHold /\ Decoded

LEMMA IInvInit == ProgramInit => IInv
  BY StartsAssumption, MaxStepsAssumption
     DEF ProgramInit, Init, IInv, InstrTypeOK, AssertionsHold, Decoded

\* Whatever memory holds, the decoder delivers something sound.
LEMMA FetchedSound ==
    ASSUME NEW opcode \in Nat \X Nat
    PROVE  Sound(call_decoder(Fetch(opcode), cpu.istate), cpu.istate, Raw32Bit(opcode))
<1>1. Fetch(opcode) \in Raw /\ Fetch(opcode).low = opcode[1]
  BY DEF Fetch, Raw
<1>2. Raw32Bit(opcode) = TwoHalfwords(Fetch(opcode)) /\ Raw32Bit(opcode) \in BOOLEAN
  BY <1>1 DEF Raw32Bit, TwoHalfwords
<1>3. CASE Raw32Bit(opcode)
  <2>1. Sound(call_decoder(Fetch(opcode), cpu.istate), cpu.istate, TRUE)
    BY <1>1, <1>2, <1>3, SoundWide
  <2>2. Raw32Bit(opcode) = TRUE
    BY <1>2, <1>3
  <2>3. QED
    BY <2>1, <2>2, Zenon
<1>4. CASE ~Raw32Bit(opcode)
  <2>1. Sound(call_decoder(Fetch(opcode), cpu.istate), cpu.istate, FALSE)
    BY <1>1, <1>2, <1>4, SoundNarrow
  <2>2. Raw32Bit(opcode) = FALSE
    BY <1>2, <1>4
  <2>3. QED
    BY <2>1, <2>2, Zenon
<1>5. QED
  BY <1>3, <1>4

LEMMA DecodeKeepsIInv ==
    ASSUME IInv, Decode
    PROVE  IInv'
<1>1. /\ phase = "fetch" /\ steps \in 0 .. MaxSteps - 1 /\ cpu \in CpuStates
      /\ status = "kSuccess"
  BY MaxStepsAssumption DEF IInv, InstrTypeOK, Decode
<1>2. PICK opcode \in Memory[steps][cpu.pc] :
        LET decoding == call_decoder(Fetch(opcode), cpu.istate)
        IN  Decodes(opcode, decoding) \/ DecodeFails(decoding)
  BY DEF Decode
<1> DEFINE decoding == call_decoder(Fetch(opcode), cpu.istate)
<1>3. opcode \in Nat \X Nat
  BY <1>1, MemoryAssumption DEF CpuStates
<1>4. Sound(decoding, cpu.istate, Raw32Bit(opcode)) /\ Raw32Bit(opcode) \in BOOLEAN
  BY <1>3, FetchedSound DEF Raw32Bit
<1>5. Decodes(opcode, decoding) \/ DecodeFails(decoding)
  BY <1>2
<1> HIDE DEF decoding
<1>6. CASE Decodes(opcode, decoding)
  <2> DEFINE wide == Raw32Bit(opcode)
  <2>1. /\ decoding.failed \subseteq {"decoder"} /\ Formed(decoding.instr, cpu.istate, wide)
        /\ decoding.failed = {} => Valid(decoding.instr, cpu.istate, wide)
        /\ wide \in BOOLEAN
    BY <1>4, <1>6 DEF Decodes, Sound
  <2> HIDE DEF wide
  <2>2. instr' = decoding.instr /\ phase' = "execute" /\ UNCHANGED <<cpu, status, steps>>
    BY <1>6 DEF Decodes
  <2>3. ("k32Bit" \in decoding.instr.flags) = wide
    BY <2>1 DEF Formed
  <2>4. failed' = decoding.failed
    BY <1>6, <2>3 DEF Decodes, When, wide
  <2>5. Wide' = wide
    BY <2>2, <2>3 DEF Wide
  <2>6. Decoded'
    BY <1>1, <2>1, <2>2, <2>4, <2>5, MaxStepsAssumption DEF Decoded
  <2>7. InstrTypeOK' /\ (cpu.pc % 2 = 0)'
    BY <1>1, <2>2 DEF IInv, InstrTypeOK
  <2>8. AssertionsHold'
    BY <2>1, <2>4 DEF AssertionsHold
  <2>9. QED
    BY <2>6, <2>7, <2>8 DEF IInv
<1>7. CASE DecodeFails(decoding)
  <2>1. /\ phase' = "stopped" /\ status' = decoding.status /\ decoding.status # "kSuccess"
        /\ failed' = decoding.failed /\ UNCHANGED <<cpu, instr, steps>>
    BY <1>7 DEF DecodeFails, Stop
  <2>2. failed' \subseteq {"decoder"}
    BY <1>4, <2>1 DEF Sound
  <2>3. InstrTypeOK' /\ (cpu.pc % 2 = 0)'
    BY <2>1 DEF IInv, InstrTypeOK
  <2>4. AssertionsHold' /\ Decoded'
    BY <2>1, <2>2 DEF AssertionsHold, Decoded
  <2>5. QED
    BY <2>3, <2>4 DEF IInv
<1>8. QED
  BY <1>5, <1>6, <1>7

LEMMA IInvExecuting ==
    ASSUME IInv, phase = "execute"
    PROVE  Executing
  BY MaxStepsAssumption DEF IInv, InstrTypeOK, Decoded, Executing, Proper

LEMMA ExecuteKeepsIInv ==
    ASSUME IInv, Execute
    PROVE  IInv'
<1>1. phase = "execute" /\ Executing /\ Outcome
  BY IInvExecuting, ExecuteOutcome DEF Execute
<1>2. status = "kSuccess" /\ steps \in 0 .. MaxSteps - 1
  BY <1>1 DEF IInv, InstrTypeOK, Executing
<1>3. Proper(cpu') /\ (Falls \/ Jumps \/ Ends)
  BY <1>1 DEF Outcome
<1>4. \/ phase' = "fetch" /\ steps' = steps + 1 /\ status' = "kSuccess"
      \/ phase' = "stopped" /\ steps' = steps /\ status' # "kSuccess"
  BY <1>2, <1>3 DEF Falls, Jumps, GoesOn, Ends
<1>5. InstrTypeOK' /\ (cpu.pc % 2 = 0)' /\ Decoded'
  BY <1>2, <1>3, <1>4, MaxStepsAssumption DEF InstrTypeOK, Decoded, Proper
<1>6. AssertionsHold'
  <2>1. /\ instr' = instr /\ failed \subseteq failed' /\ failed \subseteq {"decoder"}
        /\ Assured(failed' = {})
    BY <1>1 DEF Outcome, Executing
  <2>2. PcSlipsThrough' <=> PcSlipsThrough
    BY <2>1 DEF PcSlipsThrough
  <2>3. QED
    BY <2>1, <2>2 DEF AssertionsHold, Assured, Exempt
<1>7. QED
  BY <1>5, <1>6 DEF IInv

LEMMA IInvNext ==
    ASSUME IInv, [ProgramNext]_programVars
    PROVE  IInv'
<1>1. CASE Decode \/ Execute
  BY <1>1, DecodeKeepsIInv, ExecuteKeepsIInv
<1>2. CASE UNCHANGED programVars
  BY <1>2 DEF programVars, vars, IInv, InstrTypeOK, AssertionsHold, PcSlipsThrough, Decoded, Wide
<1>3. QED
  BY <1>1, <1>2 DEF ProgramNext

\* The inductive invariant of a program: what the executor is about to execute was let
\* through by the decoder in the same IT state (processor.h, decoder.h), the pc is even and
\* the registers are of their type.
THEOREM ProgramInvariant == ProgramSpec => []IInv
<1>1. ProgramInit => IInv
  BY IInvInit
<1>2. IInv /\ [ProgramNext]_programVars => IInv'
  BY IInvNext
<1>3. QED
  BY <1>1, <1>2, PTL DEF ProgramSpec

\* No instruction leaves its registers anything but words, or the IT state more than a byte
\* (executor/instr/*.h).
THEOREM InstrTypeCorrect == ProgramSpec => []InstrTypeOK
<1>1. IInv => InstrTypeOK
  BY DEF IInv
<1>2. QED
  BY <1>1, ProgramInvariant, PTL

\* No Call is handed arguments that it asserts it is not handed, of any raw instruction
\* that passes the assertions of its decoder (processor.h:110, post_exec.h:114).
THEOREM AssertionsCorrect == ProgramSpec => []AssertionsHold
<1>1. IInv => AssertionsHold
  BY DEF IInv
<1>2. QED
  BY <1>1, ProgramInvariant, PTL

LEMMA ExecutingDispatched ==
    ASSUME Executing, "decoder" \notin failed
    PROVE  Handled /\ Valid(instr, cpu.istate, Wide)
  BY DEF Executing, Formed, Valid, Handled

\* Every instruction that is let through has a case in Execute, which reads each field
\* where the decoder wrote it (executor.h, instr.h).
THEOREM DispatchCorrect == ProgramSpec => []Dispatched
<1>1. ASSUME IInv PROVE Dispatched
  <2>1. SUFFICES ASSUME phase = "execute", "decoder" \notin failed
                 PROVE  Handled /\ ReadPlacement[instr.id] \subseteq WrittenPlacement[instr.id]
    BY DEF Dispatched
  <2>2. Handled
    BY <1>1, <2>1, IInvExecuting, ExecutingDispatched
  <2>3. QED
    BY <2>2, PlacesFit DEF Handled
<1>2. QED
  BY <1>1, ProgramInvariant, PTL

------------------------------------------------------------------------------
(* What a step may never do *)

LEMMA ExecutedOutcome ==
    ASSUME IInv, [ProgramNext]_programVars, phase = "execute", steps' # steps
    PROVE  Execute /\ Executing /\ Outcome /\ (Falls \/ Jumps)
<1>1. Execute
  BY DEF ProgramNext, programVars, vars, Decode
<1>2. Executing /\ Outcome
  BY <1>1, IInvExecuting, ExecuteOutcome
<1>3. QED
  BY <1>1, <1>2 DEF Outcome, Ends

\* No 16-bit instruction in an IT block sets the flags but a comparison (op_decoders.h,
\* post_exec.h).
THEOREM NarrowKeepsFlagsCorrect == ProgramSpec => NarrowKeepsFlags
<1>1. ASSUME IInv, [ProgramNext]_programVars, phase = "execute", steps' # steps,
             InITBlock(cpu.istate), "k32Bit" \notin instr.flags
      PROVE  Handled /\ (class \in ComparingClasses \/ cpu'.apsr = cpu.apsr)
  <2>1. Executing /\ (Falls \/ Jumps)
    BY <1>1, ExecutedOutcome
  <2>2. Handled /\ "kSetFlags" \notin instr.flags
    BY <1>1, <2>1 DEF Executing, Formed, Wide, Handled
  <2>3. ~HasFlag("kSetFlags")
    BY <2>2 DEF HasFlag, flags, CallFlags
  <2>4. QED
    BY <2>1, <2>2, <2>3 DEF Falls, Jumps, SetsFlags
<1>2. IInv /\ [ProgramNext]_programVars =>
        [ /\ phase = "execute" /\ steps' # steps
          /\ InITBlock(cpu.istate) /\ "k32Bit" \notin instr.flags
          => Handled /\ (class \in ComparingClasses \/ cpu'.apsr = cpu.apsr) ]_vars
  BY <1>1
<1>3. QED
  BY <1>2, ProgramInvariant, PTL DEF ProgramSpec, NarrowKeepsFlags

\* In the middle of an IT block the decoder lets nothing through that goes on elsewhere,
\* but for MOV.W to the pc.
LEMMA MidBlockStays ==
    ASSUME Executing, MidITBlock(cpu.istate), "decoder" \notin failed,
           ~(instr.id = "kMovRegister" /\ HasFlag("k32Bit"))
    PROVE  ~Redirects
<1>1. Handled /\ Valid(instr, cpu.istate, Wide) /\ Shaped(instr) /\ Formed(instr, cpu.istate, Wide)
  BY ExecutingDispatched, Started DEF Executing
<1>2. InITBlock(cpu.istate)
  BY DEF MidITBlock
<1>3. CASE class \in {"UnaryBranchInstrImm", "UnaryBranchInstr", "BinaryBranchInstr",
                      "BinaryBranchInstrWithImm", "BCond"}
  <2>1. instr.id \in {"kB", "kBl", "kBx", "kBlx", "kTbbH", "kCbNZ", "kBCond"}
    BY <1>1, <1>3, CaseFits DEF Fits, class
  <2>2. QED
    BY <1>1, <1>2, <2>1 DEF Valid, Formed
<1>4. CASE class = "UnaryInstr"
  <2>1. /\ instr.id \in {"kClz", "kMovRegister", "kRrx"} /\ instr.fields \in [d : Registers, m : Registers]
        /\ case.base = "n"
    BY <1>1, <1>4, UnaryInstrOperands, CaseFits DEF Fits
  <2>2. instr.id = "kMovRegister" => ~Wide
    BY <2>1 DEF HasFlag, flags, CallFlags, Wide
  <2>3. instr.fields.d # 15
    BY <1>1, <2>1, <2>2 DEF Valid
  <2>4. Arg("d") # kPc
    BY <2>1, <2>3 DEF Arg, kPc
  <2>5. QED
    BY <1>1, <1>4, <2>4 DEF Redirects, LoadClasses
<1>5. CASE class \in LoadClasses
  <2>1. instr.id \in Loads
    BY <1>1, <1>5, CaseFits DEF Fits, class, LoadClasses, Loads, IndexedLoads
  <2>2. instr.fields.t # 15
    BY <1>1, <2>1 DEF Valid
  <2>3. Arg("t") # kPc
    BY <2>2 DEF Arg, kPc
  <2>4. QED
    BY <1>1, <1>5, <2>3 DEF Redirects, LoadClasses
<1>6. CASE class = "VariadicLoadInstr"
  <2>1. instr.id \in {"kLdm", "kPop"}
    BY <1>1, <1>6, CaseFits DEF Fits, class
  <2>2. Bit(instr.fields.registers, 15) # 1
    BY <1>1, <2>1 DEF Valid
  <2>3. kPc \notin List
    BY <2>2 DEF List, BitsOf, Arg, kPc
  <2>4. QED
    BY <1>1, <1>6, <2>3 DEF Redirects, LoadClasses
<1>7. QED
  BY <1>1, <1>3, <1>4, <1>5, <1>6 DEF Redirects

\* No instruction in the middle of an IT block goes on elsewhere than behind itself, but for
\* MOV.W to the pc (op_decoders.h, post_exec.h).
THEOREM MidBlockCorrect == ProgramSpec => MidBlockFallsThrough
<1>1. ASSUME IInv, [ProgramNext]_programVars, phase = "execute", steps' # steps,
             MidITBlock(cpu.istate), "decoder" \notin failed,
             ~(instr.id = "kMovRegister" /\ HasFlag("k32Bit"))
      PROVE  cpu'.pc = AdvanceInstr(cpu, flags).pc
  BY <1>1, ExecutedOutcome, MidBlockStays DEF Falls, Jumps
<1>2. IInv /\ [ProgramNext]_programVars =>
        [ /\ phase = "execute" /\ steps' # steps /\ MidITBlock(cpu.istate)
          /\ "decoder" \notin failed
          /\ ~(instr.id = "kMovRegister" /\ HasFlag("k32Bit"))
          => cpu'.pc = AdvanceInstr(cpu, flags).pc ]_vars
  BY <1>1
<1>3. QED
  BY <1>2, ProgramInvariant, PTL DEF ProgramSpec, MidBlockFallsThrough

LEMMA AdvancedIsExcept ==
    ASSUME Proper(cpu), cpu' = AdvancePcAndIt(cpu, flags)
    PROVE  cpu' = [cpu EXCEPT !.pc = cpu'.pc, !.istate = cpu'.istate]
  BY DEF Proper, CpuStates, AdvancePcAndIt, AdvanceInstr, AdvanceIt, BranchTo

\* An instruction of an IT block whose condition is false changes the pc and the IT state
\* only (if_then_ops.h, executor/instr/*.h).
THEOREM SkippedKeepsStateCorrect == ProgramSpec => SkippedKeepsState
<1>1. ASSUME IInv, [ProgramNext]_programVars, phase = "execute", "decoder" \notin failed,
             steps' # steps, InITBlock(cpu.istate),
             ~ConditionPassed(cpu.apsr, Bits(cpu.istate, 7, 4)), instr.id # "kBkpt"
      PROVE  cpu' = [cpu EXCEPT !.pc = cpu'.pc, !.istate = cpu'.istate]
  <2>1. Execute /\ Executing
    BY <1>1, ExecutedOutcome
  <2>2. Handled /\ Formed(instr, cpu.istate, Wide) /\ Proper(cpu) /\ steps \in Int
    BY <1>1, <2>1, ExecutingDispatched, MaxStepsAssumption DEF Executing
  <2>3. ~Passes
    BY <1>1 DEF Passes, Condition, CurrentCond, Cond
  <2>4. class \notin Unconditional
    <3>1. SUFFICES ASSUME class \in Unconditional PROVE FALSE
      OBVIOUS
    <3>2. instr.id \in {"kIt", "kBCond", "kCbNZ", "kBkpt"}
      BY <2>2, <3>1, CaseFits DEF Fits, class, Unconditional
    <3>3. QED
      BY <1>1, <2>2, <3>2 DEF Formed
  <2>5. cpu' = AdvancePcAndIt(cpu, flags)
    BY <1>1, <2>1, <2>2, <2>3, <2>4, NoCall
  <2>6. QED
    BY <2>2, <2>5, AdvancedIsExcept
<1>2. IInv /\ [ProgramNext]_programVars =>
        [ LET owed == Bits(cpu.istate, 7, 4)
          IN  /\ phase = "execute" /\ "decoder" \notin failed /\ steps' # steps
              /\ InITBlock(cpu.istate) /\ ~ConditionPassed(cpu.apsr, owed) /\ instr.id # "kBkpt"
              => cpu' = [cpu EXCEPT !.pc = cpu'.pc, !.istate = cpu'.istate] ]_vars
  BY <1>1
<1>3. QED
  BY <1>2, ProgramInvariant, PTL DEF ProgramSpec, SkippedKeepsState

\* A word is its own remainder.
LEMMA WordTruncates == ASSUME NEW x \in Word PROVE Truncate(x) = x
<1>1. 2 * Half \in Int /\ 2 * Half > 0 /\ x \in 0 .. (2 * Half) - 1
  BY HalfAssumption DEF Word
<1>2. ((2 * Half) * 0 + x) % (2 * Half) = x
  BY <1>1, RemainderUnique
<1>3. (2 * Half) * 0 + x = x
  BY <1>1
<1>4. QED
  BY <1>2, <1>3 DEF Truncate

\* The link register of a call: the address behind the link, in Thumb state.
LEMMA LinkedBy ==
    ASSUME Proper(cpu), NEW x \in Int, x % 2 = 0
    PROVE  /\ Linked(x) = [cpu EXCEPT !.r[14] = Truncate(x) + 1]
           /\ Linked(x).r[14] = Truncate(x) + 1
<1>1. Truncate(x + 1) = Truncate(x) + 1
  <2>1. 2 * Half \in Int /\ 2 * Half > 0 /\ Half \in Int
    BY HalfAssumption
  <2>2. Truncate(x) \in Word /\ Truncate(x) % 2 = 0
    BY EvenTruncates
  <2>3. Truncate(x) + 1 \in Word
    BY <2>1, <2>2 DEF Word
  <2>4. ((x % (2 * Half)) + 1) % (2 * Half) = (x + 1) % (2 * Half)
    BY <2>1, RemainderAdd
  <2>5. (Truncate(x) + 1) % (2 * Half) = Truncate(x) + 1
    BY <2>3, WordTruncates DEF Truncate
  <2>6. QED
    BY <2>4, <2>5 DEF Truncate
<1>2. Linked(x) = WriteRegister(cpu, 14, Truncate(x + 1))
  BY DEF Linked
<1>3. QED
  BY <1>1, <1>2 DEF WriteRegister, GeneralRegisters, kSp, kPc, Proper, CpuStates

\* Going back through a link register that holds an even word and the Thumb bit.
LEMMA GoesBack ==
    ASSUME NEW c, Proper(c), NEW word \in Word, word % 2 = 0, c.r[14] = word + 1
    PROVE  /\ BXWritePC(c, c.r[14]).thumb
           /\ BXWritePC(c, c.r[14]).pc = word
<1>1. word \in Int /\ (word + 1) % 2 = 1
  BY WordsAreInts
<1>2. (word + 1) - ((word + 1) % 2) = word
  BY <1>1
<1>3. Truncate(word) = word
  BY WordTruncates
<1>4. BranchWritePC(c, word + 1) = [c EXCEPT !.pc = word]
  <2> DEFINE even == (word + 1) - ((word + 1) % 2)
  <2>1. BranchWritePC(c, word + 1) = BranchTo(c, even)
    BY Zenon DEF BranchWritePC
  <2>2. even = word
    BY <1>2, Zenon
  <2> HIDE DEF even
  <2>3. QED
    BY <1>3, <2>1, <2>2 DEF BranchTo
<1>5. QED
  BY <1>1, <1>4 DEF BXWritePC, Proper, CpuStates

LEMMA AdvanceItKeeps ==
    ASSUME NEW c, Proper(c)
    PROVE  /\ AdvanceIt(c).r = c.r /\ AdvanceIt(c).sp = c.sp /\ AdvanceIt(c).spsel = c.spsel
           /\ AdvanceIt(c).pending = c.pending
  BY DEF AdvanceIt, Proper, CpuStates

\* The link register of a call leads back behind it, in Thumb state, from every even address
\* and round the end of the address space (unary_branch_instr.h, pc_ops.h).
THEOREM CallReturnsCorrect == ProgramSpec => CallReturns
<1>1. ASSUME IInv, [ProgramNext]_programVars, phase = "execute", steps' # steps,
             instr.id \in {"kBl", "kBlx"}, Passes
      PROVE  /\ BXWritePC(cpu', cpu'.r[14]).thumb
             /\ BXWritePC(cpu', cpu'.r[14]).pc = AdvanceInstr(cpu, flags).pc
  <2>1. Execute /\ Executing /\ Outcome
    BY <1>1, ExecutedOutcome
  <2>2. Handled /\ Formed(instr, cpu.istate, Wide) /\ Proper(cpu) /\ Proper(cpu')
    BY <1>1, <2>1 DEF Executing, Formed, Handled, Outcome
  <2>3. flags = instr.flags /\ ("k32Bit" \in flags <=> instr.id = "kBl")
    BY <1>1, <2>2 DEF flags, CallFlags, Formed, Wide
  <2>4. AdvanceInstr(cpu, flags).pc = Truncate(cpu.pc + IF instr.id = "kBl" THEN 4 ELSE 2)
    BY <2>2, <2>3, AdvanceProper
  <2> DEFINE x == ReadPC(cpu) - IF instr.id = "kBl" THEN 0 ELSE 2
  <2>5. x \in Int /\ x % 2 = 0 /\ Truncate(x) = AdvanceInstr(cpu, flags).pc
    <3>1. cpu.pc \in Int /\ cpu.pc + 4 \in Int /\ (cpu.pc + 4) % 2 = 0
      BY <2>2, WordsAreInts DEF Proper, CpuStates
    <3>2. ReadPC(cpu) \in Word /\ ReadPC(cpu) % 2 = 0
      BY <3>1, EvenTruncates DEF ReadPC
    <3>3. ReadPC(cpu) \in Int
      BY <3>2, WordsAreInts
    <3>4. CASE instr.id = "kBl"
      <4>1. x = ReadPC(cpu)
        BY <3>3, <3>4
      <4>2. QED
        BY <2>4, <3>2, <3>3, <3>4, <4>1, WordTruncates DEF ReadPC
    <3>5. CASE instr.id # "kBl"
      <4>1. x = ReadPC(cpu) + (-2) /\ x \in Int /\ x % 2 = 0
        BY <3>2, <3>3, <3>5
      <4>2. ASSUME NEW W \in Int, W > 0, NEW a \in Int
            PROVE  ((a % W) + (-2)) % W = (a + (-2)) % W
        <5>1. -2 \in Int
          OBVIOUS
        <5>2. QED
          BY <4>2, <5>1, RemainderAdd, Zenon
      <4>3. (((cpu.pc + 4) % (2 * Half)) + (-2)) % (2 * Half) = (cpu.pc + 4 + (-2)) % (2 * Half)
        <5>1. 2 * Half \in Int /\ 2 * Half > 0
          BY HalfAssumption
        <5>2. QED
          BY <3>1, <4>2, <5>1, Zenon
      <4>4. cpu.pc + 4 + (-2) = cpu.pc + 2
        BY <3>1
      <4>5. QED
        BY <2>4, <3>5, <4>1, <4>3, <4>4 DEF ReadPC, Truncate
    <3>6. QED
      BY <3>4, <3>5
  <2>6. cpu'.r[14] = Truncate(x) + 1
    <3>1. Linked(x).r[14] = Truncate(x) + 1 /\ Keeps(cpu, Linked(x))
      <4>1. Keeps(cpu, Linked(ReadPC(cpu))) /\ Keeps(cpu, Linked(ReadPC(cpu) - 2)) /\ ReadPC(cpu) \in Int
        BY <2>1, LinkedKeeps
      <4>2. ReadPC(cpu) - 0 = ReadPC(cpu)
        BY <4>1
      <4>3. QED
        BY <2>2, <2>5, <4>1, <4>2, LinkedBy
    <3>2. \E address \in Int :
             \/ cpu' = AdvanceIt(BranchWritePC(Linked(x), address))
             \/ cpu' = AdvanceIt(BXWritePC(Linked(x), address))
      <4>1. CASE instr.id = "kBl"
        <5>1. class = "UnaryBranchInstrImm" /\ case.op = "Bl1ImmOp"
          BY <2>2, <4>1, CaseFits DEF Fits, class
        <5>2. ExecuteBranch
          BY <1>1, <2>1, <2>2, <5>1, OneCall DEF BranchClasses
        <5>3. BranchImmediate
          BY <5>1, <5>2 DEF ExecuteBranch, BranchExchange, TableBranch, CompareAndBranch,
             BranchConditional, Executes
        <5>4. cpu' = AdvanceIt(BranchWritePC(Linked(ReadPC(cpu)), ReadPC(cpu) + Arg("imm32")))
          BY <5>1, <5>3 DEF BranchImmediate, Done
        <5>5. x = ReadPC(cpu) /\ ReadPC(cpu) + Arg("imm32") \in Int
          BY <2>1, <2>2, <4>1, <5>1, LinkedKeeps, Started, UnaryBranchInstrImmOperands
        <5> HIDE DEF x
        <5>6. QED
          BY <5>4, <5>5
      <4>2. CASE instr.id = "kBlx"
        <5>1. class = "UnaryBranchInstr" /\ case.op = "Blx1Op"
          BY <2>2, <4>2, CaseFits DEF Fits, class
        <5>2. ExecuteBranch
          BY <1>1, <2>1, <2>2, <5>1, OneCall DEF BranchClasses
        <5>3. BranchExchange
          BY <5>1, <5>2 DEF ExecuteBranch, BranchImmediate, TableBranch, CompareAndBranch,
             BranchConditional, Executes
        <5>4. cpu' = AdvanceIt(BXWritePC(Linked(ReadPC(cpu) - 2), Read("m")))
          BY <5>1, <5>3 DEF BranchExchange, Done
        <5>5. x = ReadPC(cpu) - 2
          BY <4>2
        <5>6. Read("m") \in Int
          BY <2>1, <2>2, <5>1, Started, UnaryBranchInstrOperands, RegisterWord, WordsAreInts
        <5> HIDE DEF x
        <5>7. QED
          BY <5>4, <5>5, <5>6
      <4>3. QED
        BY <1>1, <4>1, <4>2
    <3> HIDE DEF x
    <3>3. PICK address \in Int :
             \/ cpu' = AdvanceIt(BranchWritePC(Linked(x), address))
             \/ cpu' = AdvanceIt(BXWritePC(Linked(x), address))
      BY <3>2
    <3>4. cpu'.r = Linked(x).r
      <4>1. Proper(Linked(x))
        BY <3>1 DEF Keeps
      <4>2. /\ Proper(BranchWritePC(Linked(x), address)) /\ Proper(BXWritePC(Linked(x), address))
            /\ BranchWritePC(Linked(x), address).r = Linked(x).r
            /\ BXWritePC(Linked(x), address).r = Linked(x).r
        BY <4>1, BranchWritePCProper, BranchKeeps
      <4>3. QED
        BY <3>3, <4>2, AdvanceItKeeps
    <3>5. QED
      BY <3>1, <3>4
  <2> HIDE DEF x
  <2>7. Truncate(x) \in Word /\ Truncate(x) % 2 = 0
    BY <2>5, EvenTruncates
  <2>8. QED
    BY <2>2, <2>5, <2>6, <2>7, GoesBack
<1>2. IInv /\ [ProgramNext]_programVars =>
        [ Executed({"kBl", "kBlx"}) /\ Passes =>
            LET back == BXWritePC(cpu', cpu'.r[14])
            IN  back.thumb /\ back.pc = AdvanceInstr(cpu, flags).pc ]_vars
  BY <1>1 DEF Executed
<1>3. QED
  BY <1>2, ProgramInvariant, PTL DEF ProgramSpec, CallReturns

\* Only the pc, the IT state and the like differ.
SameRegisters(c, d) == d.r = c.r /\ d.sp = c.sp /\ d.spsel = c.spsel /\ d.pending = c.pending

LEMMA SameRead ==
    ASSUME NEW c, NEW d, SameRegisters(c, d), NEW id \in Registers \ {15}
    PROVE  ReadRegister(d, id) = ReadRegister(c, id)
<1>1. LookUpSP(d) = LookUpSP(c)
  BY DEF LookUpSP, SameRegisters
<1>2. id = kSp \/ (id \in GeneralRegisters /\ id # kSp /\ id # kPc)
  BY DEF Registers, GeneralRegisters, kSp, kPc
<1>3. \A e : /\ id = kSp => ReadRegister(e, id) = e.sp[LookUpSP(e)]
             /\ id \in GeneralRegisters => ReadRegister(e, id) = e.r[id]
  BY <1>2 DEF ReadRegister, kSp, kPc, GeneralRegisters
<1>4. QED
  BY <1>1, <1>2, <1>3 DEF SameRegisters

LEMMA AdvanceSame ==
    ASSUME NEW c, Proper(c), NEW set, NEW address
    PROVE  /\ SameRegisters(c, AdvancePcAndIt(c, set))
           /\ Proper(BXWritePC(c, address)) => SameRegisters(c, AdvanceIt(BXWritePC(c, address)))
<1>1. SameRegisters(c, AdvanceIt(c)) /\ Proper(AdvanceIt(c))
  BY AdvanceItKeeps, AdvanceItProper DEF SameRegisters
<1>2. \A d : Proper(d) => SameRegisters(d, AdvanceInstr(d, set))
  BY DEF AdvanceInstr, BranchTo, Proper, CpuStates, SameRegisters
<1>3. SameRegisters(c, AdvancePcAndIt(c, set))
  BY <1>1, <1>2 DEF AdvancePcAndIt, SameRegisters
<1>4. ASSUME Proper(BXWritePC(c, address)) PROVE SameRegisters(c, AdvanceIt(BXWritePC(c, address)))
  BY <1>4, BranchKeeps, AdvanceItKeeps DEF SameRegisters
<1>5. QED
  BY <1>3, <1>4

\* What is written is read, and nothing else changes.
LEMMA ReadWritten ==
    ASSUME NEW c, Proper(c), NEW id \in Registers \ {15}, NEW value \in Word
    PROVE  /\ ReadRegister(WriteRegister(c, id, value), id) = value
           /\ \A other \in Registers \ {15, id} :
                ReadRegister(WriteRegister(c, id, value), other) = ReadRegister(c, other)
           /\ WriteRegister(c, id, value).pending = c.pending
<1>1. CASE id = kSp
  <2> DEFINE stack == LookUpSP(c)
  <2>1. stack \in Stacks
    BY StackOf
  <2>2. WriteRegister(c, id, value) = [c EXCEPT !.sp[stack] = value]
    BY <1>1 DEF WriteRegister, kSp, kPc, GeneralRegisters
  <2> HIDE DEF stack
  <2> DEFINE sp == [c.sp EXCEPT ![stack] = value]
             d == [c EXCEPT !.sp = sp]
  <2>3. WriteRegister(c, id, value) = d
    BY <2>2
  <2>4. sp[stack] = value
    BY <2>1 DEF Proper, CpuStates
  <2> HIDE DEF sp
  <2>5. d.sp = sp /\ d.r = c.r /\ d.spsel = c.spsel /\ d.pending = c.pending
    BY DEF Proper, CpuStates
  <2> HIDE DEF d
  <2>6. LookUpSP(d) = stack
    BY <2>5 DEF LookUpSP, stack
  <2>7. ReadRegister(d, id) = d.sp[LookUpSP(d)]
    BY <1>1 DEF ReadRegister, kSp, kPc, GeneralRegisters
  <2>8. ASSUME NEW other \in Registers \ {15, id} PROVE ReadRegister(d, other) = ReadRegister(c, other)
    <3>1. other \in GeneralRegisters /\ other # kSp /\ other # kPc
      BY <1>1 DEF Registers, GeneralRegisters, kSp, kPc
    <3>2. \A e : ReadRegister(e, other) = e.r[other]
      BY <3>1 DEF ReadRegister
    <3>3. QED
      BY <2>5, <3>2
  <2>9. QED
    BY <2>3, <2>4, <2>5, <2>6, <2>7, <2>8
<1>2. CASE id # kSp
  <2>1. id \in GeneralRegisters /\ id # kPc
    BY <1>2 DEF Registers, GeneralRegisters, kSp, kPc
  <2> DEFINE r == [c.r EXCEPT ![id] = value]
             d == [c EXCEPT !.r = r]
  <2>2. WriteRegister(c, id, value) = d
    BY <1>2, <2>1 DEF WriteRegister
  <2>3. r[id] = value /\ \A other \in GeneralRegisters \ {id} : r[other] = c.r[other]
    BY <2>1 DEF Proper, CpuStates
  <2> HIDE DEF r
  <2>4. d.sp = c.sp /\ d.r = r /\ d.spsel = c.spsel /\ d.pending = c.pending
    BY DEF Proper, CpuStates
  <2> HIDE DEF d
  <2>5. LookUpSP(d) = LookUpSP(c)
    BY <2>4 DEF LookUpSP
  <2>6. ReadRegister(d, id) = d.r[id]
    BY <1>2, <2>1 DEF ReadRegister
  <2>7. ASSUME NEW other \in Registers \ {15, id} PROVE ReadRegister(d, other) = ReadRegister(c, other)
    <3>1. other = kSp \/ (other \in GeneralRegisters /\ other # kSp /\ other # kPc)
      BY DEF Registers, GeneralRegisters, kSp, kPc
    <3>2. \A e : /\ other = kSp => ReadRegister(e, other) = e.sp[LookUpSP(e)]
                 /\ other \in GeneralRegisters => ReadRegister(e, other) = e.r[other]
      BY <3>1 DEF ReadRegister, kSp, kPc, GeneralRegisters
    <3>3. QED
      BY <2>3, <2>4, <2>5, <3>1, <3>2
  <2>8. QED
    BY <2>2, <2>3, <2>4, <2>6, <2>7
<1>3. QED
  BY <1>1, <1>2

\* A load with write-back delivers both its results, for the decoder refuses one whose base
\* is its target (op_decoders.h, binary_load_instr.h).
THEOREM WriteBackCorrect == ProgramSpec => WriteBackSurvives
<1>1. ASSUME IInv, [ProgramNext]_programVars, phase = "execute", steps' # steps,
             instr.id \in {"kLdrImmediate", "kLdrbImmediate", "kLdrhImmediate", "kLdrsbImmediate",
                           "kLdrshImmediate"},
             Passes, HasFlag("kWBack"), "kBusFault" \notin cpu'.pending
      PROVE  /\ ReadRegister(cpu', Arg("n")) = Displaced(Read("n"), "masks")
             /\ Arg("t") # kPc =>
                  ReadRegister(cpu', Arg("t")) \in {LoadMem(case.op, word) : word \in Loaded}
  <2>1. Execute /\ Executing
    BY <1>1, ExecutedOutcome
  <2>2. /\ Handled /\ Formed(instr, cpu.istate, Wide) /\ Proper(cpu) /\ Shaped(instr)
    BY <1>1, <2>1, Started DEF Executing, Formed, Handled
  <2>3. class = "BinaryLoadInstrWithImm" /\ class \in LoadClasses /\ class \in BasedClasses
    BY <1>1, <2>2, CaseFits DEF Fits, class, LoadClasses, BasedClasses
  <2>4. /\ instr.fields \in [t : Registers, n : Registers, imm32 : Int] /\ case.base = "n"
        /\ Arg("t") \in Registers /\ Arg("n") \in Registers
        /\ Arg("t") = instr.fields.t /\ Arg("n") = instr.fields.n
    BY <1>1, <2>2, <2>3, BinaryLoadInstrWithImmOperands, CaseFits DEF Fits, Arg
  <2>5. Arg("n") \notin {15, Arg("t")}
    BY <1>1, <2>2, <2>4 DEF HasFlag, flags, CallFlags, Formed, IndexedLoads
  <2> DEFINE moved == Displaced(Read("n"), "masks")
  <2>6. moved \in Word /\ \A host : Displaced(Read("n"), host) = moved
    <3>1. "shift_res" \notin DOMAIN instr.fields
      BY <2>4
    <3>2. moved \in Word
      BY <2>1, <2>2, <2>3, DisplacedIsWord
    <3>3. QED
      BY <3>1, <3>2 DEF Displaced, Offset
  <2> HIDE DEF moved
  <2> DEFINE based(refused) == WriteRegister(Accessed(refused), Arg("n"), moved)
  <2>7. \A refused, host : LoadBased(refused, host) = based(refused)
    BY <1>1, <2>3, <2>6 DEF LoadBased, WriteBack
  <2>8. ASSUME NEW refused
        PROVE  /\ Proper(based(refused)) /\ ReadRegister(based(refused), Arg("n")) = moved
               /\ refused => "kBusFault" \in based(refused).pending
    <3>1. Keeps(cpu, Accessed(refused))
      BY <2>1, AccessedKeeps
    <3>2. refused => "kBusFault" \in Accessed(refused).pending
      BY <2>2 DEF Accessed, Raise, Proper, CpuStates
    <3> DEFINE c == Accessed(refused)
    <3> HIDE DEF c
    <3>3. Proper(c)
      BY <3>1 DEF Keeps, c
    <3>4. /\ Proper(WriteRegister(c, Arg("n"), moved))
          /\ ReadRegister(WriteRegister(c, Arg("n"), moved), Arg("n")) = moved
          /\ WriteRegister(c, Arg("n"), moved).pending = c.pending
      BY <2>4, <2>5, <2>6, <3>3, ReadWritten, WriteRegisterKeeps DEF Keeps
    <3>5. QED
      BY <3>2, <3>4 DEF c
  <2> HIDE DEF based
  <2>9. \E host, refused : \E word \in Loaded :
             \/ LoadRegister(host, refused, word)
             \/ LoadPc(host, refused, word)
    <3>1. ExecuteMemory
      BY <1>1, <2>1, <2>2, <2>3, OneCall DEF MemoryClasses
    <3>2. \E host, refused :
             \/ \E word \in Loaded : LoadRegister(host, refused, word) \/ LoadPc(host, refused, word)
             \/ LoadPcUnaligned(host, refused)
      BY <2>3, <3>1 DEF ExecuteMemory, StoreRegister, LoadDouble, StoreExclusive, StoreDouble,
         LoadMultiple, StoreMultiple, StoreMultipleDb, StoreMultipleRefusesBase, Executes
    <3>3. \A host, refused : ~LoadPcUnaligned(host, refused)
      BY <1>1 DEF LoadPcUnaligned, Fails
    <3>4. QED
      BY <3>2, <3>3, Zenon
  <2>10. PICK host, refused :
             \E word \in Loaded : LoadRegister(host, refused, word) \/ LoadPc(host, refused, word)
    BY <2>9, Zenon
  <2>11. PICK word \in Loaded : LoadRegister(host, refused, word) \/ LoadPc(host, refused, word)
    BY <2>10
  <2>12. Data(refused, word) \in Word
    BY <2>1, <2>2, <2>3, LoadOperands, DataIsWord
  <2> DEFINE c == based(refused)
             data == Data(refused, word)
  <2>13. c = LoadBased(refused, host) /\ Proper(c) /\ ReadRegister(c, Arg("n")) = moved
    BY <2>7, <2>8
  <2> HIDE DEF c
  <2>14. CASE LoadRegister(host, refused, word)
    <3> DEFINE d == WriteRegister(c, Arg("t"), data)
    <3>1. cpu' = AdvancePcAndIt(d, flags) /\ Arg("t") # kPc
      BY <2>13, <2>14 DEF LoadRegister, Advances, Done
    <3>2. Arg("t") \in Registers \ {15} /\ Arg("n") \in Registers \ {15, Arg("t")}
      BY <2>4, <2>5, <3>1 DEF kPc
    <3> HIDE DEF data
    <3>3. /\ ReadRegister(d, Arg("t")) = data /\ ReadRegister(d, Arg("n")) = moved
          /\ d.pending = c.pending /\ Proper(d)
      BY <2>12, <2>13, <3>2, ReadWritten, WriteRegisterKeeps DEF Keeps, data
    <3> HIDE DEF d
    <3>4. SameRegisters(d, cpu')
      BY <3>1, <3>3, AdvanceSame
    <3>5. ReadRegister(cpu', Arg("t")) = data /\ ReadRegister(cpu', Arg("n")) = moved
      BY <3>2, <3>3, <3>4, SameRead
    <3>6. ~refused
      BY <1>1, <2>8, <3>3, <3>4 DEF SameRegisters, c
    <3>7. data = LoadMem(case.op, word)
      BY <3>6 DEF data, Data
    <3>8. QED
      BY <3>5, <3>7 DEF moved
  <2>15. CASE LoadPc(host, refused, word)
    <3>1. cpu' = AdvanceIt(BXWritePC(c, data)) /\ Arg("t") = kPc
      BY <2>13, <2>15 DEF LoadPc, Done
    <3>2. data \in Int
      BY <2>12, WordsAreInts
    <3> HIDE DEF data
    <3>3. SameRegisters(c, cpu')
      BY <2>13, <3>1, <3>2, BranchWritePCProper, AdvanceSame
    <3>4. Arg("n") \in Registers \ {15}
      BY <2>4, <2>5
    <3>5. ReadRegister(cpu', Arg("n")) = moved
      BY <2>13, <3>3, <3>4, SameRead
    <3>6. QED
      BY <3>1, <3>5 DEF moved
  <2>16. QED
    BY <2>11, <2>14, <2>15
<1>2. IInv /\ [ProgramNext]_programVars =>
        [ /\ Executed({"kLdrImmediate", "kLdrbImmediate", "kLdrhImmediate", "kLdrsbImmediate",
                       "kLdrshImmediate"})
          /\ Passes /\ HasFlag("kWBack") /\ "kBusFault" \notin cpu'.pending
          => /\ ReadRegister(cpu', Arg("n")) = Displaced(Read("n"), "masks")
             /\ Arg("t") # kPc =>
                  ReadRegister(cpu', Arg("t")) \in {LoadMem(case.op, word) : word \in Loaded} ]_vars
  BY <1>1 DEF Executed
<1>3. QED
  BY <1>2, ProgramInvariant, PTL DEF ProgramSpec, WriteBackSurvives

------------------------------------------------------------------------------
(* What an IT block promises *)

LEMMA LeastOf ==
    ASSUME NEW T \in SUBSET Int, NEW least \in T, \A y \in T : least <= y
    PROVE  Min(T) = least
<1>1. \E x \in T : \A y \in T : x <= y
  OBVIOUS
<1>2. Min(T) \in T /\ \A y \in T : Min(T) <= y
  BY <1>1 DEF Min
<1> DEFINE m == Min(T)
<1>3. m \in Int /\ least \in Int /\ m <= least /\ least <= m
  BY <1>2
<1> HIDE DEF m
<1>4. m = least
  BY <1>3
<1>5. QED
  BY <1>4 DEF m

\* The last bit that is set tells how many instructions are left.
LEMMA LeastBit ==
    ASSUME NEW mask \in 1 .. 15
    PROVE  \/ mask % 2 = 1 /\ Min(BitsOf(mask)) = 0
           \/ mask % 4 = 2 /\ Min(BitsOf(mask)) = 1
           \/ mask % 8 = 4 /\ Min(BitsOf(mask)) = 2
           \/ mask = 8 /\ Min(BitsOf(mask)) = 3
<1>1. BitsOf(mask) \in SUBSET Int /\ \A y \in BitsOf(mask) : y \in 0 .. 15 /\ Bit(mask, y) = 1
  BY DEF BitsOf
<1>2. /\ mask % 2 # 1 => Bit(mask, 0) # 1
      /\ mask % 4 \notin {1, 2, 3} => Bit(mask, 1) # 1
      /\ mask % 8 \notin {1, 2, 3, 4, 5, 6, 7} => Bit(mask, 2) # 1
  BY DEF Bit
<1>3. CASE mask % 2 = 1
  <2>1. 0 \in BitsOf(mask)
    BY <1>3 DEF BitsOf, Bit
  <2>2. QED
    BY <1>1, <1>3, <2>1, LeastOf
<1>4. CASE mask % 4 = 2
  <2>1. 1 \in BitsOf(mask)
    BY <1>4 DEF BitsOf, Bit
  <2>2. \A y \in BitsOf(mask) : 1 <= y
    BY <1>1, <1>2, <1>4
  <2>3. QED
    BY <1>1, <1>4, <2>1, <2>2, LeastOf
<1>5. CASE mask % 8 = 4
  <2>1. 2 \in BitsOf(mask)
    BY <1>5 DEF BitsOf, Bit
  <2>2. \A y \in BitsOf(mask) : 2 <= y
    BY <1>1, <1>2, <1>5
  <2>3. QED
    BY <1>1, <1>5, <2>1, <2>2, LeastOf
<1>6. CASE mask = 8
  <2>1. 3 \in BitsOf(mask)
    BY <1>6 DEF BitsOf, Bit
  <2>2. \A y \in BitsOf(mask) : 3 <= y
    BY <1>1, <1>2, <1>6
  <2>3. QED
    BY <1>1, <1>6, <2>1, <2>2, LeastOf
<1>7. QED
  BY <1>3, <1>4, <1>5, <1>6

Length(istate) == 4 - Min(BitsOf(Bits(istate, 3, 0)))
Element(istate, k) == Bits(istate, 7, 5) * 2 + Bit(istate, 5 - k)

\* The conditions of a block are a sequence of one to four.
LEMMA OwedSequence ==
    ASSUME NEW istate \in 0 .. 255, InITBlock(istate)
    PROVE  /\ Length(istate) \in 1 .. 4
           /\ Owed(istate) = [k \in 1 .. Length(istate) |-> Element(istate, k)]
           /\ Owed(istate) \in Seq(0 .. 15) /\ Len(Owed(istate)) = Length(istate)
           /\ \A k \in 1 .. Length(istate) : Bit(istate, 5 - k) \in 0 .. 1
           /\ Bits(istate, 7, 5) \in 0 .. 7
<1>1. Bits(istate, 3, 0) \in 1 .. 15
  BY DEF InITBlock, Bits
<1>2. Length(istate) \in 1 .. 4
  BY <1>1, LeastBit DEF Length
<1>3. Bits(istate, 7, 5) \in 0 .. 7
  BY DEF Bits
<1>4. /\ Bit(istate, 1) \in 0 .. 1 /\ Bit(istate, 2) \in 0 .. 1
      /\ Bit(istate, 3) \in 0 .. 1 /\ Bit(istate, 4) \in 0 .. 1
  BY DEF Bit
<1>5. \A k \in 1 .. Length(istate) : Bit(istate, 5 - k) \in 0 .. 1
  <2>1. SUFFICES ASSUME NEW k \in 1 .. Length(istate) PROVE Bit(istate, 5 - k) \in 0 .. 1
    OBVIOUS
  <2>2. 5 - k = 1 \/ 5 - k = 2 \/ 5 - k = 3 \/ 5 - k = 4
    BY <1>2
  <2>3. QED
    BY <1>4, <2>2, Zenon
<1>6. Owed(istate) = [k \in 1 .. Length(istate) |-> Element(istate, k)]
  BY DEF Owed, Length, Element
<1>7. \A k \in 1 .. Length(istate) : Element(istate, k) \in 0 .. 15
  BY <1>3, <1>5 DEF Element
<1> DEFINE length == Length(istate)
           owed == [k \in 1 .. length |-> Element(istate, k)]
<1> HIDE DEF length
<1>8. owed \in Seq(0 .. 15) /\ Len(owed) = length
  <2>1. length \in Nat /\ \A k \in 1 .. length : Element(istate, k) \in 0 .. 15
    BY <1>2, <1>7 DEF length
  <2>2. owed \in [1 .. length -> 0 .. 15]
    BY <2>1, Zenon
  <2> HIDE DEF owed
  <2>3. QED
    BY <2>1, <2>2
<1>9. Owed(istate) = owed
  BY <1>6 DEF length
<1> HIDE DEF owed
<1>10. QED
  BY <1>2, <1>3, <1>5, <1>6, <1>8, <1>9 DEF length

\* An instruction uses up the first of them.
LEMMA AdvanceShifts ==
    ASSUME NEW istate \in 0 .. 255, Bits(istate, 2, 0) # 0
    PROVE  /\ ITAdvance(istate) \in 0 .. 255
           /\ Bits(ITAdvance(istate), 7, 5) = Bits(istate, 7, 5)
           /\ Bits(ITAdvance(istate), 3, 0) = (2 * Bits(istate, 3, 0)) % 16
           /\ Bit(ITAdvance(istate), 2) = Bit(istate, 1)
           /\ Bit(ITAdvance(istate), 3) = Bit(istate, 2)
           /\ Bit(ITAdvance(istate), 4) = Bit(istate, 3)
<1> DEFINE next == ITAdvance(istate)
<1>1. PICK a \in 0 .. 7, rest \in 0 .. 31 : istate = 32 * a + rest /\ a = istate \div 32 /\ rest = istate % 32
  OBVIOUS
<1>2. next = 32 * a + ((2 * rest) % 32)
  <2>1. Bits(istate, 7, 5) = a
    BY <1>1 DEF Bits
  <2>2. Bits(istate * 2, 4, 0) = (2 * rest) % 32
    BY <1>1 DEF Bits
  <2>3. QED
    BY <1>1, <2>1, <2>2 DEF ITAdvance
<1> HIDE DEF next
<1>3. next \in 0 .. 255 /\ Bits(next, 7, 5) = Bits(istate, 7, 5)
  <2> DEFINE shifted == (2 * rest) % 32
  <2>1. \A v \in Int : v % 32 \in 0 .. 31
    OBVIOUS
  <2>2. shifted \in 0 .. 31
    BY <2>1
  <2>3. next = 32 * a + shifted
    BY <1>2, Zenon
  <2> HIDE DEF shifted
  <2>4. \A p \in 0 .. 7, q \in 0 .. 31 : 32 * p + q \in 0 .. 255 /\ (32 * p + q) \div 32 = p
    OBVIOUS
  <2>5. a \in 0 .. 7
    OBVIOUS
  <2>6. next \in 0 .. 255 /\ next \div 32 = a
    BY <2>2, <2>3, <2>4, <2>5, Zenon
  <2>7. \A v \in 0 .. 255 : Bits(v, 7, 5) = v \div 32
    BY DEF Bits
  <2>8. QED
    BY <1>1, <2>6, <2>7
<1>4. Bits(next, 3, 0) = (2 * Bits(istate, 3, 0)) % 16
  BY <1>1, <1>2 DEF Bits
<1>5. Bit(next, 2) = Bit(istate, 1)
  BY <1>1, <1>2 DEF Bit
<1>6. Bit(next, 3) = Bit(istate, 2)
  BY <1>1, <1>2 DEF Bit
<1>7. Bit(next, 4) = Bit(istate, 3)
  BY <1>1, <1>2 DEF Bit
<1>8. QED
  BY <1>3, <1>4, <1>5, <1>6, <1>7 DEF next

LEMMA NothingOwed == Owed(0) = <<>> /\ ITAdvance(0) = 0
  BY DEF Owed, InITBlock, ITAdvance, Bits

LEMMA OwedAdvances ==
    ASSUME NEW istate \in 0 .. 255
    PROVE  Owed(ITAdvance(istate)) = IF Owed(istate) = <<>> THEN <<>> ELSE Tail(Owed(istate))
<1> DEFINE next == ITAdvance(istate)
<1>1. CASE ~InITBlock(istate)
  <2>1. Owed(istate) = <<>> /\ next = 0
    BY <1>1 DEF Owed, InITBlock, ITAdvance, Bits
  <2>2. QED
    BY <2>1, NothingOwed
<1>2. CASE InITBlock(istate)
  <2>1. /\ Length(istate) \in 1 .. 4 /\ Owed(istate) \in Seq(0 .. 15)
        /\ Len(Owed(istate)) = Length(istate)
        /\ Owed(istate) = [k \in 1 .. Length(istate) |-> Element(istate, k)]
    BY <1>2, OwedSequence
  <2>2. Owed(istate) # <<>>
    BY <2>1
  <2>3. Bits(istate, 3, 0) \in 1 .. 15
    BY <1>2 DEF InITBlock, Bits
  <2>4. CASE Bits(istate, 2, 0) = 0
    <3>1. next = 0
      BY <2>4 DEF ITAdvance
    <3>2. Bits(istate, 3, 0) = 8
      BY <2>3, <2>4 DEF Bits
    <3>3. Length(istate) = 1
      BY <3>2, LeastBit DEF Length
    <3>4. Tail(Owed(istate)) = <<>>
      BY <2>1, <3>3
    <3>5. QED
      BY <2>2, <3>1, <3>4, NothingOwed
  <2>5. CASE Bits(istate, 2, 0) # 0
    <3>1. /\ next \in 0 .. 255 /\ Bits(next, 7, 5) = Bits(istate, 7, 5)
          /\ Bits(next, 3, 0) = (2 * Bits(istate, 3, 0)) % 16
          /\ Bit(next, 2) = Bit(istate, 1) /\ Bit(next, 3) = Bit(istate, 2) /\ Bit(next, 4) = Bit(istate, 3)
      BY <2>5, AdvanceShifts, Zenon
    <3> HIDE DEF next
    <3>2. Bits(istate, 3, 0) # 8
      BY <2>5 DEF Bits
    <3>3. Bits(next, 3, 0) \in 1 .. 15 /\ InITBlock(next)
      BY <2>3, <3>1, <3>2 DEF InITBlock
    <3>4. Length(next) = Length(istate) - 1 /\ Length(istate) \in 2 .. 4
      BY <2>3, <3>1, <3>2, <3>3, LeastBit DEF Length
    <3>5. Owed(next) = [k \in 1 .. Length(next) |-> Element(next, k)]
      BY <3>1, <3>3, OwedSequence
    <3>6. \A k \in 1 .. Length(next) : Element(next, k) = Element(istate, k + 1)
      <4>1. SUFFICES ASSUME NEW k \in 1 .. Length(next) PROVE Element(next, k) = Element(istate, k + 1)
        OBVIOUS
      <4>2. k = 1 \/ k = 2 \/ k = 3
        BY <3>4
      <4>3. Bit(next, 5 - k) = Bit(istate, 5 - (k + 1))
        BY <3>1, <4>2
      <4>4. QED
        BY <3>1, <4>3 DEF Element
    <3> DEFINE length == Length(istate)
               e(k) == Element(istate, k)
               owed == [k \in 1 .. length |-> e(k)]
    <3> HIDE DEF length, e
    <3>7. owed = Owed(istate)
      BY <2>1 DEF length, e
    <3>8. Tail(owed) = [k \in 1 .. length - 1 |-> e(k + 1)]
      <4>1. owed \in Seq(0 .. 15) /\ Len(owed) = length /\ length \in 2 .. 4
        BY <2>1, <3>4, <3>7 DEF length
      <4>2. Tail(owed) = [k \in 1 .. length - 1 |-> owed[k + 1]]
        BY <4>1
      <4>3. \A k \in 1 .. length - 1 : owed[k + 1] = e(k + 1)
        BY <4>1
      <4>4. QED
        BY <4>2, <4>3
    <3>9. Owed(next) = [k \in 1 .. length - 1 |-> e(k + 1)]
      BY <3>4, <3>5, <3>6 DEF length, e
    <3>10. Owed(next) = Tail(Owed(istate))
      BY <3>7, <3>8, <3>9
    <3>11. QED
      BY <2>2, <3>10 DEF next
  <2>6. QED
    BY <2>4, <2>5
<1>3. QED
  BY <1>1, <1>2

\* An IT instruction names one to four conditions, each its first condition or the opposite.
LEMMA NamedConditions ==
    ASSUME NEW firstcond \in 0 .. 15, NEW mask \in 1 .. 15
    PROVE  LET named == Owed(firstcond * 16 + mask)
           IN  /\ firstcond * 16 + mask \in 0 .. 255
               /\ Len(named) \in 1 .. 4
               /\ \A k \in DOMAIN named : named[k] \in {named[1], Block!Opposite(named[1])}
<1> DEFINE istate == firstcond * 16 + mask
<1>1. istate \in 0 .. 255 /\ InITBlock(istate)
  BY DEF InITBlock, Bits
<1> HIDE DEF istate
<1>2. /\ Length(istate) \in 1 .. 4
      /\ Owed(istate) = [k \in 1 .. Length(istate) |-> Element(istate, k)]
      /\ Len(Owed(istate)) = Length(istate)
      /\ \A k \in 1 .. Length(istate) : Bit(istate, 5 - k) \in 0 .. 1
      /\ Bits(istate, 7, 5) \in 0 .. 7
  BY <1>1, OwedSequence
<1>3. \A k \in 1 .. Length(istate) :
         Element(istate, k) \in {Element(istate, 1), Block!Opposite(Element(istate, 1))}
  <2>1. SUFFICES ASSUME NEW k \in 1 .. Length(istate)
                 PROVE  Element(istate, k) \in {Element(istate, 1), Block!Opposite(Element(istate, 1))}
    OBVIOUS
  <2>2. 1 \in 1 .. Length(istate)
    BY <1>2
  <2> DEFINE a == Bits(istate, 7, 5)
             b == Bit(istate, 5 - k)
             first == Bit(istate, 5 - 1)
  <2>3. a \in 0 .. 7 /\ b \in 0 .. 1 /\ first \in 0 .. 1
    BY <1>2, <2>2
  <2>4. Element(istate, k) = a * 2 + b /\ Element(istate, 1) = a * 2 + first
    BY Zenon DEF Element
  <2> HIDE DEF a, b, first
  <2>5. a * 2 + b \in {a * 2 + first, Block!Opposite(a * 2 + first)}
    BY <2>3 DEF Block!Opposite
  <2>6. QED
    BY <2>4, <2>5
<1>4. Owed(istate)[1] = Element(istate, 1) /\ DOMAIN Owed(istate) = 1 .. Length(istate)
  BY <1>2
<1>5. \A k \in DOMAIN Owed(istate) : Owed(istate)[k] = Element(istate, k)
  BY <1>2
<1>6. \A k \in DOMAIN Owed(istate) : Owed(istate)[k] \in {Owed(istate)[1], Block!Opposite(Owed(istate)[1])}
  BY <1>3, <1>4, <1>5
<1>7. QED
  BY <1>1, <1>2, <1>6 DEF istate

LEMMA BlockInit == ProgramInit => Block!Init
<1>1. SUFFICES ASSUME ProgramInit
               PROVE  Owed(cpu.istate) \in Seq(0 .. 15) /\ Met = Block!Other("none") /\ steps = 0
  BY DEF Block!Init
<1>2. cpu.istate \in 0 .. 255 /\ phase = "fetch" /\ steps = 0
  BY <1>1, StartsAssumption DEF ProgramInit, Init, CpuStates
<1>3. Owed(cpu.istate) \in Seq(0 .. 15)
  <2>1. CASE InITBlock(cpu.istate)
    BY <1>2, <2>1, OwedSequence
  <2>2. CASE ~InITBlock(cpu.istate)
    BY <2>2 DEF Owed
  <2>3. QED
    BY <2>1, <2>2
<1>4. QED
  BY <1>2, <1>3 DEF Met, Block!Other

\* What the decoder lets through is met.
LEMMA DecodeMeets ==
    ASSUME IInv, Decode
    PROVE  Block!Meet \/ UNCHANGED Block!vars
<1>1. phase = "fetch" /\ Met = Block!Other("none") /\ Met.kind = "none"
  BY DEF Decode, Met, Block!Other
<1>2. UNCHANGED <<cpu, steps>> /\ phase' \in {"execute", "stopped"}
  BY DEF Decode, Decodes, DecodeFails, Stop
<1>3. CASE phase' = "stopped"
  <2>1. Met' = Block!Other("none")
    BY <1>3 DEF Met, Block!Other
  <2>2. QED
    BY <1>1, <1>2, <2>1 DEF Block!vars
<1>4. CASE phase' = "execute"
  <2>1. Formed(instr, cpu.istate, Wide)'
    BY <1>4, DecodeKeepsIInv DEF IInv, Decoded
  <2>2. CASE instr'.id = "kIt"
    <3>1. /\ ~InITBlock(cpu.istate)
          /\ instr'.fields \in [firstcond : 0 .. 15, mask : 0 .. 15] /\ instr'.fields.mask # 0
      BY <1>2, <2>1, <2>2 DEF Formed, Shaped, Registers
    <3> DEFINE firstcond == instr'.fields.firstcond
               mask == instr'.fields.mask
               named == Owed(firstcond * 16 + mask)
    <3>2. firstcond \in 0 .. 15 /\ mask \in 1 .. 15
      BY <3>1
    <3>3. Met' = [kind |-> "it", conds |-> named]
      BY <1>4, <2>2 DEF Met, Arg
    <3> HIDE DEF firstcond, mask
    <3>4. Len(named) \in 1 .. 4 /\ \A k \in DOMAIN named : named[k] \in {named[1], Block!Opposite(named[1])}
      BY <3>2, NamedConditions, Zenon
    <3>5. Owed(cpu.istate) = <<>>
      BY <3>1 DEF Owed
    <3> HIDE DEF named
    <3>6. QED
      BY <1>1, <1>2, <3>3, <3>4, <3>5 DEF Block!Meet
  <2>3. CASE instr'.id # "kIt"
    <3>1. Met' \in {Block!Other("keeps"), Block!Other("uses")}
      BY <1>4, <2>3 DEF Met, Block!Other
    <3>2. QED
      BY <1>1, <1>2, <3>1 DEF Block!Meet
  <2>4. QED
    BY <2>2, <2>3
<1>5. QED
  BY <1>2, <1>3, <1>4

\* The emulator gives up.
LEMMA ExecuteStops ==
    ASSUME IInv, Execute, steps' = steps
    PROVE  Block!Stop
<1>1. Executing /\ Outcome
  BY IInvExecuting, ExecuteOutcome DEF Execute
<1>2. steps \in Int
  BY <1>1, MaxStepsAssumption DEF Executing
<1>3. phase' = "stopped" /\ cpu'.istate = cpu.istate
  BY <1>1, <1>2 DEF Outcome, Falls, Jumps, GoesOn, Ends
<1>4. QED
  BY <1>3 DEF Block!Stop, Block!Other, Met

LEMMA TableBranchKeepsIt ==
    ASSUME Executing, NEW refused \in BOOLEAN, NEW word, TableBranch(refused, word)
    PROVE  cpu'.istate = cpu.istate
<1>1. Keeps(cpu, Accessed(refused))
  BY AccessedKeeps
<1>2. PICK address : cpu' = BranchWritePC(Accessed(refused), address)
  BY DEF TableBranch, Done
<1>3. QED
  BY <1>1, <1>2, BranchKeeps DEF Keeps

LEMMA IfThenStarts ==
    ASSUME Executing, instr.id = "kIt", IfThen
    PROVE  cpu'.istate = Arg("firstcond") * 16 + Arg("mask")
<1>1. instr.fields \in [firstcond : 0 .. 15, mask : 0 .. 15] /\ instr.fields.mask # 0 /\ Proper(cpu)
  BY DEF Executing, Formed, Shaped, Registers
<1> DEFINE istate == Arg("firstcond") * 16 + Arg("mask")
<1>2. Arg("firstcond") = instr.fields.firstcond /\ Arg("mask") = instr.fields.mask
  BY DEF Arg
<1>3. istate \in 0 .. 255
  <2>1. Arg("firstcond") \in 0 .. 15 /\ Arg("mask") \in 1 .. 15
    BY <1>1, <1>2
  <2>2. QED
    BY <2>1, NamedConditions, Zenon
<1>4. cpu' = AdvanceInstr([cpu EXCEPT !.istate = istate], flags)
  BY DEF IfThen, Done
<1> HIDE DEF istate
<1> DEFINE c == [cpu EXCEPT !.istate = istate]
<1>5. Proper(c) /\ c.istate = istate
  BY <1>1, <1>3 DEF Proper, CpuStates
<1> HIDE DEF c
<1>6. AdvanceInstr(c, flags).istate = istate
  BY <1>5, AdvanceProper
<1>7. QED
  BY <1>4, <1>6 DEF c, istate

\* An instruction that uses up its condition: no IT instruction, no table branch that is
\* taken, and one that has a case.
LEMMA UsesAdvance ==
    ASSUME IInv, [ProgramNext]_programVars, phase = "execute", steps' # steps,
           instr.id \notin {"kIt", "kStmdb"}, ~(instr.id = "kTbbH" /\ Passes)
    PROVE  Owed(cpu'.istate) = Owed(ITAdvance(cpu.istate))
<1>1. Execute /\ Executing /\ (Falls \/ Jumps)
  BY ExecutedOutcome
<1>2. Handled /\ Formed(instr, cpu.istate, Wide) /\ Proper(cpu) /\ steps \in Int
  BY <1>1, MaxStepsAssumption DEF Executing, Formed, Handled
<1>3. CASE cpu'.istate = ITAdvance(cpu.istate)
  BY <1>3
<1>4. CASE StartsBlock
  <2>1. instr.id = "kIt"
    BY <1>2, <1>4, CaseFits DEF Fits, class, StartsBlock
  <2>2. QED
    BY <2>1
<1>5. CASE class = "BinaryBranchInstr"
  <2>1. instr.id = "kTbbH" /\ ~Passes
    BY <1>2, <1>5, CaseFits DEF Fits, class
  <2>2. cpu' = AdvancePcAndIt(cpu, flags)
    BY <1>1, <1>2, <1>5, <2>1, NoCall DEF Unconditional
  <2>3. cpu'.istate = ITAdvance(cpu.istate)
    BY <1>2, <2>2, AdvanceProper
  <2>4. QED
    BY <2>3
<1>6. CASE class \in {"BinaryBranchInstrWithImm", "BCond"} /\ cpu'.istate = cpu.istate
  <2>1. instr.id \in {"kCbNZ", "kBCond"}
    BY <1>2, <1>6, CaseFits DEF Fits, class
  <2>2. ~InITBlock(cpu.istate)
    BY <1>2, <2>1 DEF Formed
  <2>3. Owed(cpu.istate) = <<>> /\ ITAdvance(cpu.istate) = 0
    <3>1. cpu.istate \in 0 .. 255
      BY <1>2 DEF Proper, CpuStates
    <3>2. ITAdvance(cpu.istate) = 0
      BY <2>2, <3>1 DEF InITBlock, ITAdvance, Bits
    <3>3. QED
      BY <2>2, <3>2 DEF Owed
  <2>4. QED
    BY <1>6, <2>3, NothingOwed
<1>7. QED
  BY <1>1, <1>2, <1>3, <1>4, <1>5, <1>6 DEF Falls, Jumps, Resumed

LEMMA ExecuteRetires ==
    ASSUME IInv, [ProgramNext]_programVars, phase = "execute", steps' # steps
    PROVE  Block!Retire
<1>1. Execute /\ Executing /\ (Falls \/ Jumps)
  BY ExecutedOutcome
<1>2. Formed(instr, cpu.istate, Wide) /\ Proper(cpu) /\ phase' = "fetch" /\ steps' = steps + 1
  BY <1>1 DEF Executing, Falls, Jumps, GoesOn
<1>3. Met' = Block!Other("none") /\ cpu.istate \in 0 .. 255
  BY <1>2 DEF Met, Block!Other, Proper, CpuStates
<1>4. CASE instr.id = "kIt"
  <2>1. Met = [kind |-> "it", conds |-> Owed(Arg("firstcond") * 16 + Arg("mask"))]
    BY <1>4 DEF Met
  <2>2. Handled /\ class = "ItInstr"
    BY <1>2, <1>4, CaseFits DEF Formed, Handled, Fits, class
  <2>3. ExecuteSpecial
    BY <1>1, <2>2, OneCall DEF Unconditional, SpecialClasses
  <2>4. IfThen
    BY <2>2, <2>3 DEF ExecuteSpecial, Call, MoveToSpecial, MoveFromSpecial, NoOperation, Executes
  <2>5. Owed(cpu'.istate) = Met.conds /\ Met.kind = "it"
    BY <1>1, <1>4, <2>1, <2>4, IfThenStarts
  <2>6. QED
    BY <1>2, <1>3, <2>5 DEF Block!Retire
<1>5. CASE instr.id = "kStmdb"
  <2>1. Met.kind = "keeps"
    BY <1>5, Zenon DEF Met
  <2>2. ~Handled
    BY <1>5, CasesFit DEF Handled, Fits
  <2>3. cpu' = cpu
    BY <1>1, <2>2, DataExecutes, MemoryExecutes, BranchExecutes, SpecialExecutes
       DEF Execute, ConditionUnknown, ConditionFails, Unhandled, Done, Executes
  <2>4. QED
    BY <1>2, <1>3, <2>1, <2>3 DEF Block!Retire
<1>6. CASE instr.id = "kTbbH" /\ Passes
  <2>1. Met.kind = "keeps"
    BY <1>2, <1>6 DEF Met, Executing
  <2>2. Handled /\ class = "BinaryBranchInstr"
    BY <1>2, <1>6, CaseFits DEF Formed, Handled, Fits, class
  <2>3. ExecuteBranch
    BY <1>1, <1>6, <2>2, OneCall DEF BranchClasses
  <2>4. \E refused \in BOOLEAN, word \in Loaded : TableBranch(refused, word)
    BY <2>2, <2>3 DEF ExecuteBranch, BranchImmediate, BranchExchange, CompareAndBranch,
       BranchConditional, Executes
  <2>5. cpu'.istate = cpu.istate
    BY <1>1, <2>4, TableBranchKeepsIt
  <2>6. QED
    BY <1>2, <1>3, <2>1, <2>5 DEF Block!Retire
<1>7. CASE instr.id \notin {"kIt", "kStmdb"} /\ ~(instr.id = "kTbbH" /\ Passes)
  <2>1. Met.kind = "uses"
    BY <1>7 DEF Met
  <2>2. Owed(cpu'.istate) = IF Owed(cpu.istate) = <<>> THEN <<>> ELSE Tail(Owed(cpu.istate))
    BY <1>3, <1>7, UsesAdvance, OwedAdvances
  <2>3. QED
    BY <1>2, <1>3, <2>1, <2>2 DEF Block!Retire
<1>8. QED
  BY <1>4, <1>5, <1>6, <1>7

\* The steps of a program are those of ItBlock: the IT state, advanced by some thirty
\* classes of instructions each in its own way, hands its conditions out one by one
\* (if_then_ops.h, post_exec.h).
THEOREM ImplementsItBlock == ProgramSpec => IsItBlock
<1>1. ProgramInit => Block!Init
  BY BlockInit
<1>2. IInv /\ [ProgramNext]_programVars => [Block!Next]_(Block!vars)
  <2>1. SUFFICES ASSUME IInv, [ProgramNext]_programVars PROVE [Block!Next]_(Block!vars)
    OBVIOUS
  <2>2. CASE Decode
    BY <2>1, <2>2, DecodeMeets DEF Block!Next
  <2>3. CASE Execute /\ steps' = steps
    BY <2>1, <2>3, ExecuteStops DEF Block!Next
  <2>4. CASE Execute /\ steps' # steps
    BY <2>1, <2>4, ExecuteRetires DEF Block!Next, Execute
  <2>5. CASE UNCHANGED programVars
    <3>1. Met' = Met /\ cpu' = cpu /\ steps' = steps
      BY <2>5 DEF programVars, vars, Met, Arg, case, Passes, Condition
    <3>2. QED
      BY <3>1 DEF Block!vars
  <2>6. QED
    BY <2>1, <2>2, <2>3, <2>4, <2>5 DEF ProgramNext
<1>3. QED
  BY <1>1, <1>2, ProgramInvariant, PTL DEF ProgramSpec, IsItBlock, Block!Spec

------------------------------------------------------------------------------
(* Sums of numbers of several words *)

\* value, with the flags n, c and v, is x + z + k, of numbers below R.
SumOf(x, z, k, value, n, c, v, R) ==
    /\ x \in 0 .. R - 1 /\ z \in 0 .. R - 1 /\ value \in 0 .. R - 1
    /\ value + (R * AsBit(c)) = x + z + k
    /\ n <=> 2 * value >= R
    /\ v <=> LET signed == SignedBelow(R, x) + SignedBelow(R, z) + k
             IN  2 * signed >= R \/ 2 * signed < -R

\* A number with one more word: its sign is that of the word.
LEMMA WordOnTop ==
    ASSUME NEW R \in Nat \ {0}, NEW a \in Word, NEW x \in 0 .. R - 1
    PROVE  /\ x + a * R \in 0 .. (WordRadix * R) - 1
           /\ 2 * (x + a * R) >= WordRadix * R <=> Negative(a)
           /\ SignedBelow(WordRadix * R, x + a * R) = x + R * Signed(a)
<1> DEFINE p == a * R
           h == Half * R
<1>1. /\ a \in Nat /\ Half \in Nat \ {0} /\ a <= 2 * Half - 1 /\ x \in Int /\ 0 <= x /\ x <= R - 1
      /\ WordRadix = 2 * Half
  BY HalfAssumption DEF Word, WordRadix
<1>2. p \in Int /\ h \in Int /\ WordRadix * R = 2 * h
  BY <1>1
<1>3. 0 <= p /\ p <= 2 * h - R
  <2>1. a * R <= (2 * Half - 1) * R /\ 0 * R <= a * R
    BY <1>1, ProductOrder
  <2>2. (2 * Half - 1) * R = 2 * h - R
    BY <1>1
  <2>3. QED
    BY <1>2, <2>1, <2>2
<1>4. a >= Half => p >= h
  BY <1>1, ProductOrder
<1>5. a < Half => p <= h - R
  <2>1. SUFFICES ASSUME a < Half PROVE p <= h - R
    OBVIOUS
  <2>2. a <= Half - 1
    BY <1>1, <2>1
  <2>3. a * R <= (Half - 1) * R
    BY <1>1, <2>2, ProductOrder
  <2>4. (Half - 1) * R = h - R
    BY <1>1
  <2>5. QED
    BY <1>2, <2>3, <2>4
<1>6. R * Signed(a) = IF a >= Half THEN p - 2 * h ELSE p
  BY <1>1 DEF Signed, Negative
<1> HIDE DEF p, h
<1>7. /\ x + p \in 0 .. (2 * h) - 1
      /\ 2 * (x + p) >= 2 * h <=> a >= Half
  BY <1>1, <1>2, <1>3, <1>4, <1>5
<1>8. SignedBelow(2 * h, x + p) = x + IF a >= Half THEN p - 2 * h ELSE p
  BY <1>1, <1>2, <1>7 DEF SignedBelow
<1>9. /\ x + p \in 0 .. (WordRadix * R) - 1
      /\ 2 * (x + p) >= WordRadix * R <=> a >= Half
      /\ SignedBelow(WordRadix * R, x + p) = x + R * Signed(a)
  BY <1>2, <1>6, <1>7, <1>8
<1>10. QED
  BY <1>9, Zenon DEF p, Negative

LEMMA FirstSum ==
    ASSUME NEW x \in Word, NEW z \in Word, NEW carry \in BOOLEAN
    PROVE  LET sum == AddWithCarry(x, z, carry)
           IN  SumOf(x, z, AsBit(carry), sum.value, Negative(sum.value), sum.carry_out,
                     sum.overflow, WordRadix)
<1> DEFINE sum == AddWithCarry(x, z, carry)
           signed == Signed(x) + Signed(z) + AsBit(carry)
<1>1. /\ sum.value \in Word
      /\ sum.value + 2 * Half * AsBit(sum.carry_out) = x + z + AsBit(carry)
      /\ sum.overflow <=> ~InSignedRange(signed)
  BY SumCorrect
<1> HIDE DEF sum
<1>2. \A y \in Word : SignedBelow(WordRadix, y) = Signed(y)
  BY HalfAssumption DEF SignedBelow, WordRadix, Signed, Negative, Word
<1>3. AsBit(carry) \in Int /\ signed \in Int
  BY HalfAssumption DEF AsBit, Signed, Word
<1>4. ~InSignedRange(signed) <=> 2 * signed >= WordRadix \/ 2 * signed < -WordRadix
  BY <1>3, HalfAssumption DEF InSignedRange, WordRadix
<1>5. sum.overflow <=> 2 * (SignedBelow(WordRadix, x) + SignedBelow(WordRadix, z) + AsBit(carry)) >= WordRadix
                    \/ 2 * (SignedBelow(WordRadix, x) + SignedBelow(WordRadix, z) + AsBit(carry)) < -WordRadix
  BY <1>1, <1>2, <1>4
<1>6. Negative(sum.value) <=> 2 * sum.value >= WordRadix
  BY <1>1, HalfAssumption DEF Negative, WordRadix, Word
<1>7. Word = 0 .. WordRadix - 1 /\ WordRadix = 2 * Half
  BY DEF Word, WordRadix
<1>8. QED
  BY <1>1, <1>5, <1>6, <1>7, Zenon DEF SumOf, sum

\* A sum carried on to one word more: the step of ADC and SBC.
LEMMA NextSum ==
    ASSUME NEW R \in Nat \ {0}, NEW x, NEW z, NEW k \in Int, NEW value, NEW n, NEW c \in BOOLEAN, NEW v,
           SumOf(x, z, k, value, n, c, v, R),
           NEW a \in Word, NEW b \in Word
    PROVE  LET sum == AddWithCarry(a, b, c)
           IN  SumOf(x + a * R, z + b * R, k, value + sum.value * R, Negative(sum.value),
                     sum.carry_out, sum.overflow, WordRadix * R)
<1> DEFINE sum == AddWithCarry(a, b, c)
           t == Signed(a) + Signed(b) + AsBit(c)
           signed == SignedBelow(WordRadix * R, x + a * R) + SignedBelow(WordRadix * R, z + b * R) + k
<1>1. x \in 0 .. R - 1 /\ z \in 0 .. R - 1 /\ value \in 0 .. R - 1 /\ value + (R * AsBit(c)) = x + z + k
  BY Zenon DEF SumOf
<1>2. /\ sum.value \in Word
      /\ sum.value + 2 * Half * AsBit(sum.carry_out) = a + b + AsBit(c)
      /\ sum.overflow <=> ~InSignedRange(t)
  BY SumCorrect
<1> HIDE DEF sum
<1>3. /\ x + a * R \in 0 .. (WordRadix * R) - 1
      /\ z + b * R \in 0 .. (WordRadix * R) - 1
      /\ value + sum.value * R \in 0 .. (WordRadix * R) - 1
      /\ 2 * (value + sum.value * R) >= WordRadix * R <=> Negative(sum.value)
  BY <1>1, <1>2, WordOnTop
<1>4. /\ AsBit(c) \in {0, 1} /\ AsBit(sum.carry_out) \in {0, 1}
      /\ a \in Int /\ b \in Int /\ sum.value \in Int /\ Half \in Int /\ Half > 0
      /\ Signed(a) \in Int /\ Signed(b) \in Int
      /\ x \in Int /\ z \in Int /\ value \in Int
  BY <1>1, <1>2, HalfAssumption DEF AsBit, Word, Signed
<1>5. (value + sum.value * R) + ((WordRadix * R) * AsBit(sum.carry_out)) = (x + a * R) + (z + b * R) + k
  <2>1. (sum.value + 2 * Half * AsBit(sum.carry_out)) * R = (a + b + AsBit(c)) * R
    BY <1>2
  <2>2. sum.value * R + (WordRadix * R) * AsBit(sum.carry_out) = a * R + b * R + R * AsBit(c)
    BY <1>4, <2>1 DEF WordRadix
  <2>3. /\ sum.value * R \in Int /\ (WordRadix * R) * AsBit(sum.carry_out) \in Int /\ a * R \in Int
        /\ b * R \in Int /\ R * AsBit(c) \in Int
    BY <1>4 DEF WordRadix
  <2>4. \A p, q, r, s, u \in Int : p + q = r + s + u /\ value + u = x + z + k =>
            (value + p) + q = (x + r) + (z + s) + k
    BY <1>4
  <2>5. QED
    BY <1>1, <2>2, <2>3, <2>4
<1>6. signed = value + R * t
  <2>1. signed = (x + R * Signed(a)) + (z + R * Signed(b)) + k
    BY <1>1, WordOnTop
  <2>2. R * t = R * Signed(a) + R * Signed(b) + R * AsBit(c)
    BY <1>4
  <2>3. R * Signed(a) \in Int /\ R * Signed(b) \in Int /\ R * AsBit(c) \in Int
    BY <1>4
  <2>4. QED
    BY <1>1, <1>4, <2>1, <2>2, <2>3
<1>7. t \in Int
  BY <1>4
<1> HIDE DEF t
<1>8. 2 * (value + R * t) >= WordRadix * R \/ 2 * (value + R * t) < -(WordRadix * R) <=> ~InSignedRange(t)
  <2> DEFINE h == Half * R
             p == t * R
  <2>1. h \in Int /\ p \in Int /\ WordRadix * R = 2 * h /\ R * t = p
    BY <1>4, <1>7 DEF WordRadix
  <2>2. t >= Half => p >= h
    BY <1>4, <1>7, ProductOrder
  <2>3. t <= Half - 1 => p <= (Half - 1) * R
    BY <1>4, <1>7, ProductOrder
  <2>4. t >= -Half => p >= (-Half) * R
    BY <1>4, <1>7, ProductOrder
  <2>5. t <= (-Half) - 1 => p <= ((-Half) - 1) * R
    BY <1>4, <1>7, ProductOrder
  <2>6. (Half - 1) * R = h - R /\ (-Half) * R = -h /\ ((-Half) - 1) * R = (-h) - R
    BY <1>4
  <2> HIDE DEF h, p
  <2>7. 2 * (value + p) >= 2 * h \/ 2 * (value + p) < -(2 * h) <=> ~(-Half <= t /\ t <= Half - 1)
    BY <1>1, <1>4, <1>7, <2>1, <2>2, <2>3, <2>4, <2>5, <2>6
  <2>8. QED
    BY <2>1, <2>7, Zenon DEF InSignedRange
<1>9. sum.overflow <=> 2 * signed >= WordRadix * R \/ 2 * signed < -(WordRadix * R)
  BY <1>2, <1>6, <1>8
<1> HIDE DEF signed
<1>10. QED
  BY <1>3, <1>5, <1>9, Zenon DEF SumOf, sum, signed

\* What the history and the flags have to do with one another: the flags are those of a sum, a
\* difference being the sum with the complement and a carry.
Counted(op, x, y, value, R, apsr) ==
    /\ op \in {"add", "sub"}
    /\ \E h \in Nat \ {0} : R = 2 * h
    /\ y \in 0 .. R - 1
    /\ op = "add" => SumOf(x, y, 0, value, apsr.n, apsr.c, apsr.v, R)
    /\ op = "sub" => SumOf(x, R - 1 - y, 1, value, apsr.n, apsr.c, apsr.v, R)
    /\ R = WordRadix => (apsr.z <=> value = 0)

SetterHolds ==
    \/ setter.op = "unknown"
    \/ Counted(setter.op, setter.x, setter.y, setter.value, setter.radix, cpu.apsr)

\* The complement of a number has the complement of its sign.
LEMMA ComplementSigned ==
    ASSUME NEW h \in Nat \ {0}, NEW y \in 0 .. (2 * h) - 1
    PROVE  SignedBelow(2 * h, 2 * h - 1 - y) = -SignedBelow(2 * h, y) - 1
  BY DEF SignedBelow

LEMMA CountedSum ==
    ASSUME NEW x, NEW y, NEW value, NEW R, NEW apsr, Flags(apsr),
           Counted("add", x, y, value, R, apsr)
    PROVE  /\ value = (x + y) % R
           /\ apsr.c <=> x + y >= R
           /\ apsr.v <=> \/ 2 * (SignedBelow(R, x) + SignedBelow(R, y)) >= R
                         \/ 2 * (SignedBelow(R, x) + SignedBelow(R, y)) < -R
<1>1. /\ R \in Int /\ R > 0
      /\ x \in 0 .. R - 1 /\ y \in 0 .. R - 1 /\ value \in 0 .. R - 1
      /\ value + (R * AsBit(apsr.c)) = x + y
      /\ apsr.v <=> \/ 2 * (SignedBelow(R, x) + SignedBelow(R, y)) >= R
                    \/ 2 * (SignedBelow(R, x) + SignedBelow(R, y)) < -R
  <2>1. R \in Int /\ R > 0 /\ SumOf(x, y, 0, value, apsr.n, apsr.c, apsr.v, R)
    BY DEF Counted
  <2>2. x \in Int /\ y \in Int /\ SignedBelow(R, x) \in Int /\ SignedBelow(R, y) \in Int
    BY <2>1 DEF SumOf, SignedBelow
  <2>3. /\ SignedBelow(R, x) + SignedBelow(R, y) + 0 = SignedBelow(R, x) + SignedBelow(R, y)
        /\ x + y + 0 = x + y
    BY <2>2
  <2>4. QED
    BY <2>1, <2>3, Zenon DEF SumOf
<1>2. AsBit(apsr.c) \in {0, 1} /\ (apsr.c <=> AsBit(apsr.c) = 1)
  BY DEF AsBit
<1>3. R * AsBit(apsr.c) = IF AsBit(apsr.c) = 1 THEN R ELSE 0
  BY <1>1, <1>2
<1>4. (R * AsBit(apsr.c) + value) % R = value
  <2>1. AsBit(apsr.c) \in Int
    BY <1>2
  <2>2. QED
    BY <1>1, <2>1, RemainderUnique, Zenon
<1>5. R * AsBit(apsr.c) + value = x + y
  BY <1>1, <1>3
<1>6. AsBit(apsr.c) = 1 <=> x + y >= R
  BY <1>1, <1>2, <1>3
<1>7. QED
  BY <1>1, <1>2, <1>4, <1>5, <1>6, Zenon

LEMMA CountedDifference ==
    ASSUME NEW x, NEW y, NEW value, NEW R, NEW apsr, Flags(apsr),
           Counted("sub", x, y, value, R, apsr)
    PROVE  /\ R \in Int /\ R > 0 /\ x \in 0 .. R - 1 /\ y \in 0 .. R - 1 /\ value \in 0 .. R - 1
           /\ value = IF x >= y THEN x - y ELSE x - y + R
           /\ apsr.c <=> x >= y
           /\ apsr.n <=> 2 * value >= R
           /\ apsr.v <=> \/ 2 * (SignedBelow(R, x) - SignedBelow(R, y)) >= R
                         \/ 2 * (SignedBelow(R, x) - SignedBelow(R, y)) < -R
<1>1. PICK h \in Nat \ {0} : R = 2 * h
  BY DEF Counted
<1>2. y \in 0 .. R - 1 /\ SumOf(x, R - 1 - y, 1, value, apsr.n, apsr.c, apsr.v, R)
  BY DEF Counted
<1>3. /\ x \in 0 .. R - 1 /\ value \in 0 .. R - 1
      /\ value + (R * AsBit(apsr.c)) = x + (R - 1 - y) + 1
      /\ apsr.n <=> 2 * value >= R
      /\ apsr.v <=> \/ 2 * (SignedBelow(R, x) + SignedBelow(R, R - 1 - y) + 1) >= R
                    \/ 2 * (SignedBelow(R, x) + SignedBelow(R, R - 1 - y) + 1) < -R
  BY <1>2, Zenon DEF SumOf
<1>4. SignedBelow(R, R - 1 - y) = -SignedBelow(R, y) - 1
  BY <1>1, <1>2, ComplementSigned
<1>5. SignedBelow(R, x) \in Int /\ SignedBelow(R, y) \in Int
  BY <1>1, <1>2, <1>3 DEF SignedBelow
<1>6. SignedBelow(R, x) + SignedBelow(R, R - 1 - y) + 1 = SignedBelow(R, x) - SignedBelow(R, y)
  BY <1>4, <1>5
<1>7. AsBit(apsr.c) \in {0, 1} /\ (apsr.c <=> AsBit(apsr.c) = 1)
  BY DEF AsBit
<1>8. R * AsBit(apsr.c) = IF AsBit(apsr.c) = 1 THEN R ELSE 0
  BY <1>1, <1>7
<1>9. /\ AsBit(apsr.c) = 1 <=> x >= y
      /\ value = IF x >= y THEN x - y ELSE x - y + R
  BY <1>1, <1>2, <1>3, <1>7, <1>8
<1>10. R \in Int /\ R > 0
  BY <1>1
<1>11. apsr.v <=> \/ 2 * (SignedBelow(R, x) - SignedBelow(R, y)) >= R
                  \/ 2 * (SignedBelow(R, x) - SignedBelow(R, y)) < -R
  BY <1>3, <1>6, Zenon
<1>12. QED
  BY <1>2, <1>3, <1>7, <1>9, <1>10, <1>11, Zenon

\* N = V is the signed order.
LEMMA SignedOrder ==
    ASSUME NEW x, NEW y, NEW value, NEW R, NEW apsr, Flags(apsr),
           Counted("sub", x, y, value, R, apsr)
    PROVE  apsr.n = apsr.v <=> SignedBelow(R, x) >= SignedBelow(R, y)
<1> DEFINE sx == SignedBelow(R, x)
           sy == SignedBelow(R, y)
<1>1. /\ R \in Int /\ R > 0 /\ x \in 0 .. R - 1 /\ y \in 0 .. R - 1 /\ value \in 0 .. R - 1
      /\ value = IF x >= y THEN x - y ELSE x - y + R
      /\ apsr.n <=> 2 * value >= R
      /\ apsr.v <=> 2 * (sx - sy) >= R \/ 2 * (sx - sy) < -R
  BY CountedDifference, Zenon
<1>2. PICK h \in Nat \ {0} : R = 2 * h
  BY DEF Counted
<1>3. /\ sx = IF 2 * x >= R THEN x - R ELSE x
      /\ sy = IF 2 * y >= R THEN y - R ELSE y
  BY DEF SignedBelow
<1> HIDE DEF sx, sy
<1>4. (2 * value >= R <=> (2 * (sx - sy) >= R \/ 2 * (sx - sy) < -R)) <=> sx >= sy
  BY <1>1, <1>2, <1>3
<1>5. apsr.n \in BOOLEAN /\ apsr.v \in BOOLEAN
  BY Zenon DEF Flags
<1>6. QED
  BY <1>1, <1>4, <1>5, Zenon DEF sx, sy

LEMMA RelationDecided ==
    ASSUME NEW x, NEW y, NEW value, NEW R, NEW apsr, Flags(apsr),
           Counted("sub", x, y, value, R, apsr), NEW cond \in RelationsOf(R)
    PROVE  ConditionPassed(apsr, cond) <=> Relation(cond, x, y, R)
<1>1. /\ R \in Int /\ R > 0 /\ x \in 0 .. R - 1 /\ y \in 0 .. R - 1 /\ value \in 0 .. R - 1
      /\ value = IF x >= y THEN x - y ELSE x - y + R
      /\ apsr.c <=> x >= y
  BY CountedDifference, Zenon
<1>2. apsr.n = apsr.v <=> SignedBelow(R, x) >= SignedBelow(R, y)
  BY SignedOrder
<1>3. x = y <=> value = 0
  BY <1>1
<1>4. R = WordRadix => (apsr.z <=> x = y)
  BY <1>3, Zenon DEF Counted
<1>5. SignedBelow(R, x) \in Int /\ SignedBelow(R, y) \in Int
  BY <1>1 DEF SignedBelow
<1>6. SignedBelow(R, x) = SignedBelow(R, y) <=> x = y
  <2>1. PICK h \in Nat \ {0} : R = 2 * h
    BY DEF Counted
  <2>2. QED
    BY <1>1, <2>1 DEF SignedBelow
<1>7. x \in Int /\ y \in Int
  BY <1>1
<1>8. CASE R = WordRadix /\ cond = \b0000
  <2>1. ConditionPassed(apsr, cond) <=> apsr.z
    BY <1>8 DEF ConditionPassed
  <2>2. Relation(cond, x, y, R) <=> x = y
    BY <1>8 DEF Relation
  <2>3. QED
    BY <1>4, <1>8, <2>1, <2>2
<1>9. CASE R = WordRadix /\ cond = \b0001
  <2>1. ConditionPassed(apsr, cond) <=> ~apsr.z
    BY <1>9 DEF ConditionPassed
  <2>2. Relation(cond, x, y, R) <=> x # y
    BY <1>9 DEF Relation
  <2>3. QED
    BY <1>4, <1>9, <2>1, <2>2
<1>10. CASE cond = \b0010
  <2>1. ConditionPassed(apsr, cond) <=> apsr.c
    BY <1>10 DEF ConditionPassed
  <2>2. Relation(cond, x, y, R) <=> x >= y
    BY <1>10 DEF Relation
  <2>3. QED
    BY <1>1, <2>1, <2>2
<1>11. CASE cond = \b0011
  <2>1. ConditionPassed(apsr, cond) <=> ~apsr.c
    BY <1>11 DEF ConditionPassed
  <2>2. Relation(cond, x, y, R) <=> ~(x >= y)
    BY <1>7, <1>11 DEF Relation
  <2>3. QED
    BY <1>1, <2>1, <2>2
<1>12. CASE R = WordRadix /\ cond = \b1000
  <2>1. ConditionPassed(apsr, cond) <=> apsr.c /\ ~apsr.z
    BY <1>12 DEF ConditionPassed
  <2>2. Relation(cond, x, y, R) <=> x >= y /\ x # y
    BY <1>7, <1>12 DEF Relation
  <2>3. QED
    BY <1>1, <1>4, <1>12, <2>1, <2>2
<1>13. CASE R = WordRadix /\ cond = \b1001
  <2>1. ConditionPassed(apsr, cond) <=> ~(apsr.c /\ ~apsr.z)
    BY <1>13 DEF ConditionPassed
  <2>2. Relation(cond, x, y, R) <=> ~(x >= y /\ x # y)
    BY <1>7, <1>13 DEF Relation
  <2>3. QED
    BY <1>1, <1>4, <1>13, <2>1, <2>2
<1>14. CASE cond = \b1010
  <2>1. ConditionPassed(apsr, cond) <=> apsr.n = apsr.v
    BY <1>14 DEF ConditionPassed
  <2>2. Relation(cond, x, y, R) <=> SignedBelow(R, x) >= SignedBelow(R, y)
    BY <1>14 DEF Relation
  <2>3. QED
    BY <1>2, <2>1, <2>2
<1>15. CASE cond = \b1011
  <2>1. ConditionPassed(apsr, cond) <=> ~(apsr.n = apsr.v)
    BY <1>15 DEF ConditionPassed
  <2>2. Relation(cond, x, y, R) <=> ~(SignedBelow(R, x) >= SignedBelow(R, y))
    BY <1>5, <1>15 DEF Relation
  <2>3. QED
    BY <1>2, <2>1, <2>2
<1>16. CASE R = WordRadix /\ cond = \b1100
  <2>1. ConditionPassed(apsr, cond) <=> apsr.n = apsr.v /\ ~apsr.z
    BY <1>16 DEF ConditionPassed
  <2>2. Relation(cond, x, y, R) <=>
          SignedBelow(R, x) >= SignedBelow(R, y) /\ SignedBelow(R, x) # SignedBelow(R, y)
    BY <1>5, <1>16 DEF Relation
  <2>3. QED
    BY <1>2, <1>4, <1>6, <1>16, <2>1, <2>2
<1>17. CASE R = WordRadix /\ cond = \b1101
  <2>1. ConditionPassed(apsr, cond) <=> ~(apsr.n = apsr.v /\ ~apsr.z)
    BY <1>17 DEF ConditionPassed
  <2>2. Relation(cond, x, y, R) <=>
          ~(SignedBelow(R, x) >= SignedBelow(R, y) /\ SignedBelow(R, x) # SignedBelow(R, y))
    BY <1>5, <1>17 DEF Relation
  <2>3. QED
    BY <1>2, <1>4, <1>6, <1>17, <2>1, <2>2
<1>18. \/ R = WordRadix /\ cond \in {\b0000, \b0001, \b1000, \b1001, \b1100, \b1101}
       \/ cond \in {\b0010, \b0011, \b1010, \b1011}
  BY DEF RelationsOf
<1>19. QED
  BY <1>8, <1>9, <1>10, <1>11, <1>12, <1>13, <1>14, <1>15, <1>16, <1>17, <1>18

------------------------------------------------------------------------------
(* What sets the flags, and what it computes *)

CountingOps == AddOps \cup SubOps \cup RsbOps \cup AdcOps \cup SbcOps

LEMMA CountingClass ==
    ASSUME Handled, class \in ComputingClasses \cup ComparingClasses, case.op \in CountingOps
    PROVE  \/ /\ class = "BinaryInstrWithImm"
              /\ case.op \in {"Sub1ImmOp", "Sbc1ImmOp", "Rsb1ImmOp", "Add1ImmOp", "Adc1ImmOp"}
           \/ /\ class = "BinaryNullInstrWithImm"
              /\ case.op \in {"Cmp1ImmOp", "Cmn1ImmOp"}
           \/ /\ class = "TernaryInstrWithShift"
              /\ case.op \in {"Sub2ShiftOp", "Sbc2ShiftOp", "Rsb2ShiftOp", "Add2ShiftOp", "Adc2ShiftOp"}
           \/ /\ class = "TernaryNullInstrWithShift"
              /\ case.op = "Cmp2ShiftOp"
<1>1. Fits(instr.id, case)
  BY CaseFits
<1>2. QED
  BY <1>1 DEF Fits, class, ComputingClasses, ComparingClasses, CountingOps, AddOps, SubOps, RsbOps,
     AdcOps, SbcOps

Calculated(host) == IF class \in ComparingClasses THEN Compares(host) ELSE Computes(host)

\* What is computed of operands that are not shifted.
Sums(result) ==
    /\ case.op \in AddOps => result = Sum(Read("n"), Operand, FALSE)
    /\ case.op \in SubOps => result = Sum(Read("n"), Not(Operand), TRUE)
    /\ case.op \in RsbOps => result = Sum(Not(Read("n")), Operand, TRUE)
    /\ case.op \in AdcOps => result = Sum(Read("n"), Operand, cpu.apsr.c)
    /\ case.op \in SbcOps => result = Sum(Read("n"), Not(Operand), cpu.apsr.c)

LEMMA UnshiftedOperand ==
    ASSUME NEW apsr, NEW m, NEW host
    PROVE  Shifted(apsr, m, ImmShift("LSL", 0), host).result = m
  BY DEF Shifted, ImmShift, Shift_C, ShiftResult

LEMMA SumsCalculated ==
    ASSUME Executing, Handled, class \in ComputingClasses \cup ComparingClasses,
           case.op \in CountingOps, Followed, NEW host \in Hosts
    PROVE  /\ Sums(Calculated(host))
           /\ Read("n") \in Word /\ Operand \in Word
           /\ class \in ComputingClasses => Arg("d") \in Registers \ {15}
<1>1. Proper(cpu) /\ Shaped(instr)
  BY Started
<1>2. CASE class = "BinaryInstrWithImm"
  <2>1. case.op \in {"Sub1ImmOp", "Sbc1ImmOp", "Rsb1ImmOp", "Add1ImmOp", "Adc1ImmOp"}
    BY <1>2, CountingClass
  <2>2. /\ Arg("d") \in Registers /\ Arg("n") \in Registers /\ Arg("imm32") \in Int
        /\ "imm32" \in DOMAIN instr.fields /\ "d" \in DOMAIN instr.fields
    BY <1>1, <1>2, BinaryInstrWithImmOperands
  <2>3. Operand = Truncate(Arg("imm32")) /\ Operand \in Word /\ Read("n") \in Word
    BY <1>1, <2>2, TruncateIsWord, RegisterWord DEF Operand
  <2>4. Calculated(host) = BinaryImmOp(case.op, cpu.apsr, Read("n"), Arg("imm32"))
    BY <1>2 DEF Calculated, Computes, ComparingClasses
  <2>5. Sums(Calculated(host))
    BY <2>1, <2>3, <2>4 DEF Sums, BinaryImmOp, AddOps, SubOps, RsbOps, AdcOps, SbcOps
  <2>6. QED
    BY <2>2, <2>3, <2>5 DEF Followed, kPc
<1>3. CASE class = "BinaryNullInstrWithImm"
  <2>1. case.op \in {"Cmp1ImmOp", "Cmn1ImmOp"}
    BY <1>3, CountingClass
  <2>2. /\ Arg("n") \in Registers /\ Arg("imm32") \in Int
        /\ "imm32" \in DOMAIN instr.fields
    BY <1>1, <1>3, BinaryNullInstrWithImmOperands
  <2>3. Operand = Truncate(Arg("imm32")) /\ Operand \in Word /\ Read("n") \in Word
    BY <1>1, <2>2, TruncateIsWord, RegisterWord DEF Operand
  <2>4. Calculated(host) = BinaryNullImmOp(case.op, Read("n"), Arg("imm32"))
    BY <1>3 DEF Calculated, Compares, ComparingClasses
  <2>5. Sums(Calculated(host))
    BY <2>1, <2>3, <2>4 DEF Sums, BinaryNullImmOp, AddOps, SubOps, RsbOps, AdcOps, SbcOps
  <2>6. QED
    BY <1>3, <2>2, <2>3, <2>5 DEF ComputingClasses
<1>4. CASE class = "TernaryInstrWithShift"
  <2>1. case.op \in {"Sub2ShiftOp", "Sbc2ShiftOp", "Rsb2ShiftOp", "Add2ShiftOp", "Adc2ShiftOp"}
    BY <1>4, CountingClass
  <2>2. /\ Arg("d") \in Registers /\ Arg("n") \in Registers /\ Arg("m") \in Registers
        /\ "imm32" \notin DOMAIN instr.fields /\ "d" \in DOMAIN instr.fields
        /\ "shift_res" \in DOMAIN instr.fields
    BY <1>1, <1>4, TernaryInstrWithShiftOperands
  <2>3. Operand = Read("m") /\ Operand \in Word /\ Read("n") \in Word
    BY <1>1, <2>2, RegisterWord DEF Operand
  <2>4. /\ Calculated(host) =
             TernaryShiftOp(case.op, cpu.apsr, Read("n"), Read("m"), Arg("shift_res"), host)
        /\ Shifted(cpu.apsr, Read("m"), Arg("shift_res"), host).result = Operand
    <3>1. Arg("shift_res") = ImmShift("LSL", 0)
      BY <2>2 DEF Followed
    <3>2. QED
      BY <1>4, <2>3, <3>1, UnshiftedOperand DEF Calculated, Computes, ComparingClasses
  <2>5. Sums(Calculated(host))
    BY <2>1, <2>3, <2>4 DEF Sums, TernaryShiftOp, AddOps, SubOps, RsbOps, AdcOps, SbcOps
  <2>6. QED
    BY <2>2, <2>3, <2>5 DEF Followed, kPc
<1>5. CASE class = "TernaryNullInstrWithShift"
  <2>1. case.op = "Cmp2ShiftOp"
    BY <1>5, CountingClass
  <2>2. /\ Arg("n") \in Registers /\ Arg("m") \in Registers
        /\ "imm32" \notin DOMAIN instr.fields /\ "shift_res" \in DOMAIN instr.fields
    BY <1>1, <1>5, TernaryNullInstrWithShiftOperands
  <2>3. Operand = Read("m") /\ Operand \in Word /\ Read("n") \in Word
    BY <1>1, <2>2, RegisterWord DEF Operand
  <2>4. /\ Calculated(host) =
             TernaryNullShiftOp(case.op, cpu.apsr, Read("n"), Read("m"), Arg("shift_res"), host)
        /\ Shifted(cpu.apsr, Read("m"), Arg("shift_res"), host).result = Operand
    <3>1. Arg("shift_res") = ImmShift("LSL", 0)
      BY <2>2 DEF Followed
    <3>2. QED
      BY <1>5, <2>3, <3>1, UnshiftedOperand DEF Calculated, Compares, ComparingClasses
  <2>5. Sums(Calculated(host))
    BY <2>1, <2>3, <2>4 DEF Sums, TernaryNullShiftOp, AddOps, SubOps, RsbOps, AdcOps, SbcOps
  <2>6. QED
    BY <1>5, <2>2, <2>3, <2>5 DEF ComputingClasses
<1>6. QED
  BY <1>2, <1>3, <1>4, <1>5, CountingClass

\* The flags that a result sets.
Taken(apsr, result) ==
    /\ apsr.n <=> Negative(result.value)
    /\ apsr.z <=> result.value = 0
    /\ apsr.c = result.carry_out /\ apsr.v = result.overflow

LEMMA SetFlagsTakes ==
    ASSUME NEW c, Proper(c), NEW result
    PROVE  Taken(SetFlags(c, result).apsr, result) /\ SameRegisters(c, SetFlags(c, result))
<1> DEFINE apsr == [n |-> Negative(result.value), z |-> result.value = 0,
                    c |-> result.carry_out, v |-> result.overflow]
<1>1. SetFlags(c, result) = [c EXCEPT !.apsr = apsr]
  BY DEF SetFlags
<1>2. Taken(apsr, result)
  BY Zenon DEF Taken
<1> HIDE DEF apsr
<1>3. [c EXCEPT !.apsr = apsr].apsr = apsr /\ SameRegisters(c, [c EXCEPT !.apsr = apsr])
  BY DEF Proper, CpuStates, SameRegisters
<1>4. QED
  BY <1>1, <1>2, <1>3, Zenon

LEMMA SameRegistersTrans ==
    ASSUME NEW a, NEW b, NEW c, SameRegisters(a, b), SameRegisters(b, c)
    PROVE  SameRegisters(a, c)
  BY DEF SameRegisters

\* What Advances leaves of a state whose flags have been set.
LEMMA AdvancesTaken ==
    ASSUME NEW c, Proper(c), NEW result, Delivers(result), NEW asserts,
           Advances(SetFlags(c, result), asserts)
    PROVE  Taken(cpu'.apsr, result) /\ SameRegisters(c, cpu')
<1> DEFINE set == SetFlags(c, result)
<1>1. Proper(set) /\ Taken(set.apsr, result) /\ SameRegisters(c, set)
  BY SetFlagsProper, SetFlagsTakes
<1>2. cpu' = AdvancePcAndIt(set, flags)
  BY DEF Advances, Done
<1> HIDE DEF set
<1>3. cpu'.apsr = set.apsr /\ SameRegisters(set, cpu')
  BY <1>1, <1>2, AdvanceProper, AdvanceSame
<1>4. SameRegisters(c, cpu')
  BY <1>1, <1>3, SameRegistersTrans
<1>5. QED
  BY <1>1, <1>3, <1>4, Zenon

LEMMA FlagsTaken ==
    ASSUME Executing, Execute, SetsFlags, case.op \in CountingOps, Followed
    PROVE  \E host \in Hosts :
             /\ Delivers(Calculated(host))
             /\ Taken(cpu'.apsr, Calculated(host))
             /\ class \notin ComparingClasses => ReadRegister(cpu', Arg("d")) = Calculated(host).value
<1>1. /\ Handled /\ class \in ComputingClasses \cup ComparingClasses
      /\ class \in Unconditional \/ Passes
      /\ class \notin ComparingClasses => HasFlag("kSetFlags")
  BY DEF SetsFlags
<1>2. ExecuteData
  BY <1>1, OneCall DEF DataClasses
<1>3. /\ class \notin {"UnaryInstr", "BinaryInstr", "Binary64bitInstr", "Bfi", "Ubfx"}
      /\ class \in ComparingClasses <=> class \notin ComputingClasses
  BY <1>1, CountingClass DEF ComparingClasses, ComputingClasses
<1>4. PICK host \in Hosts : WriteResult(host) \/ Compare(host)
  BY <1>2, <1>3 DEF ExecuteData, WriteResultToPc, InsertBitField, ExtractBitField, HostDivisionTraps,
     MultiplyLong, BitFieldFails, Executes
<1>5. CASE class \in ComparingClasses
  <2>1. Advances(SetFlags(cpu, Compares(host)), TRUE)
    BY <1>3, <1>4, <1>5 DEF WriteResult, Compare, Executes
  <2>2. Calculated(host) = Compares(host)
    BY <1>5 DEF Calculated
  <2>3. Delivers(Compares(host)) /\ Proper(cpu)
    BY <1>1, <1>5, ComparesDelivers DEF Executing
  <2>4. QED
    BY <1>5, <2>1, <2>2, <2>3, AdvancesTaken
<1>6. CASE class \in ComputingClasses
  <2> DEFINE raised == IF DividesByZero THEN Raise(cpu, "kUsageFault") ELSE cpu
             value == Calculated(host).value
             written == WriteRegister(raised, Arg("d"), value)
  <2>1. Calculated(host) = Computes(host) /\ class \notin ComparingClasses
    BY <1>3, <1>6 DEF Calculated
  <2>2. Advances(OptionalSetFlags(written, flags, Calculated(host)), Arg("d") # kPc)
    BY <1>3, <1>4, <1>6, <2>1 DEF WriteResult, Compare, Executes
  <2>3. Advances(SetFlags(written, Calculated(host)), Arg("d") # kPc)
    BY <1>1, <2>1, <2>2 DEF OptionalSetFlags, HasFlag
  <2>4. Delivers(Calculated(host)) /\ Arg("d") \in Registers \ {15}
    BY <1>1, <1>6, <2>1, ComputesDelivers, SumsCalculated
  <2>5. Keeps(cpu, raised)
    BY RaiseKeeps, KeepsSelf DEF Executing
  <2>6. value \in Word
    BY <2>4 DEF Delivers
  <2> HIDE DEF raised, value
  <2>7. Proper(raised) /\ Keeps(cpu, written)
    BY <2>4, <2>5, <2>6, WrittenKeeps DEF Keeps
  <2>8. Proper(written) /\ ReadRegister(written, Arg("d")) = value
    BY <2>4, <2>6, <2>7, ReadWritten DEF Keeps
  <2> HIDE DEF written
  <2>9. Taken(cpu'.apsr, Calculated(host)) /\ SameRegisters(written, cpu')
    BY <2>3, <2>4, <2>8, AdvancesTaken
  <2>10. ReadRegister(cpu', Arg("d")) = value
    BY <2>4, <2>8, <2>9, SameRead
  <2>11. QED
    BY <2>4, <2>9, <2>10 DEF value
<1>7. QED
  BY <1>1, <1>5, <1>6

------------------------------------------------------------------------------
(* The flags and what they were computed from *)

LEMMA SumIsAddition ==
    ASSUME NEW x \in Word, NEW z \in Word, NEW carry \in BOOLEAN
    PROVE  /\ Sum(x, z, carry) = AddWithCarry(x, z, carry)
           /\ AddWithCarry(z, x, carry) = AddWithCarry(x, z, carry)
<1> DEFINE sum == AddWithCarry(x, z, carry)
<1>1. sum.value \in Word
  BY SumCorrect
<1>2. sum = [value |-> sum.value, carry_out |-> sum.carry_out, overflow |-> sum.overflow]
  BY DEF AddWithCarry
<1> HIDE DEF sum
<1>3. Truncate(sum.value) = sum.value
  BY <1>1, WordTruncates
<1>4. Sum(x, z, carry) = sum
  BY <1>2, <1>3, Zenon DEF Sum, OpResult, sum
<1>5. AsBit(carry) \in Int /\ x + z + AsBit(carry) = z + x + AsBit(carry)
  BY HalfAssumption DEF AsBit, Word
<1>6. AddWithCarry(z, x, carry) = AddWithCarry(x, z, carry)
  BY <1>5 DEF AddWithCarry
<1>7. QED
  BY <1>4, <1>6 DEF sum

Addend(op, y) == IF op = "add" THEN y ELSE Not(y)

LEMMA FirstCounted ==
    ASSUME NEW op \in {"add", "sub"}, NEW x \in Word, NEW y \in Word,
           NEW apsr, Flags(apsr), Taken(apsr, AddWithCarry(x, Addend(op, y), op = "sub"))
    PROVE  LET value == AddWithCarry(x, Addend(op, y), op = "sub").value
           IN  /\ Counted(op, x, y, value, WordRadix, apsr)
               /\ Truncate(IF op = "add" THEN x + y ELSE x - y) = value
<1> DEFINE sum == AddWithCarry(x, Addend(op, y), op = "sub")
<1>1. /\ Addend(op, y) \in Word /\ (op = "sub") \in BOOLEAN
      /\ AsBit(op = "sub") = IF op = "add" THEN 0 ELSE 1
  BY NotIsWord DEF Addend, AsBit
<1>2. SumOf(x, Addend(op, y), AsBit(op = "sub"), sum.value, Negative(sum.value), sum.carry_out,
            sum.overflow, WordRadix)
  BY <1>1, FirstSum
<1> HIDE DEF sum
<1>3. SumOf(x, Addend(op, y), AsBit(op = "sub"), sum.value, apsr.n, apsr.c, apsr.v, WordRadix)
  BY <1>2, Zenon DEF SumOf, Taken, sum
<1>4. Not(y) = WordRadix - 1 - y /\ Half \in Nat \ {0} /\ WordRadix = 2 * Half
  BY HalfAssumption DEF Not, WordRadix
<1>5. y \in 0 .. WordRadix - 1
  BY <1>4 DEF Word
<1>6. apsr.z <=> sum.value = 0
  BY Zenon DEF Taken, sum
<1>7. Counted(op, x, y, sum.value, WordRadix, apsr)
  BY <1>1, <1>3, <1>4, <1>5, <1>6 DEF Counted, Addend
<1>8. Truncate(IF op = "add" THEN x + y ELSE x - y) = sum.value
  <2>1. CASE op = "add"
    BY <1>4, <1>7, <2>1, CountedSum DEF Truncate
  <2>2. CASE op = "sub"
    <3>1. /\ sum.value = IF x >= y THEN x - y ELSE x - y + WordRadix
          /\ sum.value \in 0 .. WordRadix - 1
      BY <1>7, <2>2, CountedDifference
    <3>2. x \in 0 .. (2 * Half) - 1 /\ y \in 0 .. (2 * Half) - 1 /\ 2 * Half \in Int /\ 2 * Half > 0
      BY <1>4 DEF Word
    <3>3. (x - y) % (2 * Half) = IF x >= y THEN x - y ELSE x - y + 2 * Half
      BY <3>2, DifferenceRemainder
    <3>4. QED
      BY <1>4, <2>2, <3>1, <3>3 DEF Truncate
  <2>3. QED
    BY <2>1, <2>2
<1>9. QED
  BY <1>7, <1>8, Zenon DEF sum

LEMMA NextCounted ==
    ASSUME NEW op, NEW x, NEW y, NEW value, NEW R, NEW apsr, Flags(apsr),
           Counted(op, x, y, value, R, apsr),
           NEW a \in Word, NEW b \in Word, NEW next,
           Taken(next, AddWithCarry(a, Addend(op, b), apsr.c))
    PROVE  Counted(op, x + a * R, y + b * R,
                   value + AddWithCarry(a, Addend(op, b), apsr.c).value * R, WordRadix * R, next)
<1> DEFINE sum == AddWithCarry(a, Addend(op, b), apsr.c)
           k == IF op = "add" THEN 0 ELSE 1
           z == IF op = "add" THEN y ELSE R - 1 - y
           total == value + sum.value * R
<1>1. /\ op \in {"add", "sub"} /\ y \in 0 .. R - 1
      /\ SumOf(x, z, k, value, apsr.n, apsr.c, apsr.v, R)
  BY DEF Counted
<1>2. PICK h \in Nat \ {0} : R = 2 * h
  BY DEF Counted
<1>3. R \in Nat \ {0} /\ k \in Int /\ apsr.c \in BOOLEAN /\ Addend(op, b) \in Word
  BY <1>2, NotIsWord DEF Flags, Addend
<1> HIDE DEF z, k
<1>4. SumOf(x + a * R, z + Addend(op, b) * R, k, total, Negative(sum.value), sum.carry_out,
            sum.overflow, WordRadix * R)
  BY <1>1, <1>3, NextSum
<1> HIDE DEF sum, total
<1>5. SumOf(x + a * R, z + Addend(op, b) * R, k, total, next.n, next.c, next.v, WordRadix * R)
  BY <1>4, Zenon DEF SumOf, Taken, sum
<1>6. y + b * R \in 0 .. (WordRadix * R) - 1
  BY <1>1, <1>3, WordOnTop
<1>7. b \in Int /\ Half \in Nat \ {0} /\ WordRadix = 2 * Half
  BY HalfAssumption DEF Word, WordRadix
<1>8. WordRadix * h \in Nat \ {0} /\ WordRadix * R = 2 * (WordRadix * h)
  BY <1>2, <1>7
<1>9. WordRadix * R # WordRadix
  <2>1. 2 * WordRadix <= R * WordRadix
    BY <1>2, <1>7, ProductOrder
  <2>2. QED
    BY <1>2, <1>7, <2>1
<1>10. op = "sub" => z + Addend(op, b) * R = (WordRadix * R) - 1 - (y + b * R)
  <2>1. SUFFICES ASSUME op = "sub" PROVE z + Addend(op, b) * R = (WordRadix * R) - 1 - (y + b * R)
    OBVIOUS
  <2>2. z = R - 1 - y /\ Addend(op, b) = WordRadix - 1 - b
    BY <2>1 DEF z, Addend, Not, WordRadix
  <2>3. (WordRadix - 1 - b) * R = WordRadix * R - R - b * R
    BY <1>3, <1>7
  <2>4. WordRadix * R \in Int /\ b * R \in Int
    BY <1>3, <1>7
  <2>5. QED
    BY <1>1, <1>3, <2>2, <2>3, <2>4
<1>11. op = "add" => z + Addend(op, b) * R = y + b * R /\ k = 0
  BY DEF z, k, Addend
<1>12. op = "sub" => k = 1
  BY DEF k
<1>13. Counted(op, x + a * R, y + b * R, total, WordRadix * R, next)
  BY <1>1, <1>5, <1>6, <1>8, <1>9, <1>10, <1>11, <1>12 DEF Counted
<1>14. QED
  BY <1>13 DEF total, sum

\* The history after a first word.
LEMMA FirstHolds ==
    ASSUME NEW op \in {"add", "sub"}, NEW x \in Word, NEW y \in Word, NEW result,
           \/ result = Sum(x, Addend(op, y), op = "sub")
           \/ result = Sum(Addend(op, y), x, op = "sub"),
           Proper(cpu'), Taken(cpu'.apsr, result),
           class \notin ComparingClasses => ReadRegister(cpu', Arg("d")) = result.value,
           setter' = First(op, x, y)
    PROVE  SetterHolds'
<1> DEFINE sum == AddWithCarry(x, Addend(op, y), op = "sub")
           difference == IF op = "add" THEN x + y ELSE x - y
<1>1. Addend(op, y) \in Word /\ (op = "sub") \in BOOLEAN
  BY NotIsWord DEF Addend
<1>2. result = sum
  <2>1. /\ Sum(x, Addend(op, y), op = "sub") = sum
        /\ AddWithCarry(Addend(op, y), x, op = "sub") = sum
    BY <1>1, SumIsAddition, Zenon
  <2>2. Sum(Addend(op, y), x, op = "sub") = AddWithCarry(Addend(op, y), x, op = "sub")
    BY <1>1, SumIsAddition, Zenon
  <2>3. QED
    BY <2>1, <2>2, Zenon
<1>3. Flags(cpu'.apsr)
  BY FlagsOf
<1>4. Counted(op, x, y, sum.value, WordRadix, cpu'.apsr) /\ Truncate(difference) = sum.value
  BY <1>2, <1>3, FirstCounted
<1> HIDE DEF sum
<1>5. Written(difference) = sum.value
  BY <1>2, <1>4 DEF Written
<1>6. setter' = Setter(op, x, y, sum.value, WordRadix)
  BY <1>5 DEF First
<1>7. /\ setter'.op = op /\ setter'.x = x /\ setter'.y = y
      /\ setter'.value = sum.value /\ setter'.radix = WordRadix
  BY <1>6 DEF Setter
<1>8. QED
  BY <1>4, <1>7, Zenon DEF SetterHolds

\* The history after one word more.
LEMMA ExtendedHolds ==
    ASSUME SetterHolds, Proper(cpu), NEW op \in {"add", "sub"}, setter.op = op,
           Read("n") \in Word, Operand \in Word, NEW result,
           result = Sum(Read("n"), Addend(op, Operand), cpu.apsr.c),
           Taken(cpu'.apsr, result),
           class \notin ComparingClasses, ReadRegister(cpu', Arg("d")) = result.value,
           setter' = Extended(op)
    PROVE  SetterHolds'
<1> DEFINE a == Read("n")
           b == Operand
           sum == AddWithCarry(a, Addend(op, b), cpu.apsr.c)
           R == setter.radix
           value == setter.value + sum.value * R
<1>1. Flags(cpu.apsr) /\ cpu.apsr.c \in BOOLEAN
  BY FlagsOf DEF Flags
<1>2. Addend(op, b) \in Word
  BY NotIsWord DEF Addend
<1>3. result = sum
  BY <1>1, <1>2, SumIsAddition
<1>4. Counted(op, setter.x, setter.y, setter.value, R, cpu.apsr)
  BY DEF SetterHolds
<1>5. Counted(op, setter.x + a * R, setter.y + b * R, value, WordRadix * R, cpu'.apsr)
  BY <1>1, <1>3, <1>4, NextCounted
<1>6. Written(0) = sum.value
  BY <1>3 DEF Written
<1>7. setter' = Setter(op, setter.x + a * R, setter.y + b * R, value, WordRadix * R)
  BY <1>6 DEF Extended
<1> HIDE DEF a, b, sum, R, value
<1>8. /\ setter'.op = op /\ setter'.x = setter.x + a * R /\ setter'.y = setter.y + b * R
      /\ setter'.value = value /\ setter'.radix = WordRadix * R
  BY <1>7 DEF Setter
<1>9. QED
  BY <1>5, <1>8, Zenon DEF SetterHolds

\* What sets no flags leaves them as they are.
LEMMA FlagsKept ==
    ASSUME Executing, Outcome, ~SetsFlags
    PROVE  cpu'.apsr = cpu.apsr
  BY DEF Outcome, Falls, Jumps, Ends

LEMMA ExecuteKeepsSetter ==
    ASSUME IInv, SetterHolds, Execute, setter' = SetterAfter
    PROVE  SetterHolds'
<1>1. Executing /\ Outcome /\ Proper(cpu) /\ Proper(cpu')
  <2>1. Executing /\ Outcome
    BY IInvExecuting, ExecuteOutcome DEF Execute
  <2>2. QED
    BY <2>1 DEF Outcome, Executing
<1>2. CASE ~SetsFlags
  <2>1. setter' = setter /\ cpu'.apsr = cpu.apsr
    BY <1>1, <1>2, FlagsKept DEF SetterAfter
  <2>2. QED
    BY <2>1 DEF SetterHolds
<1>3. CASE setter' = Unknown
  BY <1>3 DEF SetterHolds, Unknown, Setter
<1>4. ASSUME SetsFlags, Followed, case.op \in CountingOps
      PROVE  /\ Read("n") \in Word /\ Operand \in Word
             /\ \E result :
                  /\ Sums(result)
                  /\ Taken(cpu'.apsr, result)
                  /\ class \notin ComparingClasses => ReadRegister(cpu', Arg("d")) = result.value
  <2>1. Handled /\ class \in ComputingClasses \cup ComparingClasses
    BY <1>4 DEF SetsFlags
  <2>2. PICK host \in Hosts :
          /\ Taken(cpu'.apsr, Calculated(host))
          /\ class \notin ComparingClasses => ReadRegister(cpu', Arg("d")) = Calculated(host).value
    BY <1>1, <1>4, FlagsTaken
  <2>3. Sums(Calculated(host)) /\ Read("n") \in Word /\ Operand \in Word
    BY <1>1, <1>4, <2>1, SumsCalculated
  <2>4. QED
    BY <2>2, <2>3
<1>5. CASE SetsFlags /\ Followed /\ case.op \in AddOps
  <2>1. setter' = First("add", Read("n"), Operand)
    BY <1>5, SMT DEF SetterAfter, AddOps, SubOps, RsbOps, AdcOps, SbcOps
  <2>2. case.op \in CountingOps
    BY <1>5 DEF CountingOps
  <2>3. Addend("add", Operand) = Operand /\ ("add" = "sub") = FALSE
    BY DEF Addend
  <2>4. QED
    BY <1>1, <1>4, <1>5, <2>1, <2>2, <2>3, FirstHolds DEF Sums
<1>6. CASE SetsFlags /\ Followed /\ case.op \in SubOps
  <2>1. setter' = First("sub", Read("n"), Operand)
    BY <1>6, SMT DEF SetterAfter, AddOps, SubOps, RsbOps, AdcOps, SbcOps
  <2>2. case.op \in CountingOps
    BY <1>6 DEF CountingOps
  <2>3. Addend("sub", Operand) = Not(Operand) /\ ("sub" = "sub") = TRUE
    BY DEF Addend
  <2>4. QED
    BY <1>1, <1>4, <1>6, <2>1, <2>2, <2>3, FirstHolds DEF Sums
<1>7. CASE SetsFlags /\ Followed /\ case.op \in RsbOps
  <2>1. setter' = First("sub", Operand, Read("n"))
    BY <1>7, SMT DEF SetterAfter, AddOps, SubOps, RsbOps, AdcOps, SbcOps
  <2>2. case.op \in CountingOps
    BY <1>7 DEF CountingOps
  <2>3. Addend("sub", Read("n")) = Not(Read("n")) /\ ("sub" = "sub") = TRUE
    BY DEF Addend
  <2>4. QED
    <3>1. PICK result :
            /\ result = Sum(Not(Read("n")), Operand, TRUE)
            /\ Taken(cpu'.apsr, result)
            /\ class \notin ComparingClasses => ReadRegister(cpu', Arg("d")) = result.value
      BY <1>4, <1>7, <2>2 DEF Sums
    <3>2. result = Sum(Addend("sub", Read("n")), Operand, "sub" = "sub")
      BY <2>3, <3>1
    <3>3. Read("n") \in Word /\ Operand \in Word /\ "sub" \in {"add", "sub"}
      BY <1>4, <1>7, <2>2
    <3>4. QED
      BY <1>1, <2>1, <3>1, <3>2, <3>3, FirstHolds
<1>8. CASE SetsFlags /\ Followed /\ case.op \in AdcOps /\ setter.op = "add"
  <2>1. setter' = Extended("add")
    BY <1>8, SMT DEF SetterAfter, AddOps, SubOps, RsbOps, AdcOps, SbcOps
  <2>2. case.op \in CountingOps /\ class \notin ComparingClasses
    BY <1>8, CountingClass DEF CountingOps, AdcOps, ComparingClasses, SetsFlags
  <2>3. Addend("add", Operand) = Operand
    BY DEF Addend
  <2>4. QED
    BY <1>1, <1>4, <1>8, <2>1, <2>2, <2>3, ExtendedHolds DEF Sums
<1>9. CASE SetsFlags /\ Followed /\ case.op \in SbcOps /\ setter.op = "sub"
  <2>1. setter' = Extended("sub")
    BY <1>9, SMT DEF SetterAfter, AddOps, SubOps, RsbOps, AdcOps, SbcOps
  <2>2. case.op \in CountingOps /\ class \notin ComparingClasses
    BY <1>9, CountingClass DEF CountingOps, SbcOps, ComparingClasses, SetsFlags
  <2>3. Addend("sub", Operand) = Not(Operand)
    BY DEF Addend
  <2>4. QED
    BY <1>1, <1>4, <1>9, <2>1, <2>2, <2>3, ExtendedHolds DEF Sums
<1>10. \/ ~SetsFlags
       \/ SetsFlags /\ Followed /\ case.op \in AddOps
       \/ SetsFlags /\ Followed /\ case.op \in SubOps
       \/ SetsFlags /\ Followed /\ case.op \in RsbOps
       \/ SetsFlags /\ Followed /\ case.op \in AdcOps /\ setter.op = "add"
       \/ SetsFlags /\ Followed /\ case.op \in SbcOps /\ setter.op = "sub"
       \/ setter' = Unknown
  BY DEF SetterAfter
<1>11. QED
  BY <1>2, <1>3, <1>5, <1>6, <1>7, <1>8, <1>9, <1>10

\* The flags are those of what the history says they were computed from, however many
\* words that has: the invariant behind the next two theorems.
THEOREM SetterInvariant == ProgramSpec => [](IInv /\ SetterHolds)
<1>1. ProgramInit => SetterHolds
  BY DEF ProgramInit, SetterHolds, Unknown, Setter
<1>2. IInv /\ SetterHolds /\ [ProgramNext]_programVars => SetterHolds'
  <2>1. ASSUME IInv, SetterHolds, ProgramNext PROVE SetterHolds'
    <3>1. CASE Decode /\ UNCHANGED setter
      BY <2>1, <3>1 DEF Decode, Decodes, DecodeFails, SetterHolds
    <3>2. CASE Execute /\ setter' = SetterAfter
      BY <2>1, <3>2, ExecuteKeepsSetter
    <3>3. QED
      BY <2>1, <3>1, <3>2 DEF ProgramNext
  <2>2. ASSUME SetterHolds, UNCHANGED programVars PROVE SetterHolds'
    BY <2>2 DEF programVars, vars, SetterHolds
  <2>3. QED
    BY <2>1, <2>2
<1>3. QED
  BY <1>1, <1>2, IInvInit, IInvNext, PTL DEF ProgramSpec

LEMMA RelationIsTruth ==
    ASSUME NEW R \in Int, NEW cond \in RelationsOf(R), NEW x \in Int, NEW y \in Int
    PROVE  Relation(cond, x, y, R) \in BOOLEAN
<1>1. cond \in {\b0000, \b0001, \b0010, \b0011, \b1000, \b1001, \b1010, \b1011, \b1100, \b1101}
  BY DEF RelationsOf
<1>2. SignedBelow(R, x) \in Int /\ SignedBelow(R, y) \in Int
  BY DEF SignedBelow
<1>3. CASE cond = \b0000
  BY <1>2, <1>3 DEF Relation
<1>4. CASE cond = \b0001
  BY <1>2, <1>4 DEF Relation
<1>5. CASE cond = \b0010
  BY <1>2, <1>5 DEF Relation
<1>6. CASE cond = \b0011
  BY <1>2, <1>6 DEF Relation
<1>7. CASE cond = \b1000
  BY <1>2, <1>7 DEF Relation
<1>8. CASE cond = \b1001
  BY <1>2, <1>8 DEF Relation
<1>9. CASE cond = \b1010
  BY <1>2, <1>9 DEF Relation
<1>10. CASE cond = \b1011
  BY <1>2, <1>10 DEF Relation
<1>11. CASE cond = \b1100
  BY <1>2, <1>11 DEF Relation
<1>12. CASE cond = \b1101
  BY <1>2, <1>12 DEF Relation
<1>13. QED
  BY <1>1, <1>3, <1>4, <1>5, <1>6, <1>7, <1>8, <1>9, <1>10, <1>11, <1>12

\* A condition passes exactly when the relation it is named for holds between the numbers
\* last compared or subtracted, unsigned and signed, over as many words as SBCS has carried
\* the difference through, whatever was executed since (if_then_ops.h:178, alu.h:34).
THEOREM CompareDecidesCorrect == ProgramSpec => []CompareDecides
<1>1. ASSUME IInv, SetterHolds PROVE CompareDecides
  <2>1. SUFFICES ASSUME setter.op = "sub", NEW cond \in RelationsOf(setter.radix)
                 PROVE  ConditionPassed(cpu.apsr, cond) = Relation(cond, setter.x, setter.y, setter.radix)
    BY Zenon DEF CompareDecides
  <2>2. Counted("sub", setter.x, setter.y, setter.value, setter.radix, cpu.apsr)
    BY <1>1, <2>1 DEF SetterHolds
  <2>3. Flags(cpu.apsr)
    BY <1>1, FlagsOf DEF IInv, InstrTypeOK, Proper
  <2>4. ConditionPassed(cpu.apsr, cond) <=> Relation(cond, setter.x, setter.y, setter.radix)
    BY <2>2, <2>3, RelationDecided
  <2>5. ConditionPassed(cpu.apsr, cond) \in BOOLEAN
    BY <2>3 DEF ConditionPassed, Flags
  <2>6. Relation(cond, setter.x, setter.y, setter.radix) \in BOOLEAN
    <3>1. /\ setter.radix \in Int /\ setter.radix > 0
          /\ setter.x \in 0 .. setter.radix - 1 /\ setter.y \in 0 .. setter.radix - 1
      BY <2>2, <2>3, CountedDifference
    <3>2. QED
      BY <2>1, <3>1, RelationIsTruth
  <2>7. QED
    BY <2>4, <2>5, <2>6
<1>2. QED
  BY <1>1, SetterInvariant, PTL

\* ADDS and ADCS, or SUBS and SBCS, compute the sum or the difference of numbers of any
\* number of words, the carry of the whole in C and its signed overflow in V (alu.h:34).
THEOREM CarryChainsCorrect == ProgramSpec => []CarryChains
<1>1. ASSUME IInv, SetterHolds PROVE CarryChains
  <2>1. Flags(cpu.apsr) /\ cpu.apsr.c \in BOOLEAN /\ cpu.apsr.v \in BOOLEAN
    BY <1>1, FlagsOf DEF IInv, InstrTypeOK, Proper, Flags
  <2> DEFINE R == setter.radix
             x == setter.x
             y == setter.y
  <2>2. CASE setter.op = "unknown"
    BY <2>2 DEF CarryChains
  <2>3. CASE setter.op = "add"
    <3>1. Counted("add", x, y, setter.value, R, cpu.apsr)
      BY <1>1, <2>3 DEF SetterHolds
    <3>2. /\ setter.value = (x + y) % R
          /\ cpu.apsr.c <=> x + y >= R
          /\ cpu.apsr.v <=> \/ 2 * (SignedBelow(R, x) + SignedBelow(R, y)) >= R
                            \/ 2 * (SignedBelow(R, x) + SignedBelow(R, y)) < -R
      BY <2>1, <3>1, CountedSum
    <3>3. cpu.apsr.c = (x + y >= R)
      BY <2>1, <3>2
    <3>4. cpu.apsr.v = (\/ 2 * (SignedBelow(R, x) + SignedBelow(R, y)) >= R
                        \/ 2 * (SignedBelow(R, x) + SignedBelow(R, y)) < -R)
      BY <2>1, <3>2
    <3>5. QED
      BY <2>3, <3>2, <3>3, <3>4 DEF CarryChains
  <2>4. CASE setter.op = "sub"
    <3>1. Counted("sub", x, y, setter.value, R, cpu.apsr)
      BY <1>1, <2>4 DEF SetterHolds
    <3>2. /\ R \in Int /\ R > 0 /\ x \in 0 .. R - 1 /\ y \in 0 .. R - 1 /\ setter.value \in 0 .. R - 1
          /\ setter.value = IF x >= y THEN x - y ELSE x - y + R
          /\ cpu.apsr.c <=> x >= y
          /\ cpu.apsr.v <=> \/ 2 * (SignedBelow(R, x) - SignedBelow(R, y)) >= R
                            \/ 2 * (SignedBelow(R, x) - SignedBelow(R, y)) < -R
      BY <2>1, <3>1, CountedDifference
    <3>3. setter.value = (x - y) % R
      BY <3>2, DifferenceRemainder
    <3>4. cpu.apsr.c = (x - y >= 0)
      BY <2>1, <3>2
    <3>5. cpu.apsr.v = (\/ 2 * (SignedBelow(R, x) - SignedBelow(R, y)) >= R
                        \/ 2 * (SignedBelow(R, x) - SignedBelow(R, y)) < -R)
      BY <2>1, <3>2
    <3>6. QED
      BY <2>4, <3>3, <3>4, <3>5 DEF CarryChains
  <2>5. QED
    BY <1>1, <2>2, <2>3, <2>4 DEF SetterHolds, Counted
<1>2. QED
  BY <1>1, SetterInvariant, PTL
==============================================================================
