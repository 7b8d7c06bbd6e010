--------------------------- MODULE ArithmeticFacts ---------------------------
(***************************************************************************)
(* Facts about numbers that the proofs about several components rest on:   *)
(* least and greatest elements, induction, and arithmetic modulo a number  *)
(* that is a parameter, which the provers do not know.                     *)
(***************************************************************************)
EXTENDS Integers, WellFoundedInduction, TLAPS

------------------------------------------------------------------------------
(* Order and induction *)

\* Every set of naturals has a least element, and every bounded one a greatest.
LEMMA LeastElement ==
  ASSUME NEW T \in SUBSET Nat, T # {}
  PROVE  \E x \in T : \A y \in T : x <= y
<1> DEFINE R == OpToRel(<, Nat)
<1>1. IsWellFoundedOn(R, Nat)
  BY NatLessThanWellFounded
<1>2. \A x, y \in Nat : y < x => <<y, x>> \in R
  BY DEF OpToRel
<1> HIDE DEF R
<1>3. PICK x \in T : \A y \in T : ~(<<y, x>> \in R)
  BY <1>1, WFMin
<1>4. \A y \in T : y \in Nat
  OBVIOUS
<1>5. \A y \in T : ~(y < x)
  BY <1>2, <1>3, <1>4, Zenon
<1>6. \A y \in T : x <= y
  BY <1>4, <1>5
<1> QED BY <1>6

LEMMA GreatestElement ==
  ASSUME NEW n \in Int, NEW T \in SUBSET (0 .. n), T # {}
  PROVE  \E x \in T : \A y \in T : y <= x
<1> DEFINE D == {n - x : x \in T}
<1>1. \A x \in T : x \in Int /\ 0 <= x /\ x <= n
  OBVIOUS
<1>2. \A y \in T : n - y \in D
  OBVIOUS
<1>3. D \in SUBSET Nat /\ D # {}
  <2>1. \A d \in D : d \in Nat
    BY <1>1
  <2> HIDE DEF D
  <2> QED BY <1>2, <2>1
<1>4. PICK d \in D : \A e \in D : d <= e
  BY <1>3, LeastElement
<1>5. PICK x \in T : d = n - x
  OBVIOUS
<1> HIDE DEF D
<1>6. \A y \in T : y <= x
  BY <1>1, <1>2, <1>4, <1>5
<1> QED BY <1>6

\* Induction over the numbers of a set.
LEMMA SetInduction ==
  ASSUME NEW T, 0 \in T, \A n \in Nat : n \in T => n + 1 \in T
  PROVE  \A n \in Nat : n \in T
<1> DEFINE D == Nat \ T
<1>1. SUFFICES ASSUME D # {} PROVE FALSE
  OBVIOUS
<1>2. PICK x \in D : \A y \in D : x <= y
  BY <1>1, LeastElement
<1>3. x # 0 /\ x - 1 \in Nat /\ x - 1 \notin D
  BY <1>2
<1> QED BY <1>2, <1>3

------------------------------------------------------------------------------
(* Quotient and remainder *)

LEMMA DivMod ==
  ASSUME NEW W \in Int, W > 0, NEW a \in Int
  PROVE  \E q \in Int : \E r \in 0 .. W - 1 : r = a % W /\ a = W * q + r
<1> DEFINE q == a \div W
           r == a % W
<1>1. r = a - W * q
  OBVIOUS
<1>2. q \in Int
  OBVIOUS
<1>3. r \in 0 .. W - 1
  OBVIOUS
<1>4. r = a % W
  OBVIOUS
<1> HIDE DEF q, r
<1>5. a = W * q + r
  BY <1>1, <1>2
<1> QED BY <1>2, <1>3, <1>4, <1>5, Zenon

\* A multiple of W between -W and W is zero.
LEMMA SmallMultiple ==
  ASSUME NEW W \in Int, W > 0, NEW d \in Int, W * d < W, -W < W * d
  PROVE  d = 0
<1>1. SUFFICES ASSUME d # 0 PROVE FALSE
  OBVIOUS
<1>2. d >= 1 \/ d <= -1
  BY <1>1
<1>3. W * d >= W \/ W * d <= -W
  BY <1>2
<1> QED BY <1>3

LEMMA RemainderUnique ==
  ASSUME NEW W \in Int, W > 0, NEW q \in Int, NEW r \in 0 .. W - 1
  PROVE  (W * q + r) % W = r
<1> DEFINE x == W * q + r
<1>1. x \in Int
  OBVIOUS
<1> HIDE DEF x
<1>2. PICK q2 \in Int, r2 \in 0 .. W - 1 : r2 = x % W /\ x = W * q2 + r2
  BY <1>1, DivMod
<1>3. W * (q - q2) = r2 - r
  BY <1>2 DEF x
<1>4. q - q2 = 0
  BY <1>3, SmallMultiple
<1>5. r2 = r
  BY <1>3, <1>4
<1> QED BY <1>2, <1>5 DEF x

\* Numbers of a window of W are told apart by their remainders.
LEMMA SameRemainder ==
  ASSUME NEW W \in Int, W > 0, NEW a \in Int, NEW b \in Int,
         a % W = b % W, a - b < W, b - a < W
  PROVE  a = b
<1>1. PICK p \in Int, r \in 0 .. W - 1 : r = a % W /\ a = W * p + r
  BY DivMod
<1>2. PICK q \in Int, s \in 0 .. W - 1 : s = b % W /\ b = W * q + s
  BY DivMod
<1>3. r = s
  BY <1>1, <1>2
<1>4. a - b = W * (p - q)
  BY <1>1, <1>2, <1>3
<1>5. p - q = 0
  BY <1>4, SmallMultiple
<1> QED BY <1>4, <1>5

LEMMA RemainderAdd ==
  ASSUME NEW W \in Int, W > 0, NEW a \in Int, NEW k \in Int
  PROVE  ((a % W) + k) % W = (a + k) % W
<1>1. PICK q \in Int, s \in 0 .. W - 1 : s = a % W /\ a = W * q + s
  BY DivMod
<1>2. PICK p \in Int, r \in 0 .. W - 1 : r = (s + k) % W /\ s + k = W * p + r
  BY DivMod
<1>3. a + k = W * (q + p) + r
  BY <1>1, <1>2
<1>4. (W * (q + p) + r) % W = r
  BY RemainderUnique
<1> QED BY <1>1, <1>2, <1>3, <1>4

LEMMA RemainderWrap ==
  ASSUME NEW W \in Int, W > 0, NEW a \in Int
  PROVE  (a + W) % W = a % W
<1>1. PICK q \in Int, s \in 0 .. W - 1 : s = a % W /\ a = W * q + s
  BY DivMod
<1>2. a + W = W * (q + 1) + s
  BY <1>1
<1>3. (W * (q + 1) + s) % W = s
  BY RemainderUnique
<1> QED BY <1>1, <1>2, <1>3

\* Products with a number that is not negative keep the order.
LEMMA ProductOrder ==
    ASSUME NEW a \in Int, NEW b \in Int, NEW R \in Nat, a <= b
    PROVE  a * R <= b * R
<1>1. (b - a) * R >= 0
  OBVIOUS
<1>2. (b - a) * R = b * R - a * R
  OBVIOUS
<1>3. a * R \in Int /\ b * R \in Int
  OBVIOUS
<1>4. QED
  BY <1>1, <1>2, <1>3

\* The remainder of a difference of numbers below R.
LEMMA DifferenceRemainder ==
    ASSUME NEW R \in Int, R > 0, NEW x \in 0 .. R - 1, NEW y \in 0 .. R - 1
    PROVE  (x - y) % R = IF x >= y THEN x - y ELSE x - y + R
<1>1. x \in Int /\ y \in Int
  OBVIOUS
<1>2. CASE x >= y
  <2>1. x - y \in 0 .. R - 1 /\ R * 0 + (x - y) = x - y
    BY <1>2
  <2>2. (R * 0 + (x - y)) % R = x - y
    BY <2>1, RemainderUnique
  <2>3. QED
    BY <1>2, <2>1, <2>2
<1>3. CASE ~(x >= y)
  <2>1. x - y + R \in 0 .. R - 1 /\ R * (-1) + (x - y + R) = x - y
    BY <1>1, <1>3
  <2>2. (R * (-1) + (x - y + R)) % R = x - y + R
    BY <2>1, RemainderUnique
  <2>3. QED
    BY <1>3, <2>1, <2>2
<1>4. QED
  BY <1>2, <1>3
=============================================================================
