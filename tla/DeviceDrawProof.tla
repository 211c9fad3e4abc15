-------------------------- MODULE DeviceDrawProof --------------------------
(***************************************************************************)
(* The device's integers, its doubles and its draws.                       *)
(*                                                                         *)
(* The device's pairs of words compute what the host computes in u64, for  *)
(* every width: no carry is lost in mul32, u64_add, u64_mul and u64_shr    *)
(* are the operations on numbers below WORD * WORD, and so every draw is   *)
(* keyed on the device as it is on the host.                               *)
(*                                                                         *)
(* f64_mul is correctly rounded, for every width of word and mantissa: of  *)
(* two normal numbers it returns the number nearest to their product, the  *)
(* even one of two, as binary64 multiplication does, whenever the exponent *)
(* of the result is in range.  The limbs are the product of the            *)
(* significands (LimbsExact); the binade test and the bits kept are those  *)
(* of a quotient of it (TopBit, KeptIsQuotient); guard and sticky compare  *)
(* the remainder with half the divisor (GuardAndSticky), so that the       *)
(* rounding is to the nearest (RoundingIsNearest).                         *)
(*                                                                         *)
(* The keystream reader of a draw, for every block length, alphabet and    *)
(* sequence of rejections: the words it takes are consecutive from the     *)
(* first, of the keystream the host reads.  The reader caches one block.   *)
(* The invariant says what the cache holds: once loaded, entry j is word   *)
(* block_index * BLOCK + j.  That is what makes a hit of the cache right,  *)
(* and a miss replaces the whole of it.                                    *)
(*                                                                         *)
(* The values: labels are drawn uniformly (LabelsUniform), the end of the  *)
(* interval is walked down at most once (WalksOnce, from OneStepDown: a    *)
(* quotient is rounded by less than one step), and every number is a       *)
(* pattern and every label in the alphabet (TypeCorrect).                  *)
(*                                                                         *)
(* And so the draw is the host's (DrawIsHosts): with normal factors and a  *)
(* result in range, f64_mul is the host's product and f64_from_scaled_int  *)
(* its conversion (F64MulIsHostProduct, ScaledIsHostScaled); the samples   *)
(* and the scale are such factors (UnitSample, ScaleIsNormal); the scale   *)
(* walked down to is the host's (ScaleIsHosts), and so is a rejection      *)
(* (RangeIsHosts).  No intensity exceeds the end of the interval           *)
(* (EndIsRespected), because rounding keeps the order (SmallerSample).     *)
(***************************************************************************)
EXTENDS DeviceDraw, FiniteSetTheorems, WellFoundedInduction, TLAPS

-----------------------------------------------------------------------------
(* Products, quotients and remainders.                                     *)

\* Euclidean division.
LEMMA Division ==
    ASSUME NEW a \in Nat, NEW b \in Nat \ {0}
    PROVE  /\ a \div b \in Nat /\ a % b \in 0 .. b - 1
           /\ a = b * (a \div b) + (a % b)
  OBVIOUS

\* Multiplying by a natural number keeps the order.
LEMMA Monotone ==
    ASSUME NEW a \in Int, NEW b \in Int, NEW c \in Nat, a <= b
    PROVE  a * c <= b * c
  OBVIOUS

\* A positive factor cancels from a strict inequality.
LEMMA CancelFactor ==
    ASSUME NEW a \in Int, NEW b \in Int, NEW c \in Nat \ {0}, a * c < b * c
    PROVE  a < b
  OBVIOUS

\* A mixed-radix representation is unique.
LEMMA Digits ==
    ASSUME NEW a \in Nat, NEW b \in Nat, NEW c \in Nat \ {0},
           NEW x \in 0 .. c - 1, NEW y \in 0 .. c - 1, a * c + x = b * c + y
    PROVE  a = b /\ x = y
  OBVIOUS

\* Multiplication distributes over addition.
LEMMA Distribute ==
    ASSUME NEW a \in Int, NEW b \in Int, NEW c \in Int
    PROVE  (a + b) * c = a * c + b * c /\ c * (a + b) = c * a + c * b
  OBVIOUS

\* A product of natural numbers is one, in either order and grouping.
LEMMA Products ==
    ASSUME NEW a \in Int, NEW b \in Int, NEW c \in Int
    PROVE  /\ a * b \in Int /\ a * b = b * a
           /\ (a * b) * c = a * (b * c) /\ (a * b) * c = (a * c) * b
           /\ a \in Nat /\ b \in Nat => a * b \in Nat
  OBVIOUS

\* What is written as a multiple plus a remainder is divided.
LEMMA QuotientRemainder ==
    ASSUME NEW q \in Nat, NEW c \in Nat \ {0}, NEW r \in 0 .. c - 1
    PROVE  (q * c + r) \div c = q /\ (q * c + r) % c = r
<1> DEFINE x == q * c + r
<1>1. x \in Nat /\ c * (x \div c) = (x \div c) * c
  BY Division, Products
<1>2. x \div c \in Nat /\ x % c \in 0 .. c - 1 /\ x = (x \div c) * c + (x % c)
  BY <1>1, Division
<1> QED
  BY <1>2, Digits

\* A multiple of the modulus does not change a remainder.
LEMMA AddMultiple ==
    ASSUME NEW x \in Nat, NEW q \in Nat, NEW c \in Nat \ {0}
    PROVE  (q * c + x) % c = x % c
<1> DEFINE d == x \div c
           r == x % c
<1>1. d \in Nat /\ r \in 0 .. c - 1 /\ x = c * d + r
  BY Division
<1> HIDE DEF d, r
<1>2. q * c + x = (q + d) * c + r
  BY <1>1, Distribute, Products
<1>3. q + d \in Nat
  BY <1>1
<1>4. ((q + d) * c + r) % c = r
  BY <1>1, <1>3, QuotientRemainder
<1> QED
  BY <1>2, <1>4 DEF r

\* A remainder may be taken before an addition.
LEMMA AddRemainder ==
    ASSUME NEW x \in Nat, NEW y \in Nat, NEW c \in Nat \ {0}
    PROVE  ((x % c) + y) % c = (x + y) % c
<1> DEFINE d == x \div c
           r == x % c
<1>1. d \in Nat /\ r \in 0 .. c - 1 /\ x = c * d + r
  BY Division
<1> HIDE DEF d, r
<1>2. x + y = d * c + (r + y) /\ r + y \in Nat
  BY <1>1, Products
<1>3. (d * c + (r + y)) % c = (r + y) % c
  BY <1>1, <1>2, AddMultiple
<1> QED
  BY <1>2, <1>3 DEF r

\* A remainder below the modulus is the number.
LEMMA SmallRemainder ==
    ASSUME NEW c \in Nat \ {0}, NEW x \in 0 .. c - 1
    PROVE  x % c = x /\ x \div c = 0
<1>1. 0 * c + x = x /\ 0 \in Nat
  OBVIOUS
<1>2. (0 * c + x) \div c = 0 /\ (0 * c + x) % c = x
  BY <1>1, QuotientRemainder
<1> QED
  BY <1>1, <1>2

\* The product of two digits leaves room for another digit.
LEMMA DigitProduct ==
    ASSUME NEW c \in Nat \ {0}, NEW x \in 0 .. c - 1, NEW y \in 0 .. c - 1
    PROVE  x * y \in Nat /\ x * y + 2 * c - 1 <= c * c
<1>1. x * y <= (c - 1) * y
  <2>1. x <= c - 1 /\ x \in Int /\ c - 1 \in Int /\ y \in Nat
    OBVIOUS
  <2> QED
    BY <2>1, Monotone
<1>2. (c - 1) * y <= (c - 1) * (c - 1)
  <2>1. y <= c - 1 /\ y \in Int /\ c - 1 \in Nat
    OBVIOUS
  <2>2. y * (c - 1) <= (c - 1) * (c - 1)
    BY <2>1, Monotone
  <2> QED
    BY <2>1, <2>2, Products
<1>3. (c - 1) * (c - 1) = c * c - 2 * c + 1
  OBVIOUS
<1>4. x * y \in Nat /\ (c - 1) * y \in Nat /\ c * c \in Nat
  BY Products
<1> QED
  BY <1>1, <1>2, <1>3, <1>4

\* Two digits make a number below the square of the base.
LEMMA TwoDigits ==
    ASSUME NEW c \in Nat \ {0}, NEW x \in 0 .. c - 1, NEW y \in 0 .. c - 1
    PROVE  x * c + y \in 0 .. c * c - 1
<1>1. x * c <= (c - 1) * c
  <2>1. x <= c - 1 /\ x \in Int /\ c - 1 \in Int /\ c \in Nat
    OBVIOUS
  <2> QED
    BY <2>1, Monotone
<1>2. (c - 1) * c = c * c - c
  OBVIOUS
<1>3. x * c \in Nat /\ c * c \in Nat
  BY Products
<1> QED
  BY <1>1, <1>2, <1>3

-----------------------------------------------------------------------------
(* Least numbers.                                                          *)

\* A nonempty set of natural numbers has a least element.
LEMMA Least ==
    ASSUME NEW T \in SUBSET Nat, T # {}
    PROVE  \E m \in T : \A j \in T : m <= j
<1>1. \E m \in T : \A j \in T : ~ (<<j, m>> \in OpToRel(<, Nat))
  BY NatLessThanWellFounded, WFMin, Zenon
<1>2. PICK m \in T : \A j \in T : ~ (<<j, m>> \in OpToRel(<, Nat))
  BY <1>1
<1>3. \A j \in T : ~(j < m)
  BY <1>2 DEF OpToRel
<1> QED
  BY <1>3

-----------------------------------------------------------------------------
(* Powers of two.                                                          *)

\* A power of two is the number of subsets of a set of that size.
LEMMA PowerCounts ==
    ASSUME NEW m \in Nat
    PROVE  /\ IsFiniteSet(SUBSET (1 .. m))
           /\ Cardinality(SUBSET (1 .. m)) = 2 ^ m
<1>1. IsFiniteSet(1 .. m) /\ Cardinality(1 .. m) = m
  BY FS_Interval
<1> QED
  BY <1>1, FS_SUBSET

\* So each is twice the one before: the subsets with the new element and those
\* without it.
LEMMA PowerDoubles ==
    ASSUME NEW m \in Nat
    PROVE  2 ^ m \in Nat \ {0} /\ 2 ^ (m + 1) = 2 * 2 ^ m
<1> DEFINE S == SUBSET (1 .. m)
           T == SUBSET (1 .. m + 1)
           V == {A \cup {m + 1} : A \in S}
           f == [A \in S |-> A \cup {m + 1}]
<1>1. /\ IsFiniteSet(S) /\ Cardinality(S) = 2 ^ m
      /\ IsFiniteSet(T) /\ Cardinality(T) = 2 ^ (m + 1)
  BY PowerCounts
<1>2. m + 1 \notin 1 .. m
  OBVIOUS
<1>3. f \in Bijection(S, V)
  <2>1. \A A, B \in S : A \cup {m + 1} = B \cup {m + 1} => A = B
    BY <1>2
  <2>2. \A A \in S : f[A] = A \cup {m + 1}
    BY Zenon
  <2>3. f \in [S -> V]
    BY Zenon
  <2>4. \A A, B \in S : f[A] = f[B] => A = B
    <3> HIDE DEF f, S
    <3> QED
      BY <2>1, <2>2
  <2>5. \A C \in V : \E A \in S : f[A] = C
    <3> HIDE DEF f, S
    <3> QED
      BY <2>2
  <2> HIDE DEF f, S, V
  <2> QED
    BY <2>3, <2>4, <2>5 DEF Bijection, Injection, Surjection, IsInjective
<1>4. IsFiniteSet(V) /\ Cardinality(V) = Cardinality(S)
  <2> HIDE DEF f, S, V
  <2>1. ExistsBijection(S, V)
    BY <1>3 DEF ExistsBijection
  <2> QED
    BY <1>1, <2>1, FS_Bijection
<1>5. T = S \cup V
  <2>1. ASSUME NEW A \in T PROVE A \in S \cup V
    <3>1. CASE m + 1 \in A
      <4>1. A \ {m + 1} \in S /\ A = (A \ {m + 1}) \cup {m + 1}
        BY <3>1
      <4> QED
        BY <4>1
    <3>2. CASE m + 1 \notin A
      BY <3>2
    <3> QED
      BY <3>1, <3>2
  <2>2. ASSUME NEW A \in S \cup V PROVE A \in T
    OBVIOUS
  <2> QED
    BY <2>1, <2>2
<1>6. S \cap V = {}
  BY <1>2
<1>7. Cardinality(S \cup V) = Cardinality(S) + Cardinality(V) - Cardinality(S \cap V)
  <2> HIDE DEF S, V
  <2> QED
    BY <1>1, <1>4, FS_Union
<1>8. Cardinality(S \cap V) = 0
  BY <1>6, FS_EmptySet
<1>9. Cardinality(S) \in Nat /\ Cardinality(S) # 0
  <2>1. {} \in S
    OBVIOUS
  <2> HIDE DEF S
  <2> QED
    BY <1>1, <2>1, FS_CardinalityType, FS_EmptySet
<1> HIDE DEF S, T, V
<1> QED
  BY <1>1, <1>4, <1>5, <1>7, <1>8, <1>9

\* Powers of two add up in the exponent.
LEMMA PowersMultiply ==
    ASSUME NEW a \in Nat, NEW b \in Nat
    PROVE  2 ^ (a + b) = 2 ^ a * 2 ^ b
<1> DEFINE T == {j \in Nat : 2 ^ (a + j) # 2 ^ a * 2 ^ j}
<1>1. ASSUME T # {} PROVE FALSE
  <2>1. PICK j \in T : \A i \in T : j <= i
    BY <1>1, Least
  <2>2. j \in Nat /\ 2 ^ (a + j) # 2 ^ a * 2 ^ j
    BY <2>1
  <2>3. j # 0
    <3>1. 2 ^ 0 = 1 /\ a + 0 = a /\ 2 ^ a \in Nat
      BY PowerDoubles
    <3>2. 2 ^ a * 1 = 2 ^ a
      BY <3>1
    <3> QED
      BY <2>2, <3>1, <3>2
  <2>4. j - 1 \in Nat /\ j - 1 \notin T
    BY <2>1, <2>2, <2>3
  <2> DEFINE i == j - 1
  <2>5. i \in Nat /\ j = i + 1 /\ a + j = (a + i) + 1 /\ a + i \in Nat
    BY <2>4, <2>2
  <2>6. 2 ^ (a + i) = 2 ^ a * 2 ^ i
    BY <2>4
  <2> HIDE DEF i
  <2>7. /\ 2 ^ (a + j) = 2 * 2 ^ (a + i) /\ 2 ^ j = 2 * 2 ^ i
        /\ 2 ^ i \in Nat /\ 2 ^ a \in Nat
    BY <2>5, PowerDoubles
  <2>8. 2 * (2 ^ a * 2 ^ i) = 2 ^ a * (2 * 2 ^ i)
    BY <2>7, Products
  <2> QED
    BY <2>2, <2>6, <2>7, <2>8
<1> QED
  BY <1>1

\* A larger exponent is a larger power.
LEMMA PowersOrdered ==
    ASSUME NEW a \in Nat, NEW b \in Nat, a <= b
    PROVE  2 ^ a <= 2 ^ b /\ 2 ^ a \in Nat \ {0} /\ 2 ^ b \in Nat \ {0}
<1> DEFINE x == 2 ^ a
           y == 2 ^ (b - a)
<1>1. b - a \in Nat /\ b = a + (b - a)
  OBVIOUS
<1>2. x \in Nat \ {0} /\ y \in Nat \ {0} /\ 2 ^ b \in Nat \ {0}
  BY <1>1, PowerDoubles
<1>3. 2 ^ b = x * y
  BY <1>1, PowersMultiply
<1> HIDE DEF x, y
<1>4. 1 * x <= y * x
  BY <1>2, Monotone
<1> QED
  BY <1>2, <1>3, <1>4, Products DEF x

\* The place of the leading one of a number below a power of two.
LEMMA LeadingOne ==
    ASSUME NEW x \in Nat \ {0}, NEW m \in Nat, x < 2 ^ m
    PROVE  \E p \in 0 .. m - 1 : 2 ^ p <= x /\ x < 2 ^ (p + 1)
<1> DEFINE T == {j \in Nat : x < 2 ^ j}
<1>1. PICK j \in T : \A i \in T : j <= i
  <2>1. T \in SUBSET Nat /\ T # {}
    OBVIOUS
  <2> HIDE DEF T
  <2> QED
    BY <2>1, Least
<1>2. j \in Nat /\ x < 2 ^ j /\ j <= m
  BY <1>1
<1>3. j # 0
  <2>1. 2 ^ 0 = 1
    OBVIOUS
  <2>2. ~(x < 1)
    OBVIOUS
  <2> HIDE DEF T
  <2>3. j = 0 => x < 1
    BY <1>2, <2>1
  <2> QED
    BY <2>2, <2>3
<1>4. j - 1 \in Nat /\ j - 1 \notin T
  BY <1>1, <1>2, <1>3
<1>5. 2 ^ (j - 1) \in Nat
  BY <1>4, PowerDoubles
<1>6. 2 ^ (j - 1) <= x
  BY <1>4, <1>5
<1>7. (j - 1) + 1 = j /\ j - 1 \in 0 .. m - 1
  BY <1>2, <1>4
<1> QED
  BY <1>2, <1>6, <1>7

\* There is only one such place.
LEMMA LeadingOneUnique ==
    ASSUME NEW x \in Nat, NEW p \in Nat, NEW q \in Nat,
           2 ^ p <= x, x < 2 ^ (p + 1), 2 ^ q <= x, x < 2 ^ (q + 1)
    PROVE  p = q
<1>1. ASSUME NEW a \in Nat, NEW b \in Nat, a < b, x < 2 ^ (a + 1), 2 ^ b <= x PROVE FALSE
  <2>1. a + 1 \in Nat /\ a + 1 <= b
    BY <1>1
  <2>2. 2 ^ (a + 1) <= 2 ^ b /\ 2 ^ (a + 1) \in Nat /\ 2 ^ b \in Nat
    BY <2>1, PowersOrdered
  <2> QED
    BY <1>1, <2>2
<1>2. ~(p < q)
  BY <1>1
<1>3. ~(q < p)
  BY <1>1
<1> QED
  BY <1>2, <1>3

-----------------------------------------------------------------------------
(* Words.                                                                  *)

\* fork_rng, on the numbers the device's constants stand for.
Fork == INSTANCE ForkRng WITH
    GOLDEN <- Number(GOLDEN),
    MULTIPLIER1 <- Number(MULTIPLIER1),
    MULTIPLIER2 <- Number(MULTIPLIER2)

\* A word is a positive base, and the square of the half word.
LEMMA WordFacts ==
    /\ HALF \in Nat \ {0} /\ WORD \in Nat \ {0} /\ WORD = HALF * HALF
    /\ WORD * WORD \in Nat \ {0}
  BY HalfAssumption DEF WORD

\* The halves of a word.
LEMMA Halves ==
    ASSUME NEW a \in Words
    PROVE  /\ a % HALF \in 0 .. HALF - 1 /\ a \div HALF \in 0 .. HALF - 1
           /\ a = (a \div HALF) * HALF + (a % HALF)
<1> DEFINE q == a \div HALF
           r == a % HALF
<1>1. a \in Nat /\ a < HALF * HALF
  BY WordFacts DEF Words
<1>2. q \in Nat /\ r \in 0 .. HALF - 1 /\ a = HALF * q + r
  BY <1>1, WordFacts, Division
<1> HIDE DEF q, r
<1>3. a = q * HALF + r
  BY <1>2, WordFacts, Products
<1>4. q * HALF < HALF * HALF
  BY <1>1, <1>2, <1>3, WordFacts, Products
<1>5. q < HALF
  BY <1>2, <1>4, WordFacts, CancelFactor
<1> QED
  BY <1>2, <1>3, <1>5, WordFacts DEF q, r

\* A right shift by half a word of a word, and of a carry sum.
LEMMA ShiftedHalf ==
    ASSUME NEW x \in Words
    PROVE  Shl32(x, HALF) = (x % HALF) * HALF
<1> DEFINE q == x \div HALF
           r == x % HALF
<1>1. q \in Nat /\ r \in 0 .. HALF - 1 /\ x = q * HALF + r
  BY Halves
<1> HIDE DEF q, r
<1>2. x * HALF = q * WORD + r * HALF
  <2>1. x * HALF = (q * HALF) * HALF + r * HALF
    BY <1>1, WordFacts, Distribute, Products
  <2>2. (q * HALF) * HALF = q * (HALF * HALF)
    BY <1>1, WordFacts, Products
  <2> QED
    BY <2>1, <2>2, WordFacts
<1>3. r * HALF \in 0 .. WORD - 1
  <2>1. r * HALF + 0 \in 0 .. HALF * HALF - 1
    BY <1>1, WordFacts, TwoDigits, 0 \in 0 .. HALF - 1
  <2> QED
    BY <2>1, <1>1, WordFacts, Products
<1>4. (q * WORD + r * HALF) % WORD = r * HALF
  BY <1>1, <1>3, WordFacts, QuotientRemainder
<1> QED
  BY <1>2, <1>4 DEF Shl32, r

\* f64.wgsl: "no intermediate wraps".  Each product of halves, and each carry
\* sum of mul32 but the last, is below WORD before it is reduced.
LEMMA NoIntermediateWraps ==
    ASSUME NEW x \in 0 .. HALF - 1, NEW y \in 0 .. HALF - 1,
           NEW c \in 0 .. HALF - 1
    PROVE  /\ x * y \in Words /\ Mul32(x, y) = x * y
           /\ x * y + c \in Words /\ Add32(Mul32(x, y), c) = x * y + c
<1>1. x * y \in Nat /\ x * y + 2 * HALF - 1 <= WORD
  BY WordFacts, DigitProduct
<1>2. x * y \in 0 .. WORD - 1 /\ x * y + c \in 0 .. WORD - 1
  BY <1>1, WordFacts
<1>3. (x * y) % WORD = x * y /\ (x * y + c) % WORD = x * y + c
  BY <1>2, WordFacts, SmallRemainder
<1> QED
  BY <1>2, <1>3 DEF Mul32, Add32, Words

\* mul32 is exact: the two words it returns are the whole product, whatever
\* the operands (comment at f64.wgsl, "Exact 32x32 -> 64 bit unsigned
\* product").
THEOREM Mul32Exact ==
    ASSUME NEW a \in Words, NEW b \in Words
    PROVE  mul32(a, b) \in U64 /\ Number(mul32(a, b)) = a * b
<1> DEFINE H == HALF
           a0 == a % H
           a1 == a \div H
           b0 == b % H
           b1 == b \div H
           p00 == Mul32(a0, b0)
           mid1 == Add32(Mul32(a1, b0), p00 \div H)
           mid2 == Add32(Mul32(a0, b1), mid1 % H)
           c0 == p00 \div H
           r0 == p00 % H
           c1 == mid1 \div H
           r1 == mid1 % H
           c2 == mid2 \div H
           r2 == mid2 % H
           top == a1 * b1 + c1 + c2
<1>1. /\ H \in Nat \ {0} /\ WORD = H * H /\ WORD \in Nat \ {0}
      /\ a0 \in 0 .. H - 1 /\ a1 \in 0 .. H - 1 /\ a = a1 * H + a0
      /\ b0 \in 0 .. H - 1 /\ b1 \in 0 .. H - 1 /\ b = b1 * H + b0
  BY WordFacts, Halves
<1>2. mul32(a, b) = [lo |-> Shl32(mid2, HALF) + r0,
                     hi |-> Add32(Add32(Mul32(a1, b1), c1), c2)]
  BY DEF mul32
<1>3. /\ p00 = Mul32(a0, b0)
      /\ mid1 = Add32(Mul32(a1, b0), c0) /\ mid2 = Add32(Mul32(a0, b1), r1)
  OBVIOUS
<1> HIDE DEF a0, a1, b0, b1, p00, mid1, mid2
<1>4. p00 \in Words /\ p00 = a0 * b0
  BY <1>1, <1>3, NoIntermediateWraps, 0 \in 0 .. H - 1
<1>5. c0 \in 0 .. H - 1 /\ r0 \in 0 .. H - 1 /\ p00 = c0 * H + r0
  BY <1>4, Halves
<1>6. c1 \in 0 .. H - 1 /\ r1 \in 0 .. H - 1 /\ mid1 = c1 * H + r1
      /\ mid1 = a1 * b0 + c0
  <2> HIDE DEF c0
  <2>1. mid1 \in Words /\ mid1 = a1 * b0 + c0
    BY <1>1, <1>3, <1>5, NoIntermediateWraps
  <2> QED
    BY <2>1, Halves
<1>7. c2 \in 0 .. H - 1 /\ r2 \in 0 .. H - 1 /\ mid2 = c2 * H + r2
      /\ mid2 = a0 * b1 + r1 /\ mid2 \in Words
  <2> HIDE DEF r1
  <2>1. mid2 \in Words /\ mid2 = a0 * b1 + r1
    BY <1>1, <1>3, <1>6, NoIntermediateWraps
  <2> QED
    BY <2>1, Halves
<1> HIDE DEF c0, r0, c1, r1, c2, r2
<1>8. Shl32(mid2, HALF) = r2 * H
  BY <1>7, ShiftedHalf DEF r2
<1>9. mul32(a, b) = [lo |-> r2 * H + r0,
                     hi |-> Add32(Add32(Mul32(a1, b1), c1), c2)]
  BY <1>2, <1>8
<1>10. Mul32(a1, b1) = a1 * b1 /\ Add32(Mul32(a1, b1), c1) = a1 * b1 + c1
  BY <1>1, <1>6, NoIntermediateWraps
<1>11. r2 * H + r0 \in Words
  BY <1>1, <1>5, <1>7, TwoDigits DEF Words
<1>12. a * b = top * WORD + (r2 * H + r0)
  <2>1. a * b = (a1 * b1) * WORD + (a1 * b0) * H + (a0 * b1) * H + a0 * b0
    <3>1. a * b = (a1 * H) * b + a0 * b
      BY <1>1, Distribute, Products
    <3>2. (a1 * H) * b = (a1 * H) * (b1 * H) + (a1 * H) * b0
      BY <1>1, Distribute, Products
    <3>3. a0 * b = a0 * (b1 * H) + a0 * b0
      BY <1>1, Distribute, Products
    <3>4. (a1 * H) * (b1 * H) = (a1 * b1) * WORD
      BY <1>1
    <3>5. (a1 * H) * b0 = (a1 * b0) * H /\ a0 * (b1 * H) = (a0 * b1) * H
      BY <1>1, Products
    <3> QED
      BY <3>1, <3>2, <3>3, <3>4, <3>5, <1>1, Products
  <2>2. (a1 * b0) * H + c0 * H = c1 * WORD + r1 * H
    <3>1. (a1 * b0 + c0) * H = (c1 * H + r1) * H
      BY <1>6
    <3>2. (a1 * b0 + c0) * H = (a1 * b0) * H + c0 * H
      BY <1>1, <1>5, Distribute, Products
    <3>3. (c1 * H + r1) * H = c1 * WORD + r1 * H
      BY <1>1, <1>6, Distribute, Products
    <3> QED
      BY <3>1, <3>2, <3>3
  <2>3. (a0 * b1) * H + r1 * H = c2 * WORD + r2 * H
    <3>1. (a0 * b1 + r1) * H = (c2 * H + r2) * H
      BY <1>7
    <3>2. (a0 * b1 + r1) * H = (a0 * b1) * H + r1 * H
      BY <1>1, <1>6, Distribute, Products
    <3>3. (c2 * H + r2) * H = c2 * WORD + r2 * H
      BY <1>1, <1>7, Distribute, Products
    <3> QED
      BY <3>1, <3>2, <3>3
  <2>4. top * WORD = (a1 * b1) * WORD + c1 * WORD + c2 * WORD
    BY <1>1, <1>6, <1>7, Distribute, Products
  <2>5. /\ (a1 * b1) * WORD \in Int /\ (a1 * b0) * H \in Int
        /\ (a0 * b1) * H \in Int /\ c0 * H \in Int /\ c1 * WORD \in Int
        /\ r1 * H \in Int /\ c2 * WORD \in Int /\ r2 * H \in Int
    BY <1>1, <1>5, <1>6, <1>7
  <2> QED
    BY <2>1, <2>2, <2>3, <2>4, <2>5, <1>4, <1>5
<1>13. top \in Words
  <2>1. a * b + 2 * WORD - 1 <= WORD * WORD
    BY <1>1, DigitProduct DEF Words
  <2>2. top \in Nat
    BY <1>1, <1>6, <1>7, Products
  <2>3. top * WORD < WORD * WORD
    BY <2>1, <2>2, <1>1, <1>11, <1>12, Products DEF Words
  <2>4. top < WORD
    BY <2>2, <2>3, <1>1, CancelFactor
  <2> QED
    BY <2>2, <2>4, <1>1 DEF Words
<1>14. Add32(a1 * b1 + c1, c2) = top
  BY <1>1, <1>13, SmallRemainder DEF Add32, Words
<1>15. mul32(a, b) = [lo |-> r2 * H + r0, hi |-> top]
  BY <1>9, <1>10, <1>14
<1> QED
  BY <1>11, <1>12, <1>13, <1>15 DEF Number, U64

-----------------------------------------------------------------------------
(* Pairs of words.                                                         *)

\* A pair of words is a number below WORD * WORD, and its halves are the words.
LEMMA PairFacts ==
    ASSUME NEW a \in U64
    PROVE  /\ a.lo \in 0 .. WORD - 1 /\ a.hi \in 0 .. WORD - 1
           /\ Number(a) = a.hi * WORD + a.lo
           /\ Number(a) \in 0 .. WORD * WORD - 1
           /\ Number(a) \div WORD = a.hi /\ Number(a) % WORD = a.lo
<1>1. a.lo \in 0 .. WORD - 1 /\ a.hi \in 0 .. WORD - 1
  BY DEF U64, Words
<1>2. a.hi * WORD + a.lo \in 0 .. WORD * WORD - 1
  BY <1>1, WordFacts, TwoDigits
<1>3. a.hi \in Nat
  BY <1>1, WordFacts
<1>4. (a.hi * WORD + a.lo) \div WORD = a.hi /\ (a.hi * WORD + a.lo) % WORD = a.lo
  BY <1>1, <1>3, WordFacts, QuotientRemainder
<1> QED
  BY <1>1, <1>2, <1>4 DEF Number

\* A number whose high part is reduced modulo WORD is reduced modulo
\* WORD * WORD.
LEMMA HighPart ==
    ASSUME NEW x \in Nat, NEW low \in 0 .. WORD - 1
    PROVE  (x * WORD + low) % (WORD * WORD) = (x % WORD) * WORD + low
<1> DEFINE q == x \div WORD
           r == x % WORD
<1>1. q \in Nat /\ r \in 0 .. WORD - 1 /\ x = WORD * q + r
  BY WordFacts, Division
<1> HIDE DEF q, r
<1>2. x * WORD = (WORD * q) * WORD + r * WORD
  BY <1>1, WordFacts, Distribute, Products
<1>3. (WORD * q) * WORD = q * (WORD * WORD)
  BY <1>1, WordFacts, Products
<1>4. r * WORD + low \in 0 .. WORD * WORD - 1
  BY <1>1, WordFacts, TwoDigits
<1>5. (q * (WORD * WORD) + (r * WORD + low)) % (WORD * WORD) = r * WORD + low
  <2> DEFINE d == WORD * WORD
             e == r * WORD + low
  <2>1. d \in Nat \ {0} /\ e \in 0 .. d - 1
    BY <1>4, WordFacts
  <2> HIDE DEF d, e
  <2>2. (q * d + e) % d = e
    BY <1>1, <2>1, QuotientRemainder
  <2> QED
    BY <2>2 DEF d, e
<1>6. r * WORD \in Int /\ q * (WORD * WORD) \in Int
  BY <1>1, WordFacts
<1>7. x * WORD + low = q * (WORD * WORD) + (r * WORD + low)
  BY <1>2, <1>3, <1>6
<1> QED
  BY <1>5, <1>7 DEF r

\* A sum of three numbers, each reduced on the way, is reduced once.
LEMMA ThreeAddends ==
    ASSUME NEW x \in Nat, NEW y \in Nat, NEW z \in Nat
    PROVE  Add32(Add32(x, y), z) = (x + y + z) % WORD
<1>1. x + y \in Nat
  OBVIOUS
<1>2. (((x + y) % WORD) + z) % WORD = ((x + y) + z) % WORD
  BY <1>1, WordFacts, AddRemainder, ZenonT(60)
<1> QED
  BY <1>2 DEF Add32

\* Multiples of WORD are lost in a word.
LEMMA LowPart ==
    ASSUME NEW x \in Nat, NEW low \in 0 .. WORD - 1
    PROVE  (x * WORD + low) % WORD = low
  BY WordFacts, QuotientRemainder

\* Two addends may be reduced before a reduced sum.
LEMMA RemaindersAdd ==
    ASSUME NEW c \in 0 .. WORD - 1, NEW x \in Nat, NEW y \in Nat
    PROVE  (c + (x % WORD) + (y % WORD)) % WORD = (c + x + y) % WORD
<1> DEFINE r == x % WORD
           s == y % WORD
<1>1. r \in Nat /\ s \in Nat /\ c \in Nat
  BY WordFacts, Division
<1>2. \A t \in Nat : (r + t) % WORD = (x + t) % WORD
  BY WordFacts, AddRemainder, ZenonT(60)
<1>3. \A t \in Nat : (s + t) % WORD = (y + t) % WORD
  BY WordFacts, AddRemainder, ZenonT(60)
<1> HIDE DEF r, s
<1>4. c + s \in Nat /\ c + x \in Nat
  BY <1>1
<1>5. (r + (c + s)) % WORD = (x + (c + s)) % WORD
  BY <1>2, <1>4
<1>6. (s + (c + x)) % WORD = (y + (c + x)) % WORD
  BY <1>3, <1>4
<1>7. /\ c + r + s = r + (c + s) /\ x + (c + s) = s + (c + x)
      /\ y + (c + x) = c + x + y
  BY <1>1
<1> QED
  BY <1>5, <1>6, <1>7 DEF r, s

\* u64_add is addition modulo 2^64: the carry is the one the sum of the low
\* words leaves.
THEOREM U64AddWraps ==
    ASSUME NEW a \in U64, NEW b \in U64
    PROVE  /\ u64_add(a, b) \in U64
           /\ Number(u64_add(a, b)) = (Number(a) + Number(b)) % (WORD * WORD)
<1> DEFINE low == Add32(a.lo, b.lo)
           carry == IF low < a.lo THEN 1 ELSE 0
           top == a.hi + b.hi + carry
<1>1. /\ a.lo \in 0 .. WORD - 1 /\ a.hi \in 0 .. WORD - 1
      /\ b.lo \in 0 .. WORD - 1 /\ b.hi \in 0 .. WORD - 1
  BY PairFacts
<1>2. low \in 0 .. WORD - 1 /\ a.lo + b.lo = carry * WORD + low
  <2>1. CASE a.lo + b.lo < WORD
    <3>1. a.lo + b.lo \in 0 .. WORD - 1
      BY <1>1, <2>1, WordFacts
    <3>2. (a.lo + b.lo) % WORD = a.lo + b.lo
      BY <3>1, WordFacts, SmallRemainder
    <3>3. low = a.lo + b.lo
      BY <3>2 DEF Add32
    <3> QED
      BY <1>1, <2>1, <3>3, WordFacts
  <2>2. CASE ~(a.lo + b.lo < WORD)
    <3> DEFINE r == a.lo + b.lo - WORD
    <3>1. r \in 0 .. WORD - 1 /\ a.lo + b.lo = 1 * WORD + r /\ r < a.lo
      BY <1>1, <2>2, WordFacts
    <3> HIDE DEF r
    <3>2. (1 * WORD + r) % WORD = r
      BY <3>1, WordFacts, QuotientRemainder
    <3>3. low = r
      BY <3>1, <3>2 DEF Add32
    <3> QED
      BY <3>1, <3>3
  <2> QED
    BY <2>1, <2>2
<1>3. carry \in {0, 1}
  OBVIOUS
<1>4. u64_add(a, b) = [lo |-> low, hi |-> Add32(Add32(a.hi, b.hi), carry)]
  BY DEF u64_add
<1> HIDE DEF low, carry
<1>5. Add32(Add32(a.hi, b.hi), carry) = top % WORD
  <2>1. a.hi \in Nat /\ b.hi \in Nat /\ carry \in Nat
    BY <1>1, <1>3
  <2> QED
    BY <2>1, ThreeAddends
<1>6. top \in Nat
  BY <1>1, <1>3
<1>7. top % WORD \in 0 .. WORD - 1
  BY <1>6, WordFacts, Division
<1>8. Number(a) + Number(b) = top * WORD + low
  <2>1. top * WORD = a.hi * WORD + b.hi * WORD + carry * WORD
    <3>1. a.hi \in Int /\ b.hi \in Int /\ carry \in Int /\ WORD \in Int
      BY <1>1, <1>3, WordFacts
    <3>2. a.hi + b.hi \in Int
      BY <3>1
    <3>3. (a.hi + b.hi + carry) * WORD = (a.hi + b.hi) * WORD + carry * WORD
      BY <3>1, <3>2, Distribute
    <3>4. (a.hi + b.hi) * WORD = a.hi * WORD + b.hi * WORD
      BY <3>1, Distribute
    <3> QED
      BY <3>3, <3>4
  <2>2. a.hi * WORD \in Int /\ b.hi * WORD \in Int /\ carry * WORD \in Int
    BY <1>1, <1>3, WordFacts
  <2> QED
    BY <1>1, <1>2, <2>1, <2>2 DEF Number
<1> HIDE DEF top
<1>9. (top * WORD + low) % (WORD * WORD) = (top % WORD) * WORD + low
  BY <1>2, <1>6, HighPart
<1>10. u64_add(a, b) = [lo |-> low, hi |-> top % WORD]
  BY <1>4, <1>5
<1> QED
  BY <1>2, <1>7, <1>8, <1>9, <1>10 DEF Number, U64, Words

\* u64_mul is multiplication modulo 2^64.
THEOREM U64MulWraps ==
    ASSUME NEW a \in U64, NEW b \in U64
    PROVE  /\ u64_mul(a, b) \in U64
           /\ Number(u64_mul(a, b)) = (Number(a) * Number(b)) % (WORD * WORD)
<1> DEFINE core == mul32(a.lo, b.lo)
           x == a.lo * b.hi
           y == a.hi * b.lo
           z == a.hi * b.hi
           top == core.hi + x + y
<1>1. /\ a.lo \in 0 .. WORD - 1 /\ a.hi \in 0 .. WORD - 1
      /\ b.lo \in 0 .. WORD - 1 /\ b.hi \in 0 .. WORD - 1
  BY PairFacts
<1>2. core \in U64 /\ Number(core) = a.lo * b.lo
  BY <1>1, Mul32Exact DEF Words
<1>3. core.lo \in 0 .. WORD - 1 /\ core.hi \in 0 .. WORD - 1
      /\ a.lo * b.lo = core.hi * WORD + core.lo
  BY <1>2, PairFacts
<1>4. u64_mul(a, b) = [lo |-> core.lo,
                       hi |-> Add32(Add32(core.hi, x % WORD), y % WORD)]
  BY DEF u64_mul, Mul32
<1> HIDE DEF core
<1>5. x \in Nat /\ y \in Nat /\ z \in Nat
  BY <1>1, WordFacts, Products
<1>6. Number(a) * Number(b) = z * (WORD * WORD) + (top * WORD + core.lo)
  <2>1. Number(a) * Number(b)
          = (a.hi * WORD) * (b.hi * WORD) + (a.hi * WORD) * b.lo
            + a.lo * (b.hi * WORD) + a.lo * b.lo
    <3>1. Number(a) * Number(b)
            = (a.hi * WORD) * Number(b) + a.lo * Number(b)
      BY <1>1, WordFacts, Distribute, PairFacts
    <3>2. (a.hi * WORD) * Number(b)
            = (a.hi * WORD) * (b.hi * WORD) + (a.hi * WORD) * b.lo
      BY <1>1, WordFacts, Distribute, PairFacts
    <3>3. a.lo * Number(b) = a.lo * (b.hi * WORD) + a.lo * b.lo
      BY <1>1, WordFacts, Distribute, PairFacts
    <3>4. /\ (a.hi * WORD) * (b.hi * WORD) \in Int /\ (a.hi * WORD) * b.lo \in Int
          /\ a.lo * (b.hi * WORD) \in Int /\ a.lo * b.lo \in Int
      BY <1>1, WordFacts
    <3> QED
      BY <3>1, <3>2, <3>3, <3>4
  <2>2. (a.hi * WORD) * (b.hi * WORD) = z * (WORD * WORD)
    BY <1>1, WordFacts
  <2>3. (a.hi * WORD) * b.lo = y * WORD /\ a.lo * (b.hi * WORD) = x * WORD
    BY <1>1, WordFacts, Products
  <2>4. top * WORD = core.hi * WORD + x * WORD + y * WORD
    BY <1>3, <1>5, WordFacts, Distribute
  <2>5. /\ z * (WORD * WORD) \in Int /\ x * WORD \in Int /\ y * WORD \in Int
        /\ core.hi * WORD \in Int
    BY <1>3, <1>5, WordFacts
  <2> HIDE DEF x, y, z, top
  <2> QED
    BY <1>3, <2>1, <2>2, <2>3, <2>4, <2>5
<1> HIDE DEF x, y, z
<1>7. Add32(Add32(core.hi, x % WORD), y % WORD) = top % WORD
  <2>1. x % WORD \in Nat /\ y % WORD \in Nat
    BY <1>5, WordFacts, Division
  <2>2. Add32(Add32(core.hi, x % WORD), y % WORD)
          = (core.hi + (x % WORD) + (y % WORD)) % WORD
    BY <1>3, <2>1, ThreeAddends, WordFacts, SMTT(30)
  <2>3. (core.hi + (x % WORD) + (y % WORD)) % WORD = (core.hi + x + y) % WORD
    BY <1>3, <1>5, RemaindersAdd
  <2> QED
    BY <2>2, <2>3
<1>8. top \in Nat
  BY <1>3, <1>5
<1>9. top % WORD \in 0 .. WORD - 1
  BY <1>8, WordFacts, Division
<1> HIDE DEF top
<1>10. (top * WORD + core.lo) % (WORD * WORD) = (top % WORD) * WORD + core.lo
  BY <1>3, <1>8, HighPart
<1>11. (z * (WORD * WORD) + (top * WORD + core.lo)) % (WORD * WORD)
         = (top * WORD + core.lo) % (WORD * WORD)
  <2>1. top * WORD + core.lo \in Nat
    BY <1>3, <1>8, WordFacts, Products
  <2>2. WORD * WORD \in Nat \ {0}
    BY WordFacts
  <2> QED
    BY <1>5, <2>1, <2>2, AddMultiple, Zenon
<1>12. u64_mul(a, b) = [lo |-> core.lo, hi |-> top % WORD]
  BY <1>4, <1>7
<1>13. Number(u64_mul(a, b)) = (top % WORD) * WORD + core.lo
  BY <1>12 DEF Number
<1> QED
  BY <1>3, <1>6, <1>9, <1>10, <1>11, <1>12, <1>13 DEF U64, Words

\* u64_shr is a division by the power: the bits that leave the high word are
\* those that enter the low one.
THEOREM U64ShrDivides ==
    ASSUME NEW a \in U64, NEW p \in Nat \ {0}, p * (WORD \div p) = WORD
    PROVE  u64_shr(a, p) \in U64 /\ Number(u64_shr(a, p)) = Number(a) \div p
<1> DEFINE q == WORD \div p
           s == a.hi \div p
           t == a.hi % p
           x == a.lo \div p
           y == a.lo % p
<1>1. a.lo \in 0 .. WORD - 1 /\ a.hi \in 0 .. WORD - 1
  BY PairFacts
<1>2. q \in Nat /\ p * q = WORD
  BY WordFacts, Division
<1>3. /\ s \in Nat /\ t \in 0 .. p - 1 /\ a.hi = p * s + t
      /\ x \in Nat /\ y \in 0 .. p - 1 /\ a.lo = p * x + y
  <2>1. a.hi \in Nat /\ a.lo \in Nat
    BY <1>1
  <2> QED
    BY <2>1, Division
<1>4. u64_shr(a, p) = [lo |-> x + ((a.hi * q) % WORD), hi |-> s]
  BY DEF u64_shr, Shl32
<1> HIDE DEF q, s, t, x, y
<1>5. q # 0 /\ x <= q - 1 /\ s <= q - 1
  <2>1. q # 0
    BY <1>2, WordFacts, p * 0 = 0
  <2>2. x * p < q * p
    BY <1>1, <1>2, <1>3, WordFacts, Products
  <2>3. s * p < q * p
    BY <1>1, <1>2, <1>3, WordFacts, Products
  <2>4. x < q /\ s < q
    BY <1>2, <1>3, <2>2, <2>3, CancelFactor
  <2> QED
    BY <1>2, <1>3, <2>1, <2>4
<1>6. t * q + x \in 0 .. WORD - 1 /\ t * q \in 0 .. WORD - 1
  <2>1. t <= p - 1 /\ t \in Int /\ p - 1 \in Int
    BY <1>3
  <2>2. t * q <= (p - 1) * q
    BY <1>2, <2>1, Monotone
  <2>3. (p - 1) * q = WORD - q
    BY <1>2
  <2>4. t * q \in Nat
    BY <1>2, <1>3, Products
  <2> QED
    BY <1>2, <1>3, <1>5, <2>2, <2>3, <2>4, WordFacts
<1>7. (a.hi * q) % WORD = t * q
  <2>1. a.hi * q = (p * s) * q + t * q
    BY <1>2, <1>3, Distribute, Products
  <2>2. (p * s) * q = s * WORD
    BY <1>2, <1>3, Products
  <2>3. (s * WORD + t * q) % WORD = t * q
    <3> DEFINE e == t * q
    <3>1. e \in 0 .. WORD - 1
      BY <1>6
    <3> HIDE DEF e
    <3>2. (s * WORD + e) % WORD = e
      BY <1>3, <3>1, LowPart
    <3> QED
      BY <3>2 DEF e
  <2> QED
    BY <2>1, <2>2, <2>3
<1>8. u64_shr(a, p) = [lo |-> x + t * q, hi |-> s]
  BY <1>4, <1>7
<1>9. s <= WORD - 1
  <2>1. 1 * q <= p * q
    BY <1>2, Monotone
  <2> QED
    BY <1>2, <1>3, <1>5, <2>1, WordFacts
<1>10. Number(a) \div p = s * WORD + (t * q + x)
  <2> DEFINE z == s * WORD + (t * q + x)
  <2>1. a.hi * WORD = (s * WORD) * p + (t * q) * p
    <3>1. a.hi * WORD = (p * s) * WORD + t * WORD
      BY <1>3, WordFacts, Distribute, Products
    <3>2. (p * s) * WORD = (s * WORD) * p /\ t * WORD = (t * q) * p
      BY <1>2, <1>3, WordFacts, Products
    <3> QED
      BY <3>1, <3>2
  <2>2. z * p = (s * WORD) * p + ((t * q) * p + x * p)
    <3>1. s * WORD \in Int /\ t * q \in Int /\ x \in Int /\ t * q + x \in Int
      BY <1>2, <1>3, WordFacts
    <3>2. z * p = (s * WORD) * p + (t * q + x) * p
      BY <3>1, Distribute
    <3>3. (t * q + x) * p = (t * q) * p + x * p
      BY <3>1, Distribute
    <3> QED
      BY <3>2, <3>3
  <2>3. z \in Nat
    BY <1>3, <1>6, WordFacts, Products
  <2>4. /\ (s * WORD) * p \in Int /\ (t * q) * p \in Int /\ x * p \in Int
        /\ p * x = x * p
    BY <1>2, <1>3, WordFacts
  <2> HIDE DEF z
  <2>5. Number(a) = z * p + y
    BY <1>3, <2>1, <2>2, <2>4 DEF Number
  <2>6. (z * p + y) \div p = z
    BY <1>3, <2>3, QuotientRemainder
  <2> QED
    BY <2>5, <2>6 DEF z
<1>11. x + t * q = t * q + x /\ s \in 0 .. WORD - 1
  BY <1>3, <1>6, <1>9
<1> QED
  BY <1>6, <1>8, <1>10, <1>11 DEF Number, U64, Words

\* The exclusive or of two pairs is that of their numbers.
LEMMA U64XorIsXor ==
    ASSUME NEW a \in U64, NEW b \in U64
    PROVE  /\ u64_xor(a, b) \in U64
           /\ Number(u64_xor(a, b)) = Fork!XorDouble(Number(a), Number(b))
<1>1. a.lo \in Words /\ a.hi \in Words /\ b.lo \in Words /\ b.hi \in Words
  BY DEF U64
<1>2. u64_xor(a, b) \in U64
  BY <1>1, XorAssumption DEF u64_xor, U64
<1> QED
  BY <1>2, PairFacts DEF u64_xor, Fork!XorDouble, Number

\* mix64 is the host's finaliser.
LEMMA MixAgrees ==
    ASSUME NEW seed \in U64, NEW i \in U64
    PROVE  /\ mix64(seed, i) \in U64
           /\ Number(mix64(seed, i)) = Fork!Mix(Number(seed), Number(i))
<1> DEFINE m0 == u64_mul(i, GOLDEN)
           z0 == u64_add(seed, m0)
           r0 == u64_shr(z0, SHIFT1)
           x0 == u64_xor(z0, r0)
           z1 == u64_mul(x0, MULTIPLIER1)
           r1 == u64_shr(z1, SHIFT2)
           x1 == u64_xor(z1, r1)
           z2 == u64_mul(x1, MULTIPLIER2)
           r2 == u64_shr(z2, SHIFT3)
           Add(x, y) == Fork!WrappingAdd(x, y)
           Mul(x, y) == Fork!WrappingMul(x, y)
           Xor(x, y) == Fork!XorDouble(x, y)
           N(x) == Number(x)
           h0 == Add(N(seed), Mul(N(i), N(GOLDEN)))
           h1 == Mul(Xor(h0, h0 \div SHIFT1), N(MULTIPLIER1))
           h2 == Mul(Xor(h1, h1 \div SHIFT2), N(MULTIPLIER2))
<1>1. /\ GOLDEN \in U64 /\ MULTIPLIER1 \in U64 /\ MULTIPLIER2 \in U64
      /\ SHIFT1 \in Nat \ {0} /\ SHIFT1 * (WORD \div SHIFT1) = WORD
      /\ SHIFT2 \in Nat \ {0} /\ SHIFT2 * (WORD \div SHIFT2) = WORD
      /\ SHIFT3 \in Nat \ {0} /\ SHIFT3 * (WORD \div SHIFT3) = WORD
  BY MixAssumption
<1>2. m0 \in U64 /\ N(m0) = Mul(N(i), N(GOLDEN))
  BY <1>1, U64MulWraps DEF Fork!WrappingMul, Fork!DOUBLE
<1>3. z0 \in U64 /\ N(z0) = h0
  <2> HIDE DEF m0
  <2>1. u64_add(seed, m0) \in U64
        /\ Number(u64_add(seed, m0)) = (Number(seed) + Number(m0)) % (WORD * WORD)
    BY <1>2, U64AddWraps
  <2> QED
    BY <1>2, <2>1 DEF Fork!WrappingAdd, Fork!DOUBLE
<1> HIDE DEF m0, z0, h0
<1>4. r0 \in U64 /\ N(r0) = h0 \div SHIFT1
  BY <1>1, <1>3, U64ShrDivides
<1> HIDE DEF r0
<1>5. x0 \in U64 /\ N(x0) = Xor(h0, h0 \div SHIFT1)
  BY <1>3, <1>4, U64XorIsXor
<1> HIDE DEF x0
<1>6. z1 \in U64 /\ N(z1) = h1
  BY <1>1, <1>5, U64MulWraps DEF Fork!WrappingMul, Fork!DOUBLE
<1> HIDE DEF z1, h1
<1>7. r1 \in U64 /\ N(r1) = h1 \div SHIFT2
  BY <1>1, <1>6, U64ShrDivides
<1> HIDE DEF r1
<1>8. x1 \in U64 /\ N(x1) = Xor(h1, h1 \div SHIFT2)
  BY <1>6, <1>7, U64XorIsXor
<1> HIDE DEF x1
<1>9. z2 \in U64 /\ N(z2) = h2
  BY <1>1, <1>8, U64MulWraps DEF Fork!WrappingMul, Fork!DOUBLE
<1> HIDE DEF z2, h2
<1>10. r2 \in U64 /\ N(r2) = h2 \div SHIFT3
  BY <1>1, <1>9, U64ShrDivides
<1> HIDE DEF r2
<1>11. u64_xor(z2, r2) \in U64 /\ N(u64_xor(z2, r2)) = Xor(h2, h2 \div SHIFT3)
  BY <1>9, <1>10, U64XorIsXor
<1>12. mix64(seed, i) = u64_xor(z2, r2)
  BY DEF mix64, m0, z0, r0, x0, z1, r1, x1, z2, r2
<1>13. Fork!Mix(N(seed), N(i)) = Xor(h2, h2 \div SHIFT3)
  BY DEF Fork!Mix, h0, h1, h2
<1> QED
  BY <1>11, <1>12, <1>13

\* "the device derives byte-identical ChaCha20 keys to engine::fork_rng"
\* (common.wgsl): for every width, seed and index the key of a draw's stream is
\* the host's.
THEOREM KeysAgree ==
    ASSUME NEW seed \in U64, NEW i \in U64
    PROVE  StreamKey(seed, i) = Fork!ForkKey(Number(seed), Number(i))
<1> DEFINE z == mix64(seed, i)
<1>1. z \in U64 /\ Number(z) = Fork!Mix(Number(seed), Number(i))
  BY MixAgrees
<1>2. StreamKey(seed, i) = <<z.lo, z.hi, seed.lo, seed.hi, i.lo, i.hi, 0, 0>>
  BY DEF StreamKey
<1> HIDE DEF z
<1>3. \A a \in U64 : Fork!LittleEndian(Number(a)) = <<a.lo, a.hi>>
  BY PairFacts DEF Fork!LittleEndian
<1> QED
  BY <1>1, <1>2, <1>3 DEF Fork!ForkKey

-----------------------------------------------------------------------------
(* The product of two doubles.                                             *)

\* The implicit leading one of a significand, 2^52, and a whole significand.
ONE == TOP * WORD
Whole(a) == Significand(a) * WORD + a.lo

\* A pattern as one number.
Pattern(f) == f.hi * WORD + f.lo

\* r is the integer nearest to num / den, and even if two are nearest.
NearestEven(r, num, den) ==
    /\ r \in Nat
    /\ 2 * num <= 2 * (r * den) + den /\ 2 * (r * den) <= 2 * num + den
    /\ 2 * num = 2 * (r * den) + den \/ 2 * (r * den) = 2 * num + den => r % 2 = 0

\* A normal pattern: the exponent is not 0.
Normals == {f \in [hi : 0 .. EXPONENTS * TOP - 1, lo : Words] : f.hi >= TOP}

-----------------------------------------------------------------------------
\* The divisors of the layout, by name.
LEMMA Layout ==
    \E half, q, k \in Nat \ {0} :
        /\ TOP = 2 * half /\ TOP \div 2 = half
        /\ WORD = (2 * TOP) * q /\ WORD \div (2 * TOP) = q
        /\ WORD = TOP * (2 * q) /\ WORD \div TOP = 2 * q
        /\ WORD * k = 2 * TOP * TOP /\ (2 * TOP * TOP) \div WORD = k
<1> DEFINE half == TOP \div 2
           q == WORD \div (2 * TOP)
           k == (2 * TOP * TOP) \div WORD
<1>1. /\ TOP \in Nat \ {0} /\ WORD \in Nat \ {0} /\ 2 * TOP \in Nat \ {0}
      /\ 2 * TOP * TOP \in Nat \ {0}
  BY LimbAssumption, WordFacts
<1>2. half \in Nat /\ q \in Nat /\ k \in Nat
  BY <1>1, Division
<1>3. 2 * half = TOP /\ (2 * TOP) * q = WORD /\ WORD * k = 2 * TOP * TOP
  BY LimbAssumption
<1> HIDE DEF half, q, k
<1>4. half # 0 /\ q # 0 /\ k # 0
  BY <1>1, <1>2, <1>3
<1>5. WORD = TOP * (2 * q) /\ WORD = (2 * q) * TOP + 0
  BY <1>1, <1>2, <1>3
<1>6. WORD \div TOP = 2 * q
  <2>1. 2 * q \in Nat /\ 0 \in 0 .. TOP - 1
    BY <1>1, <1>2
  <2>2. ((2 * q) * TOP + 0) \div TOP = 2 * q
    BY <1>1, <2>1, QuotientRemainder
  <2> QED
    BY <1>5, <2>2
<1> QED
  BY <1>2, <1>3, <1>4, <1>5, <1>6 DEF half, q, k

\* The carry of a sum of words is seen by comparing it with an addend.
LEMMA CarryOut ==
    ASSUME NEW x \in Words, NEW y \in Words
    PROVE  /\ Add32(x, y) \in Words
           /\ Carry(Add32(x, y), x) \in {0, 1}
           /\ x + y = Carry(Add32(x, y), x) * WORD + Add32(x, y)
<1>1. x \in 0 .. WORD - 1 /\ y \in 0 .. WORD - 1 /\ WORD \in Nat \ {0}
  BY WordFacts DEF Words
<1>2. CASE x + y < WORD
  <2>1. x + y \in 0 .. WORD - 1
    BY <1>1, <1>2
  <2>2. Add32(x, y) = x + y
    BY <1>1, <2>1, SmallRemainder DEF Add32
  <2>3. Carry(Add32(x, y), x) = 0
    BY <1>1, <2>2 DEF Carry
  <2> QED
    BY <1>1, <2>1, <2>2, <2>3 DEF Words
<1>3. CASE ~(x + y < WORD)
  <2> DEFINE r == x + y - WORD
  <2>1. r \in 0 .. WORD - 1 /\ x + y = 1 * WORD + r /\ r < x
    BY <1>1, <1>3
  <2> HIDE DEF r
  <2>2. (1 * WORD + r) % WORD = r
    BY <1>1, <2>1, LowPart
  <2>3. Add32(x, y) = r
    BY <2>1, <2>2 DEF Add32
  <2>4. Carry(Add32(x, y), x) = 1
    BY <2>1, <2>3 DEF Carry
  <2> QED
    BY <2>1, <2>3, <2>4 DEF Words
<1> QED
  BY <1>2, <1>3

\* Significands are words between the leading one and its double, and a whole
\* one is between ONE and its double.
LEMMA WholeFacts ==
    ASSUME NEW a \in Normals
    PROVE  /\ a.lo \in Words /\ Significand(a) \in Words
           /\ Significand(a) \in TOP .. 2 * TOP - 1
           /\ Whole(a) \in ONE .. 2 * ONE - 1
<1>1. /\ TOP \in Nat \ {0} /\ WORD \in Nat \ {0} /\ 2 * TOP <= WORD
  <2>1. PICK q \in Nat \ {0} : WORD = (2 * TOP) * q
    BY Layout
  <2>2. 2 * TOP \in Nat /\ TOP \in Nat \ {0}
    BY LimbAssumption
  <2>3. 1 * (2 * TOP) <= q * (2 * TOP)
    BY <2>2, Monotone
  <2> QED
    BY <2>1, <2>2, <2>3, WordFacts, Products
<1>2. a.hi \in Nat /\ a.lo \in 0 .. WORD - 1
  BY <1>1, LayoutAssumption DEF Normals, Words
<1>3. a.hi % TOP \in 0 .. TOP - 1
  BY <1>1, <1>2, Division
<1> DEFINE m == a.hi % TOP
           s == m + TOP
<1>4. Significand(a) = s
  BY DEF Significand
<1> HIDE DEF m
<1>5. s \in TOP .. 2 * TOP - 1
  BY <1>1, <1>3 DEF m
<1> HIDE DEF s
<1>6. TOP * WORD <= s * WORD /\ s * WORD <= (2 * TOP - 1) * WORD
  BY <1>1, <1>5, Monotone
<1>7. (2 * TOP - 1) * WORD = 2 * (TOP * WORD) - WORD /\ TOP * WORD \in Nat
      /\ s * WORD \in Int
  BY <1>1, <1>5
<1> QED
  BY <1>1, <1>2, <1>4, <1>5, <1>6, <1>7 DEF Whole, ONE, Words

-----------------------------------------------------------------------------
(* The four limbs are the product.                                         *)

\* The product of two two-digit numbers, by digits.
LEMMA ProductDigits ==
    ASSUME NEW N \in Nat, NEW A \in Nat, NEW B \in Nat, NEW a \in Nat, NEW b \in Nat
    PROVE  (A * N + a) * (B * N + b) = (A * B) * (N * N) + (A * b + a * B) * N + a * b
<1>1. (A * N + a) * (B * N + b) = (A * N) * (B * N + b) + a * (B * N + b)
  BY A * N \in Int, B * N + b \in Int, Distribute
<1>2. (A * N) * (B * N + b) = (A * N) * (B * N) + (A * N) * b
  BY A * N \in Int, B * N \in Int, Distribute
<1>3. a * (B * N + b) = a * (B * N) + a * b
  BY B * N \in Int, Distribute
<1>4. (A * N) * (B * N) = (A * B) * (N * N)
  OBVIOUS
<1>5. (A * N) * b = (A * b) * N /\ a * (B * N) = (a * B) * N
  BY Products
<1>6. (A * b + a * B) * N = (A * b) * N + (a * B) * N
  BY A * b \in Int, a * B \in Int, Distribute
<1>7. /\ (A * B) * (N * N) \in Int /\ (A * b) * N \in Int
      /\ (a * B) * N \in Int /\ a * b \in Int
  OBVIOUS
<1> QED
  BY <1>1, <1>2, <1>3, <1>4, <1>5, <1>6, <1>7

\* The product of the significands, limb by limb.
LEMMA LimbsExact ==
    ASSUME NEW a \in Normals, NEW b \in Normals
    PROVE  LET p == Limbs(a, b)
           IN  /\ p[1] \in Words /\ p[2] \in Words /\ p[3] \in Words /\ p[4] \in Words
               /\ Whole(a) * Whole(b)
                    = ((p[4] * WORD + p[3]) * WORD + p[2]) * WORD + p[1]
<1> DEFINE N == WORD
           A == Significand(a)
           B == Significand(b)
           ll == mul32(a.lo, b.lo)
           lh == mul32(a.lo, B)
           hl == mul32(A, b.lo)
           hh == mul32(A, B)
           s1 == Add32(ll.hi, lh.lo)
           p1 == Add32(s1, hl.lo)
           c1 == Carry(s1, ll.hi)
           c2 == Carry(p1, s1)
           s2 == Add32(lh.hi, hl.hi)
           s3 == Add32(s2, c1 + c2)
           p2 == Add32(s3, hh.lo)
           c3 == Carry(s2, lh.hi)
           c4 == Carry(s3, s2)
           c5 == Carry(p2, s3)
           top == hh.hi + (c3 + c4 + c5)
<1>1. /\ a.lo \in Words /\ b.lo \in Words /\ A \in Words /\ B \in Words
      /\ Whole(a) = A * N + a.lo /\ Whole(b) = B * N + b.lo
      /\ Whole(a) \in 0 .. 2 * ONE - 1 /\ Whole(b) \in 0 .. 2 * ONE - 1
      /\ ONE \in Nat
  <2>1. ONE \in Nat
    BY LimbAssumption, WordFacts, Products DEF ONE
  <2> QED
    BY <2>1, WholeFacts DEF Whole
<1>2. Limbs(a, b) = <<ll.lo, p1, p2, Add32(hh.hi, c3 + c4 + c5)>>
  BY DEF Limbs, Columns
<1> HIDE DEF A, B
<1>3. /\ ll \in U64 /\ a.lo * b.lo = ll.hi * N + ll.lo
      /\ lh \in U64 /\ a.lo * B = lh.hi * N + lh.lo
      /\ hl \in U64 /\ A * b.lo = hl.hi * N + hl.lo
      /\ hh \in U64 /\ A * B = hh.hi * N + hh.lo
  BY <1>1, Mul32Exact DEF Number
<1> HIDE DEF ll, lh, hl, hh
<1>4. /\ ll.lo \in Words /\ ll.hi \in Words /\ lh.lo \in Words /\ lh.hi \in Words
      /\ hl.lo \in Words /\ hl.hi \in Words /\ hh.lo \in Words /\ hh.hi \in Words
  BY <1>3 DEF U64
<1>5. s1 \in Words /\ c1 \in {0, 1} /\ ll.hi + lh.lo = c1 * N + s1
  BY <1>4, CarryOut
<1> HIDE DEF s1, c1
<1>6. p1 \in Words /\ c2 \in {0, 1} /\ s1 + hl.lo = c2 * N + p1
  BY <1>4, <1>5, CarryOut
<1> HIDE DEF p1, c2
<1>7. s2 \in Words /\ c3 \in {0, 1} /\ lh.hi + hl.hi = c3 * N + s2
  BY <1>4, CarryOut
<1> HIDE DEF s2, c3
<1>8. c1 + c2 \in Words
  <2>1. HALF \in Nat /\ HALF >= 2
    BY HalfAssumption
  <2>2. 2 * HALF <= HALF * HALF
    BY <2>1, Monotone
  <2>3. WORD >= 4 /\ WORD \in Nat
    BY <2>1, <2>2, WordFacts
  <2> QED
    BY <1>5, <1>6, <2>3 DEF Words
<1>9. s3 \in Words /\ c4 \in {0, 1} /\ s2 + (c1 + c2) = c4 * N + s3
  BY <1>7, <1>8, CarryOut
<1> HIDE DEF s3, c4
<1>10. p2 \in Words /\ c5 \in {0, 1} /\ s3 + hh.lo = c5 * N + p2
  BY <1>4, <1>9, CarryOut
<1> HIDE DEF p2, c5
<1>11. \A x \in Words : x \in Nat
  BY DEF Words
<1>12. Whole(a) * Whole(b) = ((top * N + p2) * N + p1) * N + ll.lo
  <2>0a. /\ A \in Nat /\ B \in Nat /\ N \in Nat
         /\ s1 \in Nat /\ p1 \in Nat /\ s2 \in Nat /\ s3 \in Nat /\ p2 \in Nat
         /\ c1 \in Nat /\ c2 \in Nat /\ c3 \in Nat /\ c4 \in Nat /\ c5 \in Nat
    BY <1>1, <1>4, <1>5, <1>6, <1>7, <1>9, <1>10, <1>11, WordFacts
  <2>0b. PICK x, y, ll1, ll0, lh1, lh0, hl1, hl0, hh1, hh0 \in Nat :
            /\ x = a.lo /\ y = b.lo
            /\ ll1 = ll.hi /\ ll0 = ll.lo /\ lh1 = lh.hi /\ lh0 = lh.lo
            /\ hl1 = hl.hi /\ hl0 = hl.lo /\ hh1 = hh.hi /\ hh0 = hh.lo
    BY <1>1, <1>4, <1>11
  <2>0c. /\ x * y = ll1 * N + ll0 /\ x * B = lh1 * N + lh0
         /\ A * y = hl1 * N + hl0 /\ A * B = hh1 * N + hh0
         /\ ll1 + lh0 = c1 * N + s1 /\ s1 + hl0 = c2 * N + p1
         /\ lh1 + hl1 = c3 * N + s2 /\ s2 + (c1 + c2) = c4 * N + s3
         /\ s3 + hh0 = c5 * N + p2
    BY <1>3, <1>5, <1>6, <1>7, <1>9, <1>10, <2>0b
  <2> USE <2>0a, <2>0c
  <2> DEFINE M == A * y + x * B
             t == hl1 + lh1
             L == t + (c1 + c2)
             head == hh1 + (c3 + c4 + c5)
             K == A * B + L
  <2>1. M = t * N + (hl0 + lh0)
    BY Distribute
  <2>2. hl0 + lh0 + ll1 = (c1 + c2) * N + p1
    BY Distribute
  <2>3. M + ll1 = L * N + p1
    <3>1. L * N = t * N + (c1 + c2) * N
      BY Distribute, t \in Int, c1 + c2 \in Int
    <3>2. t * N \in Int /\ (c1 + c2) * N \in Int
      OBVIOUS
    <3> DEFINE tN == t * N
               cN == (c1 + c2) * N
               LN == L * N
    <3>3. M = tN + (hl0 + lh0) /\ hl0 + lh0 + ll1 = cN + p1 /\ LN = tN + cN
      BY <2>1, <2>2, <3>1
    <3>4. tN \in Int /\ cN \in Int
      BY <3>2
    <3> HIDE DEF M, t, L, tN, cN, LN
    <3>5. M + ll1 = LN + p1
      BY <3>3, <3>4
    <3> QED
      BY <3>5 DEF LN
  <2>4. K = head * N + p2
    <3>1. head * N = hh1 * N + c3 * N + c4 * N + c5 * N
      <4>1. head * N = hh1 * N + (c3 + c4 + c5) * N
        BY Distribute, c3 + c4 + c5 \in Int
      <4>2. (c3 + c4 + c5) * N = (c3 + c4) * N + c5 * N
        BY Distribute, c3 + c4 \in Int
      <4>3. (c3 + c4) * N = c3 * N + c4 * N
        BY Distribute
      <4> QED
        BY <4>1, <4>2, <4>3
    <3>2. /\ hh1 * N \in Int /\ c3 * N \in Int /\ c4 * N \in Int /\ c5 * N \in Int
      OBVIOUS
    <3> QED
      BY <3>1, <3>2
  <2>5. M * N + x * y = (L * N + p1) * N + ll0
    <3>1. (M + ll1) * N = M * N + ll1 * N
      BY Distribute, M \in Int
    <3>2. M * N \in Int /\ ll1 * N \in Int
      OBVIOUS
    <3> HIDE DEF M, L
    <3> QED
      BY <2>3, <3>1, <3>2
  <2>6. (K * N + p1) * N = (A * B) * (N * N) + (L * N + p1) * N
    <3>1. K * N = (A * B) * N + L * N
      BY Distribute, A * B \in Int, L \in Int
    <3>2. ((A * B) * N + (L * N + p1)) * N = ((A * B) * N) * N + (L * N + p1) * N
      BY Distribute, (A * B) * N \in Int, L * N + p1 \in Int
    <3>3. ((A * B) * N) * N = (A * B) * (N * N)
      BY Products, A * B \in Int
    <3>4. (A * B) * N \in Int /\ L * N \in Int
      OBVIOUS
    <3> HIDE DEF K, L
    <3> QED
      BY <3>1, <3>2, <3>3, <3>4
  <2>7. (A * N + x) * (B * N + y) = (A * B) * (N * N) + M * N + x * y
    BY ProductDigits
  <2>8. /\ (A * B) * (N * N) \in Int /\ M * N \in Int /\ x * y \in Int
        /\ (L * N + p1) * N \in Int
    OBVIOUS
  <2> HIDE DEF M, t, L, K
  <2>9. (A * N + x) * (B * N + y) = (K * N + p1) * N + ll0
    BY <2>5, <2>6, <2>7, <2>8
  <2>10. (A * N + x) * (B * N + y) = ((head * N + p2) * N + p1) * N + ll0
    BY <2>4, <2>9
  <2> QED
    BY <1>1, <2>10, <2>0b DEF head
<1>13. top \in Words
  <2> DEFINE rest == (p2 * N + p1) * N + ll.lo
             P == Whole(a) * Whole(b)
  <2>1. /\ N \in Nat \ {0} /\ top \in Nat /\ p1 \in Nat /\ p2 \in Nat /\ ll.lo \in Nat
    BY <1>4, <1>6, <1>7, <1>9, <1>10, <1>11, WordFacts
  <2>2. 2 * ONE <= N * N
    <3>1. PICK q \in Nat \ {0} : WORD = (2 * TOP) * q
      BY Layout
    <3>2. 1 * (2 * TOP) <= q * (2 * TOP)
      BY LimbAssumption, Monotone
    <3>3. 2 * TOP <= N /\ 2 * TOP \in Int
      BY <3>1, <3>2, LimbAssumption
    <3>4. (2 * TOP) * N <= N * N
      BY <2>1, <3>3, Monotone
    <3> QED
      BY <2>1, <3>4, LimbAssumption DEF ONE
  <2>3. P < (N * N) * (N * N)
    <3> DEFINE x == Whole(a)
               y == Whole(b)
               m == N * N
    <3>1. x \in 0 .. m - 1 /\ y \in 0 .. m - 1 /\ m \in Nat \ {0}
      BY <1>1, <2>1, <2>2
    <3> HIDE DEF x, y, m
    <3>2. x * y + 2 * m - 1 <= m * m
      BY <3>1, DigitProduct
    <3> QED
      BY <3>1, <3>2, Products DEF x, y, m
  <2>4. P = ((top * N) * N) * N + rest /\ rest \in Nat
    <3>1. (top * N + p2) * N = (top * N) * N + p2 * N
      BY <2>1, Distribute, Products
    <3>2. ((top * N + p2) * N + p1) * N = (((top * N) * N) + (p2 * N + p1)) * N
      BY <3>1, <2>1
    <3>3. (((top * N) * N) + (p2 * N + p1)) * N
            = ((top * N) * N) * N + (p2 * N + p1) * N
      BY <2>1, Distribute, Products, (top * N) * N \in Int, p2 * N + p1 \in Int
    <3>4. p2 * N \in Nat /\ (p2 * N + p1) * N \in Nat
      BY <2>1, Products
    <3> QED
      BY <1>12, <2>1, <3>2, <3>3, <3>4
  <2>5. ((top * N) * N) * N = top * ((N * N) * N) /\ (N * N) * (N * N) = N * ((N * N) * N)
    BY <2>1, Products
  <2>6. (N * N) * N \in Nat \ {0}
    BY <2>1
  <2>7. top * ((N * N) * N) \in Nat
    BY <2>1, <2>6, Products
  <2> HIDE DEF P, rest
  <2>8. top * ((N * N) * N) < N * ((N * N) * N)
    BY <2>1, <2>3, <2>4, <2>5, <2>6, <2>7
  <2>9. top < N
    BY <2>1, <2>6, <2>8, CancelFactor
  <2> QED
    BY <2>1, <2>9 DEF Words
<1>14. Add32(hh.hi, c3 + c4 + c5) = top
  BY <1>13, WordFacts, SmallRemainder DEF Add32, Words
<1>15. Limbs(a, b) = <<ll.lo, p1, p2, top>>
  BY <1>2, <1>14
<1> HIDE DEF top
<1> QED
  BY <1>4, <1>6, <1>10, <1>12, <1>13, <1>15

-----------------------------------------------------------------------------
(* Rounding: quotient and remainder, guard and sticky.                     *)

\* The product the limbs p represent.
Joined(p) == ((p[4] * WORD + p[3]) * WORD + p[2]) * WORD + p[1]
FourWords(p) == p[1] \in Words /\ p[2] \in Words /\ p[3] \in Words /\ p[4] \in Words

\* A shift left by WORD / d keeps the part below d.
LEMMA ShiftKeepsLow ==
    ASSUME NEW x \in Words, NEW d \in Nat \ {0}, NEW q \in Nat \ {0}, d * q = WORD
    PROVE  /\ x \div d \in 0 .. q - 1 /\ x % d \in 0 .. d - 1
           /\ x = (x \div d) * d + (x % d)
           /\ Shl32(x, q) = (x % d) * q
<1> DEFINE c == x \div d
           r == x % d
<1>1. x \in Nat /\ x < WORD /\ WORD \in Nat \ {0}
  BY WordFacts DEF Words
<1>2. c \in Nat /\ r \in 0 .. d - 1 /\ x = d * c + r
  BY <1>1, Division
<1>3. Shl32(x, q) = (x * q) % WORD
  BY DEF Shl32
<1> HIDE DEF c, r
<1>4. r * q <= (d - 1) * q /\ (d - 1) * q = d * q - q
  BY <1>2, Monotone
<1>5. r * q \in 0 .. WORD - 1
  BY <1>2, <1>4
<1>6. x * q = c * WORD + r * q
  <2>1. x * q = (d * c) * q + r * q
    BY <1>2, Distribute, d * c \in Int
  <2>2. (d * c) * q = c * (d * q)
    BY <1>2
  <2> QED
    BY <2>1, <2>2
<1>7. (c * WORD + r * q) % WORD = r * q
  BY <1>1, <1>2, <1>5, QuotientRemainder
<1>8. c < q
  <2>1. c * d < q * d
    BY <1>1, <1>2, Products
  <2> QED
    BY <1>2, <2>1, CancelFactor
<1> QED
  BY <1>2, <1>3, <1>6, <1>7, <1>8, Products DEF c, r

\* The bits kept are the quotient of the product by d * WORD, and the bits
\* below them the remainder.
LEMMA KeptIsQuotient ==
    ASSUME NEW p, FourWords(p), NEW d \in Nat \ {0}, NEW q \in Nat \ {0},
           d * q = WORD, WORD \div d = q, p[4] < d
    PROVE  /\ Kept(p, d).lo \in Words /\ Kept(p, d).hi \in Words
           /\ Joined(p) = (Kept(p, d).hi * WORD + Kept(p, d).lo) * (d * WORD)
                             + ((p[2] % d) * WORD + p[1])
<1>0. p[1] \in Nat /\ p[2] \in Nat /\ p[3] \in Nat /\ p[4] \in Nat
      /\ WORD \in Nat \ {0}
  BY WordFacts DEF FourWords, Words
<1> DEFINE A2 == p[2] \div d
           A3 == p[3] \div d
           R2 == p[2] % d
           R3 == p[3] % d
<1>a. /\ A2 \in 0 .. q - 1 /\ R2 \in 0 .. d - 1 /\ p[2] = A2 * d + R2
      /\ A3 \in 0 .. q - 1 /\ R3 \in 0 .. d - 1 /\ p[3] = A3 * d + R3
      /\ Shl32(p[3], q) = R3 * q
  BY ShiftKeepsLow DEF FourWords
<1>b. Kept(p, d).lo = A2 + Shl32(p[3], q) /\ Kept(p, d).hi = A3 + Shl32(p[4], q)
  BY DEF Kept
<1> HIDE DEF A2, A3, R2, R3
<1>1. PICK a2, a3, r2, r3 \in Nat :
         /\ a2 = A2 /\ a3 = A3 /\ r2 = R2 /\ r3 = R3
         /\ a2 <= q - 1 /\ a3 <= q - 1 /\ r2 <= d - 1 /\ r3 <= d - 1
         /\ p[2] = a2 * d + r2 /\ p[3] = a3 * d + r3 /\ Shl32(p[3], q) = r3 * q
  BY <1>a
<1>2. Shl32(p[4], q) = p[4] * q
  <2>1. p[4] % d = p[4]
    BY <1>0, SmallRemainder
  <2> QED
    BY <2>1, ShiftKeepsLow DEF FourWords
<1>c. p[4] * q \in Nat /\ r3 * q \in Nat
  BY <1>0, Products
<1>3. PICK low, hi, w1, w4 \in Nat :
         /\ low = Kept(p, d).lo /\ hi = Kept(p, d).hi
         /\ w1 = p[1] /\ w4 = p[4] /\ w4 <= d - 1
         /\ low = a2 + r3 * q /\ hi = a3 + w4 * q
  <2>1. PICK low, hi, w1, w4 \in Nat :
           /\ low = a2 + r3 * q /\ hi = a3 + p[4] * q /\ w1 = p[1] /\ w4 = p[4]
    <3>1. a2 + r3 * q \in Nat /\ a3 + p[4] * q \in Nat
      BY <1>c
    <3> QED
      BY <1>0, <3>1
  <2>2. low = Kept(p, d).lo /\ hi = Kept(p, d).hi
    BY <1>1, <1>2, <1>b, <2>1
  <2>3. w4 <= d - 1 /\ hi = a3 + w4 * q
    BY <1>0, <2>1
  <2> QED
    BY <2>1, <2>2, <2>3
<1>4. r3 * q <= (d - 1) * q /\ w4 * q <= (d - 1) * q
  <2>1. r3 \in Int /\ w4 \in Int /\ d - 1 \in Int /\ q \in Nat
    OBVIOUS
  <2> QED
    BY <1>1, <1>3, <2>1, Monotone
<1>d. (d - 1) * q = WORD - q
  OBVIOUS
<1>5. low \in Words /\ hi \in Words
  <2> DEFINE x == r3 * q
             y == w4 * q
  <2>1. x \in Nat /\ y \in Nat /\ x <= WORD - q /\ y <= WORD - q
    BY <1>4, <1>d, Products
  <2> HIDE DEF x, y
  <2>2. low = a2 + x /\ hi = a3 + y
    BY <1>3 DEF x, y
  <2> QED
    BY <1>0, <1>1, <2>1, <2>2 DEF Words
<1> DEFINE N == WORD
<1>6. (hi * N + low) * (d * N) = (hi * (d * N)) * N + (low * d) * N
  <2>1. (hi * N + low) * (d * N) = (hi * N) * (d * N) + low * (d * N)
    BY <1>0, Distribute, hi * N \in Int, d * N \in Int
  <2>2. (hi * N) * (d * N) = (hi * (d * N)) * N /\ low * (d * N) = (low * d) * N
    BY <1>0, Products, d * N \in Int
  <2> QED
    BY <2>1, <2>2
<1>7. low * d = a2 * d + r3 * N
  <2>1. (a2 + r3 * q) * d = a2 * d + (r3 * q) * d
    BY Distribute, r3 * q \in Int
  <2>2. (r3 * q) * d = r3 * (d * q)
    BY Products
  <2> QED
    BY <1>3, <2>1, <2>2
<1>8. hi * (d * N) = (a3 * d) * N + (w4 * N) * N
  <2>1. hi * (d * N) = (hi * d) * N
    BY <1>0, Products
  <2>2. hi * d = a3 * d + w4 * N
    <3>1. (a3 + w4 * q) * d = a3 * d + (w4 * q) * d
      BY Distribute, w4 * q \in Int
    <3>2. (w4 * q) * d = w4 * (d * q)
      BY Products
    <3> QED
      BY <1>3, <3>1, <3>2
  <2>3. (a3 * d + w4 * N) * N = (a3 * d) * N + (w4 * N) * N
    BY <1>0, Distribute, a3 * d \in Int, w4 * N \in Int
  <2> QED
    BY <2>1, <2>2, <2>3
<1>9. (w4 * N + p[3]) * N = hi * (d * N) + r3 * N
  <2>1. (w4 * N + (a3 * d + r3)) * N = (w4 * N) * N + (a3 * d + r3) * N
    BY <1>0, Distribute, w4 * N \in Int, a3 * d + r3 \in Int
  <2>2. (a3 * d + r3) * N = (a3 * d) * N + r3 * N
    BY <1>0, Distribute, a3 * d \in Int
  <2>3. (w4 * N) * N \in Int /\ (a3 * d) * N \in Int /\ r3 * N \in Int
    BY <1>0
  <2> QED
    BY <1>1, <1>8, <2>1, <2>2, <2>3
<1>10. PICK x, y, z, v \in Nat :
          /\ x = hi * (d * N) /\ y = low * d /\ z = r3 * N /\ v = a2 * d
  BY <1>0, hi * (d * N) \in Nat, low * d \in Nat, r3 * N \in Nat, a2 * d \in Nat
<1>11. Joined(p) = (x + z + (v + r2)) * N + w1
  BY <1>0, <1>1, <1>3, <1>9, <1>10 DEF Joined
<1>12. (x + z + (v + r2)) * N = (x + y) * N + r2 * N
  <2>1. x + z + (v + r2) = (x + y) + r2
    BY <1>7, <1>10
  <2> QED
    BY <1>0, <2>1, Distribute, x + y \in Int
<1>13. (x + y) * N = x * N + y * N
  BY <1>0, Distribute
<1>14. (hi * N + low) * (d * N) = (x + y) * N
  BY <1>6, <1>10, <1>13
<1>15. (x + y) * N \in Int /\ r2 * N \in Int
  BY <1>0
<1>16. Joined(p) = (hi * N + low) * (d * N) + (r2 * N + w1)
  BY <1>11, <1>12, <1>14, <1>15
<1> QED
  BY <1>1, <1>3, <1>5, <1>16 DEF R2

\* The guard bit and the bits below it, of a word divided by d = 2 * h.
LEMMA GuardAndSticky ==
    ASSUME NEW x \in Words, NEW h \in Nat \ {0}
    PROVE  \E g \in {0, 1} : \E t \in 0 .. h - 1 :
              /\ x % (2 * h) = g * h + t
              /\ (x \div h) % 2 = g /\ x % h = t
<1> DEFINE d == 2 * h
           c == x \div d
           r == x % d
           g == IF r < h THEN 0 ELSE 1
           t == IF r < h THEN r ELSE r - h
<1>1. x \in Nat /\ d \in Nat \ {0}
  BY WordFacts DEF Words
<1>2. c \in Nat /\ r \in 0 .. d - 1 /\ x = d * c + r
  BY <1>1, Division
<1>3. r = x % (2 * h)
  OBVIOUS
<1> HIDE DEF c, r
<1>4. g \in {0, 1} /\ t \in 0 .. h - 1 /\ r = g * h + t
  BY <1>2
<1> HIDE DEF g, t
<1>5. x = (c * 2 + g) * h + t
  <2>1. (c * 2 + g) * h = (c * 2) * h + g * h
    BY <1>2, <1>4, Distribute, c * 2 \in Int
  <2>2. (c * 2) * h = d * c
    BY <1>2, Products
  <2>3. d * c \in Int /\ g * h \in Int
    BY <1>2, <1>4
  <2> QED
    BY <1>2, <1>4, <2>1, <2>2, <2>3
<1>6. x \div h = c * 2 + g /\ x % h = t
  <2>1. c * 2 + g \in Nat
    BY <1>2, <1>4
  <2> QED
    BY <1>4, <1>5, <2>1, QuotientRemainder
<1>7. (c * 2 + g) % 2 = g
  <2>1. g \in 0 .. 2 - 1
    BY <1>4
  <2> QED
    BY <1>2, <2>1, QuotientRemainder
<1> QED
  BY <1>3, <1>4, <1>6, <1>7

\* Rounding by the guard bit, the bits below it and the last bit kept is
\* rounding to nearest, ties to even.
LEMMA RoundingIsNearest ==
    ASSUME NEW K \in Nat, NEW H \in Nat \ {0}, NEW g \in {0, 1}, NEW s \in 0 .. H - 1,
           NEW up \in {0, 1}, up = 1 <=> g = 1 /\ (s # 0 \/ K % 2 = 1)
    PROVE  NearestEven(K + up, K * (2 * H) + (g * H + s), 2 * H)
<1> DEFINE D == 2 * H
           KD == K * D
<1>1. KD \in Nat /\ (K + 1) * D = KD + D /\ (K + 0) * D = KD
  BY Products, Distribute, D \in Nat
<1>2. K % 2 \in {0, 1} /\ (K % 2 = 1 => (K + 1) % 2 = 0)
  OBVIOUS
<1>3. (K + up) * D = KD + up * D
  BY <1>1
<1> DEFINE num == KD + (g * H + s)
           r == K + up
<1>4. r \in Nat /\ num \in Nat /\ num = KD + (IF g = 1 THEN H ELSE 0) + s
  BY <1>1
<1>5. r * D = KD + (IF up = 1 THEN D ELSE 0)
  BY <1>3, <1>1
<1> HIDE DEF KD
<1>6. /\ 2 * num <= 2 * (r * D) + D /\ 2 * (r * D) <= 2 * num + D
      /\ 2 * num = 2 * (r * D) + D => s = 0 /\ g = 1 /\ up = 0
      /\ 2 * num + D = 2 * (r * D) => s = 0 /\ up = 1
  <2>1. PICK rd \in Int : rd = r * D
    BY <1>1, <1>5
  <2> HIDE DEF num, r
  <2>2. /\ 2 * num <= 2 * rd + D /\ 2 * rd <= 2 * num + D
        /\ 2 * num = 2 * rd + D => s = 0 /\ g = 1 /\ up = 0
        /\ 2 * num + D = 2 * rd => s = 0 /\ up = 1
    BY <1>1, <1>4, <1>5, <2>1
  <2> QED
    BY <2>1, <2>2
<1>7. 2 * num = 2 * (r * D) + D \/ 2 * num + D = 2 * (r * D) => r % 2 = 0
  BY <1>2, <1>6
<1>8. r * D \in Int /\ D \in Int
  BY <1>1, <1>5
<1> HIDE DEF num, r, D
<1>9. 2 * (r * D) = 2 * num + D => 2 * num + D = 2 * (r * D)
  OBVIOUS
<1>10. NearestEven(r, num, D)
  BY <1>4, <1>6, <1>7, <1>9 DEF NearestEven
<1> QED
  BY <1>10 DEF num, r, D, KD

\* Incrementing a pair of words carries into the high one.
LEMMA IncrementAdds ==
    ASSUME NEW m \in U64, Number(m) + 1 < WORD * WORD
    PROVE  Increment(m) \in U64 /\ Number(Increment(m)) = Number(m) + 1
<1> DEFINE low == Add32(m.lo, 1)
           c == Carry(low, m.lo)
<1>1. WORD \in Nat /\ WORD >= 2 /\ m.lo \in Words /\ m.hi \in Words
  <2>1. HALF \in Nat /\ HALF >= 2
    BY HalfAssumption
  <2>2. 2 * HALF <= HALF * HALF
    BY <2>1, Monotone
  <2> QED
    BY <2>1, <2>2, WordFacts DEF U64
<1>2. 1 \in Words
  BY <1>1 DEF Words
<1>3. low \in Words /\ c \in {0, 1} /\ m.lo + 1 = c * WORD + low
  BY <1>1, <1>2, CarryOut
<1>4. Increment(m) = [lo |-> low, hi |-> IF c = 1 THEN Add32(m.hi, 1) ELSE m.hi]
  BY DEF Increment, Carry
<1> HIDE DEF low, c
<1>5. CASE c = 0
  <2>1. Increment(m) = [lo |-> low, hi |-> m.hi]
    BY <1>4, <1>5
  <2>2. m.lo + 1 = low
    BY <1>1, <1>3, <1>5 DEF Words
  <2> QED
    BY <1>1, <1>3, <2>1, <2>2 DEF U64, Number, Words
<1>6. CASE c = 1
  <2>1. m.lo + 1 = WORD + low /\ low \in Nat
    BY <1>1, <1>3, <1>6 DEF Words
  <2>2. m.hi * WORD + WORD < WORD * WORD
    BY <1>1, <2>1 DEF Number, Words
  <2>3. (m.hi + 1) * WORD < WORD * WORD
    BY <1>1, <2>2, Distribute DEF Words
  <2>4. m.hi + 1 < WORD
    BY <1>1, <2>3, CancelFactor DEF Words
  <2>5. Add32(m.hi, 1) = m.hi + 1 /\ m.hi + 1 \in Words
    <3>1. m.hi + 1 \in 0 .. WORD - 1
      BY <1>1, <2>4 DEF Words
    <3>2. (m.hi + 1) % WORD = m.hi + 1
      BY <3>1, WordFacts, SmallRemainder
    <3> QED
      BY <3>1, <3>2 DEF Add32, Words
  <2>6. (m.hi + 1) * WORD = m.hi * WORD + WORD
    BY <1>1, Distribute DEF Words
  <2>7. Increment(m) = [lo |-> low, hi |-> m.hi + 1]
    BY <1>4, <1>6, <2>5
  <2>8. m.hi * WORD \in Int /\ m.lo \in Int
    BY <1>1 DEF Words
  <2> QED
    BY <1>1, <1>3, <2>1, <2>5, <2>6, <2>7, <2>8 DEF U64, Number
<1> QED
  BY <1>3, <1>5, <1>6

\* The test of the top bit finds the binade of the product.
LEMMA TopBit ==
    ASSUME NEW p, FourWords(p), ONE * ONE <= Joined(p), Joined(p) < 4 * (ONE * ONE),
           NEW d, d = IF TwoBinades(p) THEN 2 * TOP ELSE TOP
    PROVE  /\ p[4] < d
           /\ ONE * (d * WORD) <= Joined(p) /\ Joined(p) < 2 * (ONE * (d * WORD))
<1> DEFINE N == WORD
           X == (N * N) * N
           rest == (p[3] * N + p[2]) * N + p[1]
<1>1. PICK k \in Nat \ {0} : N * k = 2 * TOP * TOP /\ (2 * TOP * TOP) \div N = k
  BY Layout
<1>2. /\ N \in Nat \ {0} /\ TOP \in Nat \ {0} /\ 2 * TOP <= N
      /\ p[4] \in Nat /\ p[3] \in 0 .. N - 1 /\ p[2] \in 0 .. N - 1 /\ p[1] \in 0 .. N - 1
  <2>1. PICK q \in Nat \ {0} : WORD = (2 * TOP) * q
    BY Layout
  <2>2. 1 * (2 * TOP) <= q * (2 * TOP)
    BY LimbAssumption, Monotone
  <2> QED
    BY <2>1, <2>2, LimbAssumption, WordFacts DEF FourWords, Words
<1>3. X \in Nat \ {0} /\ ONE \in Nat \ {0}
  BY <1>2 DEF ONE
<1>4. rest \in 0 .. X - 1
  <2>1. p[3] * N + p[2] \in 0 .. N * N - 1
    BY <1>2, TwoDigits
  <2> DEFINE y == p[3] * N + p[2]
  <2>2. y <= N * N - 1 /\ y \in Int /\ N * N - 1 \in Int /\ N \in Nat
    BY <1>2, <2>1
  <2>3. y * N <= (N * N - 1) * N
    BY <2>2, Monotone
  <2>4. (N * N - 1) * N = X - N /\ y * N \in Nat
    BY <1>2, <2>1
  <2> HIDE DEF y, X
  <2>5. y * N + p[1] \in 0 .. X - 1
    BY <1>2, <1>3, <2>3, <2>4
  <2> QED
    BY <2>5 DEF y
<1>5. Joined(p) = p[4] * X + rest
  <2>1. (p[4] * N + p[3]) * N = (p[4] * N) * N + p[3] * N
    BY <1>2, Distribute, p[4] * N \in Int
  <2>2. ((p[4] * N) * N + (p[3] * N + p[2])) * N
          = ((p[4] * N) * N) * N + (p[3] * N + p[2]) * N
    BY <1>2, Distribute, (p[4] * N) * N \in Int, p[3] * N + p[2] \in Int
  <2>3. ((p[4] * N) * N) * N = p[4] * X
    BY <1>2
  <2>4. ((p[4] * N) * N) \in Int /\ p[3] * N \in Int
    BY <1>2
  <2>5. (p[4] * N + p[3]) * N + p[2] = (p[4] * N) * N + (p[3] * N + p[2])
    BY <1>2, <2>1, <2>4
  <2>6. ((p[4] * N) * N) * N \in Int /\ (p[3] * N + p[2]) * N \in Int
    BY <1>2
  <2> QED
    BY <1>2, <2>2, <2>3, <2>5, <2>6 DEF Joined
<1>6. 2 * (ONE * ONE) = k * X
  <2>1. ONE * ONE = (TOP * TOP) * (N * N)
    BY <1>2, Products DEF ONE
  <2>2. (2 * TOP * TOP) * (N * N) = 2 * ((TOP * TOP) * (N * N))
    BY <1>2
  <2>3. (N * k) * (N * N) = k * X
    BY <1>2
  <2> QED
    BY <1>1, <2>1, <2>2, <2>3
<1> HIDE DEF X, rest
<1>7. k <= TOP
  <2>1. (2 * TOP) * k <= N * k
    BY <1>2, Monotone, 2 * TOP \in Int
  <2>2. k * (2 * TOP) <= TOP * (2 * TOP)
    BY <1>1, <1>2, <2>1
  <2>3. ~(TOP * (2 * TOP) < k * (2 * TOP))
    BY <1>2, <2>2
  <2>4. TOP < k => TOP * (2 * TOP) < k * (2 * TOP)
    BY <1>2
  <2> QED
    BY <1>2, <2>3, <2>4
<1>8. k * X \in Nat /\ ONE * ONE \in Nat /\ p[4] * X \in Nat
  BY <1>2, <1>3, Products
<1>9. p[4] < 2 * k
  <2>1. p[4] * X < (2 * k) * X
    <3>1. (2 * k) * X = 2 * (k * X)
      BY <1>3
    <3> QED
      BY <1>4, <1>5, <1>6, <1>8, <3>1
  <2> QED
    BY <1>2, <1>3, <2>1, CancelFactor, 2 * k \in Int
<1>10. TwoBinades(p) <=> (p[4] \div k) % 2 = 1
  BY <1>1 DEF TwoBinades
<1>11. CASE p[4] < k
  <2>1. p[4] \div k = 0
    BY <1>2, <1>11, SmallRemainder
  <2>2. d = TOP
    BY <1>10, <2>1
  <2>3. (p[4] + 1) * X <= k * X
    BY <1>2, <1>3, <1>11, Monotone
  <2>4. (p[4] + 1) * X = p[4] * X + X
    BY <1>2, <1>3
  <2>5. Joined(p) < 2 * (ONE * ONE)
    BY <1>3, <1>4, <1>5, <1>6, <1>8, <2>3, <2>4
  <2> QED
    BY <1>2, <1>7, <1>11, <2>2, <2>5 DEF ONE
<1>12. CASE ~(p[4] < k)
  <2> DEFINE t == p[4] - k
  <2>1. t \in 0 .. k - 1 /\ p[4] = 1 * k + t
    BY <1>2, <1>9, <1>12
  <2> HIDE DEF t
  <2>2. p[4] \div k = 1
    BY <2>1, QuotientRemainder
  <2>3. d = 2 * TOP
    BY <1>10, <2>2
  <2>4. k * X <= p[4] * X
    BY <1>2, <1>3, <1>12, Monotone
  <2>5. ONE * (d * WORD) = 2 * (ONE * ONE)
    <3>1. d * WORD = 2 * ONE
      BY <1>2, <2>3 DEF ONE
    <3> QED
      BY <1>3, <3>1
  <2>6. 2 * (ONE * ONE) <= Joined(p)
    BY <1>3, <1>4, <1>5, <1>6, <1>8, <2>4
  <2> QED
    BY <1>2, <1>7, <1>8, <1>9, <2>3, <2>5, <2>6
<1> QED
  BY <1>11, <1>12

\* A quotient of a number in a binade is a significand.
LEMMA QuotientInBinade ==
    ASSUME NEW K \in Nat, NEW D \in Nat \ {0}, NEW R \in 0 .. D - 1, NEW one \in Nat,
           one * D <= K * D + R, K * D + R < 2 * (one * D)
    PROVE  K \in one .. 2 * one - 1
<1>1. (K + 1) * D = K * D + D /\ (2 * one) * D = 2 * (one * D)
  BY Distribute
<1>2. K * D \in Nat /\ one * D \in Nat
  BY Products
<1>3. one * D < (K + 1) * D /\ K * D < (2 * one) * D
  BY <1>1, <1>2
<1>4. one < K + 1 /\ K < 2 * one
  BY <1>3, CancelFactor, K + 1 \in Int, 2 * one \in Int
<1> QED
  BY <1>4

\* Packing a significand of TOP .. 2 * TOP - 1 with an exponent in range.
LEMMA HighWordPacks ==
    ASSUME NEW e \in 0 .. EXPONENTS - 1, NEW h \in TOP .. 2 * TOP - 1
    PROVE  HighWord(e, h) = (e - 1) * TOP + h
<1>1. TOP \in Nat \ {0} /\ EXPONENTS \in Nat \ {0}
  BY LimbAssumption, LayoutAssumption
<1>2. e * TOP \in 0 .. HIGH - 1 /\ HIGH \in Nat \ {0}
  <2>1. e * TOP <= (EXPONENTS - 1) * TOP
    BY <1>1, Monotone
  <2>2. (EXPONENTS - 1) * TOP = EXPONENTS * TOP - TOP
    BY <1>1
  <2>3. e * TOP \in Nat /\ EXPONENTS * TOP \in Nat \ {0}
    BY <1>1, Products
  <2>4. HIGH = 2 * (EXPONENTS * TOP)
    BY <1>1 DEF HIGH
  <2> QED
    BY <1>1, <2>1, <2>2, <2>3, <2>4
<1>3. (e * TOP) % HIGH = e * TOP
  BY <1>2, SmallRemainder
<1>4. h % TOP = h - TOP
  <2> DEFINE t == h - TOP
  <2>1. t \in 0 .. TOP - 1 /\ h = 1 * TOP + t
    BY <1>1
  <2> HIDE DEF t
  <2>2. h % TOP = t
    BY <1>1, <2>1, QuotientRemainder
  <2> QED
    BY <2>2 DEF t
<1>5. (e - 1) * TOP = e * TOP - TOP
  BY <1>1
<1> QED
  BY <1>1, <1>2, <1>3, <1>4, <1>5 DEF HighWord

\* Halving the significand 2 * ONE gives ONE.
LEMMA HalvedIsOne ==
    ASSUME NEW m \in U64, m.hi = 2 * TOP, m.lo = 0
    PROVE  Halved(m) = [lo |-> 0, hi |-> TOP]
<1>1. PICK w \in Nat \ {0} : WORD = 2 * w /\ WORD \div 2 = w
  <2>1. PICK q \in Nat \ {0} : WORD = (2 * TOP) * q
    BY Layout
  <2>2. TOP * q \in Nat \ {0} /\ WORD = (TOP * q) * 2 + 0
    BY <2>1, LimbAssumption
  <2>3. WORD \div 2 = TOP * q
    <3>1. 0 \in 0 .. 2 - 1
      OBVIOUS
    <3> QED
      BY <2>2, <3>1, QuotientRemainder
  <2> QED
    BY <2>2, <2>3
<1>2. TOP \in Nat /\ WORD \in Nat \ {0}
  BY LimbAssumption, WordFacts
<1>3. Shl32(m.hi, w) = 0
  <2>1. m.hi * w = TOP * WORD + 0
    BY <1>1, <1>2
  <2>2. 0 \in 0 .. WORD - 1
    BY <1>2
  <2>3. (TOP * WORD + 0) % WORD = 0
    BY <1>2, <2>2, QuotientRemainder
  <2> QED
    BY <2>1, <2>3 DEF Shl32
<1>4. (2 * TOP) \div 2 = TOP /\ 0 \div 2 = 0
  BY <1>2
<1> QED
  BY <1>1, <1>3, <1>4 DEF Halved

\* The binade above a significand is seen by one bit of its high word.
LEMMA OverflowTest ==
    ASSUME NEW m \in U64, Number(m) \in ONE .. 2 * ONE
    PROVE  /\ Number(m) < 2 * ONE => ~Overflows(m) /\ m.hi \in TOP .. 2 * TOP - 1
           /\ Number(m) = 2 * ONE => Overflows(m) /\ m.hi = 2 * TOP /\ m.lo = 0
<1>1. /\ TOP \in Nat \ {0} /\ 2 * TOP \in Nat \ {0} /\ WORD \in Nat \ {0}
      /\ m.hi \in Nat /\ m.lo \in 0 .. WORD - 1 /\ ONE \in Nat
      /\ ONE = TOP * WORD /\ 2 * ONE = (2 * TOP) * WORD
  BY LimbAssumption, WordFacts DEF U64, Words, ONE
<1>2. m.hi * WORD \in Nat /\ (m.hi + 1) * WORD = m.hi * WORD + WORD
  BY <1>1
<1>3. ASSUME Number(m) < 2 * ONE
      PROVE  ~Overflows(m) /\ m.hi \in TOP .. 2 * TOP - 1
  <2>1. m.hi * WORD < (2 * TOP) * WORD /\ TOP * WORD < (m.hi + 1) * WORD
    BY <1>1, <1>2, <1>3 DEF Number
  <2>2. m.hi < 2 * TOP /\ TOP < m.hi + 1
    BY <1>1, <2>1, CancelFactor, m.hi + 1 \in Int
  <2>3. m.hi \div (2 * TOP) = 0
    BY <1>1, <2>2, SmallRemainder
  <2> QED
    BY <1>1, <2>2, <2>3 DEF Overflows
<1>4. ASSUME Number(m) = 2 * ONE
      PROVE  Overflows(m) /\ m.hi = 2 * TOP /\ m.lo = 0
  <2>1. m.hi * WORD + m.lo = (2 * TOP) * WORD + 0 /\ 0 \in 0 .. WORD - 1
    BY <1>1, <1>4 DEF Number
  <2>2. m.hi = 2 * TOP /\ m.lo = 0
    <3>1. PICK x, y, t \in Nat : x = m.hi /\ y = m.lo /\ t = 2 * TOP /\ y < WORD
      BY <1>1
    <3>2. x * WORD + y = t * WORD + 0 /\ y \in 0 .. WORD - 1
      BY <1>1, <2>1, <3>1
    <3>3. x = t /\ y = 0
      BY <1>1, <2>1, <3>2, Digits
    <3> QED
      BY <3>1, <3>3
  <2>3. m.hi \div (2 * TOP) = 1
    <3>1. m.hi = 1 * (2 * TOP) + 0 /\ 0 \in 0 .. 2 * TOP - 1
      BY <1>1, <2>2
    <3> QED
      BY <1>1, <3>1, QuotientRemainder
  <2> QED
    BY <2>2, <2>3 DEF Overflows
<1> QED
  BY <1>3, <1>4

-----------------------------------------------------------------------------
\* f64_mul rounds correctly.  The product of the whole significands lies in the
\* binade of ONE * ONE or the next; r is that product over ONE, or over 2 * ONE,
\* rounded to nearest even, and the result is the pattern of r in its binade.
\* (r = 2 * ONE is the first number of the binade above, as the pattern says.)
THEOREM F64MulRoundsToNearestEven ==
    ASSUME NEW a \in Normals, NEW b \in Normals, NEW E,
           E = Exponent(a) + Exponent(b) - BIAS, 1 <= E, E + 2 < EXPONENTS
    PROVE  \E shifted \in {0, 1} : \E r \in ONE .. 2 * ONE :
              LET D == IF shifted = 1 THEN 2 * ONE ELSE ONE
              IN  /\ ONE * D <= Whole(a) * Whole(b) /\ Whole(a) * Whole(b) < 2 * (ONE * D)
                  /\ NearestEven(r, Whole(a) * Whole(b), D)
                  /\ Pattern(f64_mul(a, b)) = (E + shifted - 1) * ONE + r
<1> DEFINE p == Limbs(a, b)
           P == Whole(a) * Whole(b)
           shifted == IF TwoBinades(p) THEN 1 ELSE 0
           d == IF TwoBinades(p) THEN 2 * TOP ELSE TOP
           kept == Kept(p, d)
           rounds == RoundsUp(kept, Guard(p, d), Sticky(p, d))
           up == IF rounds THEN 1 ELSE 0
           m == IF rounds THEN Increment(kept) ELSE kept
           over == rounds /\ Overflows(m)
           exponent == E + shifted + (IF over THEN 1 ELSE 0)
           N == WORD
<1>1. /\ TOP \in Nat \ {0} /\ N \in Nat \ {0} /\ ONE \in Nat \ {0} /\ ONE = TOP * N
      /\ EXPONENTS \in Nat \ {0} /\ BIAS \in Nat
  BY LimbAssumption, WordFacts, LayoutAssumption DEF ONE
<1>2. FourWords(p) /\ P = Joined(p)
  BY LimbsExact DEF FourWords, Joined
<1>3. ~f64_is_zero(a) /\ ~f64_is_zero(b)
  <2>1. ASSUME NEW f \in Normals PROVE ~f64_is_zero(f)
    <3>1. EXPONENTS * TOP \in Nat \ {0} /\ f.hi \in 0 .. EXPONENTS * TOP - 1 /\ f.hi >= TOP
      BY <1>1 DEF Normals
    <3>2. f.hi % (EXPONENTS * TOP) = f.hi
      BY <3>1, SmallRemainder
    <3> QED
      BY <1>1, <3>1, <3>2 DEF f64_is_zero
  <2> QED
    BY <2>1
<1>4. E \in Int /\ Exponent(a) \in Nat /\ Exponent(b) \in Nat
  <2>1. ASSUME NEW f \in Normals PROVE Exponent(f) \in Nat
    <3>1. f.hi \in Nat
      BY <1>1 DEF Normals
    <3>2. f.hi \div TOP \in Nat
      BY <1>1, <3>1, Division
    <3>3. (f.hi \div TOP) % EXPONENTS \in 0 .. EXPONENTS - 1
      BY <1>1, <3>2, Division
    <3> QED
      BY <3>3 DEF Exponent
  <2> QED
    BY <1>1, <2>1
<1>5. f64_mul(a, b) = [hi |-> HighWord(exponent, IF over THEN Halved(m).hi ELSE m.hi),
                       lo |-> IF over THEN Halved(m).lo ELSE m.lo]
  <2>1. exponent = Exponent(a) + Exponent(b) - BIAS + shifted + (IF over THEN 1 ELSE 0)
    OBVIOUS
  <2> QED
    BY <1>3, <2>1 DEF f64_mul, Normalised, Rounded, Packed
<1>6. shifted \in {0, 1} /\ (TwoBinades(p) <=> shifted = 1)
  OBVIOUS
<1>7. d = (IF TwoBinades(p) THEN 2 * TOP ELSE TOP)
  OBVIOUS
<1> HIDE DEF p, P, shifted
<1>8. ONE * ONE <= P /\ P < 4 * (ONE * ONE)
  <2> DEFINE x == Whole(a)
             y == Whole(b)
  <2>1. x \in ONE .. 2 * ONE - 1 /\ y \in ONE .. 2 * ONE - 1
    BY WholeFacts
  <2>2. P = x * y
    BY DEF P
  <2> HIDE DEF x, y
  <2>3. ONE * ONE <= x * ONE /\ ONE * x <= y * x
    BY <1>1, <2>1, Monotone
  <2>4. x * y <= (2 * ONE - 1) * y /\ y * (2 * ONE - 1) <= (2 * ONE - 1) * (2 * ONE - 1)
    <3>1. x \in Int /\ y \in Nat /\ 2 * ONE - 1 \in Nat /\ x <= 2 * ONE - 1 /\ y <= 2 * ONE - 1
      BY <1>1, <2>1
    <3> QED
      BY <3>1, Monotone
  <2>5. (2 * ONE - 1) * (2 * ONE - 1) = 4 * (ONE * ONE) - 4 * ONE + 1
    BY <1>1
  <2>6. ONE * x = x * ONE /\ y * x = x * y /\ (2 * ONE - 1) * y = y * (2 * ONE - 1)
    BY <1>1, <2>1
  <2>7. x * y \in Int /\ ONE * ONE \in Int /\ x * ONE \in Int /\ y * (2 * ONE - 1) \in Int
    BY <1>1, <2>1
  <2> QED
    BY <1>1, <2>2, <2>3, <2>4, <2>5, <2>6, <2>7
<1>9. /\ p[4] < d /\ ONE * (d * N) <= P /\ P < 2 * (ONE * (d * N))
  <2>1. ONE * ONE <= Joined(p) /\ Joined(p) < 4 * (ONE * ONE)
    BY <1>2, <1>8
  <2> HIDE DEF d
  <2> QED
    BY <1>2, <1>7, <2>1, TopBit
<1>10. PICK h, q \in Nat \ {0} : d = 2 * h /\ d \div 2 = h /\ d * q = N /\ N \div d = q
  <2>1. PICK half, q \in Nat \ {0} :
           /\ TOP = 2 * half /\ TOP \div 2 = half
           /\ WORD = (2 * TOP) * q /\ WORD \div (2 * TOP) = q
           /\ WORD = TOP * (2 * q) /\ WORD \div TOP = 2 * q
    BY Layout
  <2>2. (2 * TOP) \div 2 = TOP
    BY <1>1
  <2> QED
    BY <1>1, <2>1, <2>2
<1>11. d * N = IF shifted = 1 THEN 2 * ONE ELSE ONE
  BY <1>1, <1>6
<1>12. d \in Nat \ {0} /\ d * N \in Nat \ {0}
  BY <1>1
<1> HIDE DEF d
<1> DEFINE K == kept.hi * N + kept.lo
<1>13. /\ kept.lo \in Words /\ kept.hi \in Words
       /\ P = K * (d * N) + ((p[2] % d) * N + p[1])
  BY <1>2, <1>9, <1>10, <1>12, KeptIsQuotient
<1> HIDE DEF kept
<1>14. kept.lo \in Nat /\ kept.hi \in Nat /\ p[1] \in 0 .. N - 1 /\ p[2] \in Words
  BY <1>2, <1>13 DEF Words, FourWords
<1>15. K \in Nat
  BY <1>1, <1>14
<1> HIDE DEF K
<1>16. PICK g \in {0, 1}, t \in 0 .. h - 1 :
          p[2] % (2 * h) = g * h + t /\ (p[2] \div h) % 2 = g /\ p[2] % h = t
  BY <1>14, GuardAndSticky
<1> DEFINE H == h * N
           s == t * N + p[1]
<1>17. H \in Nat \ {0} /\ d * N = 2 * H /\ s \in 0 .. H - 1
       /\ (s # 0 <=> t # 0 \/ p[1] # 0)
  <2>1. t * N <= (h - 1) * N /\ (h - 1) * N = h * N - N
    <3>1. t \in Int /\ h - 1 \in Int /\ t <= h - 1
      OBVIOUS
    <3> QED
      BY <1>1, <3>1, Monotone
  <2>2. t * N \in Nat /\ h * N \in Nat \ {0} /\ (t # 0 => t * N # 0) /\ (t = 0 => t * N = 0)
    BY <1>1
  <2>3. d * N = 2 * (h * N)
    BY <1>1, <1>10
  <2> QED
    BY <1>1, <1>14, <2>1, <2>2, <2>3
<1>18. (p[2] % d) * N + p[1] = g * H + s
  <2>1. p[2] % d = g * h + t
    BY <1>10, <1>16
  <2>2. (g * h + t) * N = (g * h) * N + t * N
    BY <1>1, Distribute, g * h \in Int
  <2>3. (g * h) * N = g * (h * N)
    BY <1>1
  <2>4. t * N \in Int /\ g * (h * N) \in Int
    BY <1>1
  <2> QED
    BY <1>14, <2>1, <2>2, <2>3, <2>4
<1> HIDE DEF H, s
<1>19. P = K * (2 * H) + (g * H + s)
  BY <1>13, <1>17, <1>18
<1>20. K % 2 = kept.lo % 2
  <2>1. PICK w \in Nat : N = 2 * w
    BY <1>10
  <2>2. kept.hi * w \in Nat /\ K = (kept.hi * w) * 2 + kept.lo
    BY <1>14, <2>1 DEF K
  <2>3. ((kept.hi * w) * 2 + kept.lo) % 2 = kept.lo % 2
    BY <1>14, <2>2, AddMultiple
  <2> QED
    BY <2>2, <2>3
<1>21. rounds <=> g = 1 /\ (s # 0 \/ K % 2 = 1)
  <2>1. Guard(p, d) = g
    BY <1>10, <1>16 DEF Guard
  <2>2. Sticky(p, d) <=> t # 0 \/ p[1] # 0
    BY <1>10, <1>16 DEF Sticky
  <2> QED
    BY <1>17, <1>20, <2>1, <2>2 DEF RoundsUp
<1>22. up \in {0, 1} /\ (up = 1 <=> rounds)
  OBVIOUS
<1> HIDE DEF rounds
<1> DEFINE r == K + up
<1>23. NearestEven(r, P, 2 * H)
  <2> HIDE DEF up
  <2>1. NearestEven(K + up, K * (2 * H) + (g * H + s), 2 * H)
    BY <1>15, <1>17, <1>21, <1>22, RoundingIsNearest
  <2> QED
    BY <1>19, <2>1
<1>24. K \in ONE .. 2 * ONE - 1
  <2> DEFINE R == g * H + s
             D == 2 * H
  <2>1. R \in 0 .. D - 1 /\ D \in Nat \ {0}
    BY <1>17
  <2>2. ONE * D <= K * D + R /\ K * D + R < 2 * (ONE * D)
    BY <1>9, <1>17, <1>19
  <2> HIDE DEF R, D
  <2> QED
    BY <1>1, <1>15, <2>1, <2>2, QuotientInBinade
<1>25. kept \in U64 /\ Number(kept) = K
  <2>1. kept = [lo |-> kept.lo, hi |-> kept.hi]
    BY DEF kept, Kept
  <2>2. Number(kept) = K
    BY DEF Number, K
  <2> QED
    BY <1>13, <2>1, <2>2 DEF U64
<1>26. m \in U64 /\ Number(m) = r
  <2>1. CASE rounds
    <3>1. Number(kept) + 1 < WORD * WORD
      <4>1. 2 * TOP + 1 <= N
        BY <1>1, LimbAssumption
      <4>2. (2 * TOP + 1) * N <= N * N
        BY <1>1, <4>1, Monotone, 2 * TOP + 1 \in Int
      <4>3. (2 * TOP + 1) * N = 2 * ONE + N
        BY <1>1
      <4>4. N * N \in Int
        BY <1>1
      <4> QED
        BY <1>1, <1>24, <1>25, <4>2, <4>3, <4>4
    <3>2. m = Increment(kept) /\ r = Number(kept) + 1
      BY <1>25, <2>1
    <3> QED
      BY <1>25, <3>1, <3>2, IncrementAdds
  <2>2. CASE ~rounds
    <3>1. m = kept /\ r = K
      BY <1>15, <2>2
    <3> QED
      BY <1>25, <3>1
  <2> QED
    BY <2>1, <2>2
<1>27. r \in ONE .. 2 * ONE /\ (~rounds => r < 2 * ONE)
  BY <1>1, <1>22, <1>24
<1> HIDE DEF m, r, up
<1>28. ASSUME r < 2 * ONE
      PROVE  Pattern(f64_mul(a, b)) = (E + shifted - 1) * ONE + r
  <2>1. ~over /\ m.hi \in TOP .. 2 * TOP - 1
    BY <1>26, <1>27, <1>28, OverflowTest
  <2>2. exponent = E + shifted /\ exponent \in 0 .. EXPONENTS - 1
    BY <1>1, <1>4, <1>6, <2>1
  <2>3. f64_mul(a, b) = [hi |-> HighWord(exponent, m.hi), lo |-> m.lo]
    BY <1>5, <2>1
  <2> HIDE DEF over, exponent
  <2>4. HighWord(exponent, m.hi) = (exponent - 1) * TOP + m.hi
    BY <2>1, <2>2, HighWordPacks
  <2>5. Pattern(f64_mul(a, b)) = ((exponent - 1) * TOP + m.hi) * N + m.lo
    BY <2>3, <2>4 DEF Pattern
  <2>6. ((exponent - 1) * TOP + m.hi) * N = ((exponent - 1) * TOP) * N + m.hi * N
    BY <1>1, <2>1, <2>2, Distribute, (exponent - 1) * TOP \in Int, m.hi \in Int
  <2>7. ((exponent - 1) * TOP) * N = (exponent - 1) * ONE
    BY <1>1, <2>2, Products, exponent - 1 \in Int
  <2>8. r = m.hi * N + m.lo /\ m.hi * N \in Int /\ m.lo \in Int
    BY <1>1, <1>26, <2>1 DEF Number, U64, Words
  <2>9. (exponent - 1) * ONE \in Int
    BY <1>1, <2>2
  <2>10. Pattern(f64_mul(a, b)) = (exponent - 1) * ONE + r
    BY <2>5, <2>6, <2>7, <2>8, <2>9
  <2>11. exponent - 1 = E + shifted - 1
    BY <1>4, <1>6, <2>2
  <2> QED
    BY <2>10, <2>11
<1>29. ASSUME r = 2 * ONE
      PROVE  Pattern(f64_mul(a, b)) = (E + shifted - 1) * ONE + r
  <2>1. rounds /\ over /\ m.hi = 2 * TOP /\ m.lo = 0
    BY <1>26, <1>27, <1>29, OverflowTest
  <2>2. Halved(m) = [lo |-> 0, hi |-> TOP]
    BY <1>26, <2>1, HalvedIsOne
  <2>3. exponent = E + shifted + 1 /\ exponent \in 0 .. EXPONENTS - 1
    BY <1>1, <1>4, <1>6, <2>1
  <2>4. f64_mul(a, b) = [hi |-> HighWord(exponent, TOP), lo |-> 0]
    BY <1>5, <2>1, <2>2
  <2> HIDE DEF over, exponent
  <2>5. HighWord(exponent, TOP) = (exponent - 1) * TOP + TOP
    BY <1>1, <2>3, HighWordPacks
  <2>6. Pattern(f64_mul(a, b)) = ((exponent - 1) * TOP + TOP) * N
    BY <1>1, <2>4, <2>5, <2>3 DEF Pattern
  <2>7. ((exponent - 1) * TOP + TOP) * N = ((exponent - 1) * TOP) * N + ONE
    BY <1>1, <2>3, Distribute, (exponent - 1) * TOP \in Int
  <2>8. ((exponent - 1) * TOP) * N = (exponent - 1) * ONE
    BY <1>1, <2>3, Products, exponent - 1 \in Int
  <2>9. exponent - 1 = E + shifted - 1 + 1
    BY <1>4, <1>6, <2>3
  <2>10. (E + shifted - 1 + 1) * ONE = (E + shifted - 1) * ONE + ONE
    BY <1>1, <1>4, <1>6
  <2>11. (E + shifted - 1) * ONE \in Int
    BY <1>1, <1>4, <1>6
  <2> QED
    BY <1>1, <1>29, <2>6, <2>7, <2>8, <2>9, <2>10, <2>11
<1>30. Pattern(f64_mul(a, b)) = (E + shifted - 1) * ONE + r
  <2>1. r < 2 * ONE \/ r = 2 * ONE
    BY <1>1, <1>27
  <2> QED
    BY <1>28, <1>29, <2>1
<1>31. 2 * H = IF shifted = 1 THEN 2 * ONE ELSE ONE
  BY <1>11, <1>17
<1>32. ONE * (2 * H) <= P /\ P < 2 * (ONE * (2 * H))
  BY <1>9, <1>17
<1> QED
  BY <1>6, <1>23, <1>27, <1>30, <1>31, <1>32 DEF P

-----------------------------------------------------------------------------
(* The keystream of a draw.                                                *)

\* The draw's keystream and its cache.
DrawStreams ==
    [key : {StreamKey(draw.seed, draw.i)}, block : [0 .. BLOCK - 1 -> Nat],
     block_index : Nat, word : Nat, loaded : BOOLEAN]

CacheIsFresh(s) ==
    s.loaded => \A j \in 0 .. BLOCK - 1 : s.block[j] = s.block_index * BLOCK + j

\* The reader between two steps, once the invocation has forked its substream.
Reading ==
    /\ stream \in DrawStreams
    /\ CacheIsFresh(stream)
    /\ taken = stream.word

Unlaunched == pc \in {"divide", "walk"}

IInv ==
    /\ draw \in Draws
    /\ IF Unlaunched THEN stream = NoValue /\ taken = 0 ELSE Reading

\* The keystream read is the one fork_rng keys on the host.
HostKeystream ==
    ~Unlaunched =>
        stream.key = Fork!ForkKey(Number(draw.seed), Number(draw.i))

\* A word is at its place in the block of its number.
LEMMA PlaceInBlock ==
    ASSUME NEW w \in Nat
    PROVE  /\ w \div BLOCK \in Nat /\ w % BLOCK \in 0 .. BLOCK - 1
           /\ (w \div BLOCK) * BLOCK + (w % BLOCK) = w
<1>1. BLOCK \in Nat \ {0}
  BY BlockAssumption
<1> DEFINE c == w \div BLOCK
           r == w % BLOCK
<1>2. c \in Nat /\ r \in 0 .. BLOCK - 1 /\ w = BLOCK * c + r
  BY <1>1, Division
<1> HIDE DEF c, r
<1>3. c * BLOCK + r = w
  BY <1>1, <1>2, Products
<1> QED
  BY <1>2, <1>3 DEF c, r

\* The block the next word is in is held, whether it was loaded before or not.
LEMMA CurrentHoldsWord ==
    ASSUME NEW s \in DrawStreams, CacheIsFresh(s)
    PROVE  /\ Current(s) \in DrawStreams /\ CacheIsFresh(Current(s))
           /\ Current(s).word = s.word
           /\ Current(s).block[s.word % BLOCK] = s.word
<1>1. s.word \in Nat /\ BLOCK \in Nat \ {0}
  BY BlockAssumption DEF DrawStreams
<1> DEFINE n == s.word \div BLOCK
<1>2. n \in Nat /\ s.word % BLOCK \in 0 .. BLOCK - 1 /\ n * BLOCK + (s.word % BLOCK) = s.word
  BY <1>1, PlaceInBlock
<1> HIDE DEF n
<1>3. CASE ~s.loaded \/ s.block_index # n
  <2> DEFINE b == [j \in 0 .. BLOCK - 1 |-> n * BLOCK + j]
  <2>1. Current(s) = [s EXCEPT !.block = b, !.block_index = n, !.loaded = TRUE]
    BY <1>3 DEF Current, chacha_block, n
  <2>2. b \in [0 .. BLOCK - 1 -> Nat]
    <3>1. n * BLOCK \in Nat
      BY <1>1, <1>2, Products
    <3> QED
      BY <1>1, <3>1
  <2>3. b[s.word % BLOCK] = s.word /\ \A j \in 0 .. BLOCK - 1 : b[j] = n * BLOCK + j
    BY <1>2
  <2> HIDE DEF b
  <2> QED
    BY <1>2, <2>1, <2>2, <2>3 DEF DrawStreams, CacheIsFresh
<1>4. CASE s.loaded /\ s.block_index = n
  <2>1. Current(s) = s
    BY <1>4 DEF Current, n
  <2>2. s.block[s.word % BLOCK] = n * BLOCK + (s.word % BLOCK)
    BY <1>2, <1>4 DEF CacheIsFresh
  <2> QED
    BY <1>2, <2>1, <2>2
<1> QED
  BY <1>3, <1>4 DEF DrawStreams

\* Taking a word keeps the reader in order.
LEMMA TakingAWord ==
    ASSUME Reading, NEW w, NextU32(w), draw' = draw
    PROVE  Reading'
<1> DEFINE c == Current(stream)
<1>1. c \in DrawStreams /\ CacheIsFresh(c) /\ c.word = stream.word
      /\ c.block[stream.word % BLOCK] = stream.word
  BY CurrentHoldsWord DEF Reading
<1>2. taken' = stream.word + 1 /\ stream' = [c EXCEPT !.word = @ + 1]
  BY <1>1 DEF NextU32
<1> HIDE DEF c
<1>3. stream' \in DrawStreams /\ stream'.word = stream.word + 1
  BY <1>1, <1>2 DEF DrawStreams
<1>4. stream'.loaded = c.loaded /\ stream'.block = c.block
      /\ stream'.block_index = c.block_index
  BY <1>1, <1>2 DEF DrawStreams
<1>5. CacheIsFresh(stream')
  BY <1>1, <1>4 DEF CacheIsFresh
<1>6. DrawStreams' = DrawStreams
  BY DEF DrawStreams
<1> QED
  BY <1>2, <1>3, <1>5, <1>6 DEF Reading, CacheIsFresh

\* Every step keeps the invariant.
LEMMA Step == IInv /\ [Next]_vars => IInv'
<1> SUFFICES ASSUME IInv, [Next]_vars
             PROVE  IInv'
  OBVIOUS
<1>1. ASSUME UNCHANGED <<draw, stream, taken>>, Unlaunched' <=> Unlaunched
      PROVE  IInv'
  BY <1>1 DEF IInv, Reading, DrawStreams, CacheIsFresh, Unlaunched
<1>2. ASSUME ~Unlaunched, ~Unlaunched', draw' = draw, NEW w, NextU32(w)
      PROVE  IInv'
  BY <1>2, TakingAWord DEF IInv
<1>3. CASE Divide
  BY <1>1, <1>3 DEF Divide, Unlaunched
<1>4. CASE WalkDown
  BY <1>1, <1>4 DEF WalkDown, Unlaunched
<1>5. CASE Launch
  <2>1. stream' = stream_new(draw.seed, draw.i) /\ draw' = draw /\ ~Unlaunched' /\ taken' = 0
    BY <1>5 DEF Launch, Unlaunched, lane, IInv
  <2>2. stream_new(draw.seed, draw.i) \in DrawStreams
    BY BlockAssumption DEF stream_new, DrawStreams
  <2>3. stream_new(draw.seed, draw.i).word = 0 /\ ~stream_new(draw.seed, draw.i).loaded
    BY DEF stream_new
  <2> QED
    BY <2>1, <2>2, <2>3 DEF IInv, Reading, CacheIsFresh, DrawStreams
<1>6. CASE LowWord("theta lo", "theta hi")
  BY <1>2, <1>6 DEF LowWord, Unlaunched, lane
<1>7. CASE Theta
  BY <1>2, <1>7 DEF Theta, Unlaunched, lane
<1>8. CASE LowWord("u lo", "u hi")
  BY <1>2, <1>8 DEF LowWord, Unlaunched, lane
<1>9. CASE U
  BY <1>2, <1>9 DEF U, Unlaunched, lane
<1>10. CASE Compare
  BY <1>1, <1>10 DEF Compare, Unlaunched, lane
<1>11. CASE Reject
  BY <1>2, <1>11 DEF Reject, Unlaunched, lane
<1>12. CASE Accept
  BY <1>2, <1>12 DEF Accept, Unlaunched, lane
<1>13. CASE Hit
  BY <1>1, <1>13 DEF Hit, Unlaunched, lane
<1>14. CASE Stopped \/ UNCHANGED vars
  BY <1>1, <1>14 DEF Stopped, vars, Unlaunched
<1> QED
  BY <1>3, <1>4, <1>5, <1>6, <1>7, <1>8, <1>9, <1>10, <1>11, <1>12, <1>13, <1>14
     DEF Next

\* The words a draw takes are consecutive from the first, however often a block
\* boundary or a rejection comes between (next_u32 of common.wgsl).
THEOREM TakenInOrder == Spec => []WordsInOrder
<1>1. Init => IInv
  BY DEF Init, IInv, Unlaunched
<1>2. IInv => WordsInOrder
  BY DEF IInv, WordsInOrder, Reading
<1> QED
  BY <1>1, <1>2, Step, PTL DEF Spec

\* The keystream those words come from is keyed as fork_rng of engine.rs keys
\* the host's, for every seed and index.
THEOREM ReadsTheHostKeystream == Spec => []HostKeystream
<1>1. Init => IInv
  BY DEF Init, IInv, Unlaunched
<1>2. IInv => HostKeystream
  <2> SUFFICES ASSUME IInv, ~Unlaunched
               PROVE  stream.key = Fork!ForkKey(Number(draw.seed), Number(draw.i))
    BY DEF HostKeystream
  <2>1. draw.seed \in U64 /\ draw.i \in U64
    BY DrawsAssumption DEF IInv
  <2>2. stream.key = StreamKey(draw.seed, draw.i)
    BY DEF IInv, Reading, DrawStreams
  <2> QED
    BY <2>1, <2>2, KeysAgree
<1> QED
  BY <1>1, <1>2, Step, PTL DEF Spec

-----------------------------------------------------------------------------
(* The label of a draw.                                                    *)

\* The place of the leading one of a word.
LEMMA LeadingBitOfWord ==
    ASSUME NEW x \in Words \ {0}
    PROVE  /\ LeadingBit(x) \in 0 .. W - 1
           /\ 2 ^ LeadingBit(x) <= x /\ x < 2 ^ (LeadingBit(x) + 1)
<1>1. W \in Nat /\ x \in Nat \ {0} /\ x < 2 ^ W
  BY LayoutAssumption, WordFacts DEF Words
<1>2. \E p \in 0 .. W - 1 : 2 ^ p <= x /\ x < 2 ^ (p + 1)
  BY <1>1, LeadingOne
<1> QED
  BY <1>2 DEF LeadingBit

\* The zone of gen_range_u32: the largest multiple of k by a power of two that a
\* word can be.
LEMMA ZoneFits ==
    ASSUME NEW k \in Words \ {0}
    PROVE  LET h == 2 ^ (W - 1 - LeadingBit(k))
           IN  h \in Nat \ {0} /\ k * h < WORD /\ k * h \in Nat \ {0} /\ Zone(k) = k * h - 1
<1> DEFINE p == LeadingBit(k)
           e == W - 1 - p
           h == 2 ^ e
<1>1. p \in 0 .. W - 1 /\ k < 2 ^ (p + 1) /\ k \in Nat \ {0} /\ W \in Nat
  BY LeadingBitOfWord, LayoutAssumption, WordFacts DEF Words
<1>2. Zone(k) = Shl32(k, h) - 1
  BY DEF Zone
<1> HIDE DEF p
<1>3. e \in Nat /\ p + 1 \in Nat /\ (p + 1) + e = W
  BY <1>1
<1>4. h \in Nat \ {0} /\ 2 ^ (p + 1) \in Nat /\ WORD = 2 ^ (p + 1) * h
  <2>1. h \in Nat \ {0} /\ 2 ^ (p + 1) \in Nat
    BY <1>3, PowerDoubles
  <2>2. 2 ^ ((p + 1) + e) = 2 ^ (p + 1) * 2 ^ e
    BY <1>3, PowersMultiply
  <2>3. 2 ^ W = WORD
    BY LayoutAssumption
  <2> QED
    BY <1>3, <2>1, <2>2, <2>3
<1> HIDE DEF h
<1>5. (k + 1) * h <= 2 ^ (p + 1) * h
  <2>1. k + 1 \in Int /\ k + 1 <= 2 ^ (p + 1)
    BY <1>1, <1>4
  <2> QED
    BY <1>4, <2>1, Monotone
<1>6. (k + 1) * h = k * h + h /\ k * h \in Nat
  BY <1>1, <1>4
<1>7. k * h < WORD /\ k * h # 0
  <2>1. 1 * h <= k * h
    BY <1>1, <1>4, Monotone
  <2> QED
    BY <1>4, <1>5, <1>6, <2>1
<1>8. Shl32(k, h) = k * h
  BY <1>6, <1>7, WordFacts, SmallRemainder DEF Shl32
<1> QED
  BY <1>2, <1>4, <1>6, <1>7, <1>8 DEF h, e, p

\* A quotient, rounded up.
LEMMA RoundedUp ==
    ASSUME NEW x \in Nat, NEW k \in Nat \ {0}
    PROVE  \E c \in Nat : x <= c * k /\ c * k < x + k
<1> DEFINE q == x \div k
           r == x % k
<1>1. q \in Nat /\ r \in 0 .. k - 1 /\ x = k * q + r
  BY Division
<1> HIDE DEF q, r
<1>2. (q + 1) * k = q * k + k /\ k * q = q * k /\ q * k \in Nat
  BY <1>1
<1>3. CASE r = 0
  BY <1>1, <1>2, <1>3
<1>4. CASE r # 0
  <2>1. x <= (q + 1) * k /\ (q + 1) * k < x + k /\ q + 1 \in Nat
    BY <1>1, <1>2, <1>4
  <2> QED
    BY <2>1
<1> QED
  BY <1>3, <1>4

\* The words accepted for a label are as many, in a row, as the zone is a
\* multiple of k.
LEMMA AcceptedInARow ==
    ASSUME NEW k \in Words \ {0}, NEW l \in 0 .. k - 1
    PROVE  LET h == 2 ^ (W - 1 - LeadingBit(k))
           IN  \E c \in Nat :
                  {w \in Words : Accepts(w, k) /\ RangeLabel(w, k) = l} = c .. c + h - 1
<1> DEFINE h == 2 ^ (W - 1 - LeadingBit(k))
           z == k * h
           x == l * WORD
<1>1. h \in Nat \ {0} /\ z \in Nat \ {0} /\ z < WORD /\ Zone(k) = z - 1
  BY ZoneFits
<1>2. /\ WORD \in Nat \ {0} /\ k \in Nat \ {0} /\ k < WORD /\ l \in Nat /\ l + 1 <= k
      /\ Words = 0 .. WORD - 1
  BY WordFacts DEF Words
<1>3. x \in Nat /\ (l + 1) * WORD = x + WORD
  BY <1>2
<1>4. x + WORD <= k * WORD
  <2>1. (l + 1) * WORD <= k * WORD
    BY <1>2, Monotone
  <2> QED
    BY <1>3, <2>1
<1>5. z = h * k
  BY <1>1, <1>2, Products
<1> HIDE DEF h, z, x
<1>6. PICK c \in Nat : x <= c * k /\ c * k < x + k
  BY <1>2, <1>3, RoundedUp
<1>7. ASSUME NEW w \in Words
      PROVE  Accepts(w, k) /\ RangeLabel(w, k) = l <=> x <= w * k /\ w * k < x + z
  <2> DEFINE m == mul32(w, k)
  <2>1. m \in U64 /\ Number(m) = w * k
    BY Mul32Exact
  <2>2. m.lo \in 0 .. WORD - 1 /\ m.hi \in Nat /\ w * k = m.hi * WORD + m.lo
    BY <1>2, <2>1 DEF Number, U64
  <2>3. Accepts(w, k) /\ RangeLabel(w, k) = l <=> m.lo <= z - 1 /\ m.hi = l
    BY <1>1, <1>2 DEF Accepts, RangeLabel
  <2> HIDE DEF m
  <2>4. ASSUME m.lo <= z - 1, m.hi = l PROVE x <= w * k /\ w * k < x + z
    <3>1. w * k = x + m.lo
      BY <2>2, <2>4 DEF x
    <3> QED
      BY <1>1, <1>3, <2>2, <2>4, <3>1
  <2>5. ASSUME x <= w * k, w * k < x + z PROVE m.lo <= z - 1 /\ m.hi = l
    <3>1. PICK y \in 0 .. z - 1 : w * k = x + y
      <4>1. w * k - x \in 0 .. z - 1
        BY <1>1, <1>2, <1>3, <2>2, <2>5
      <4>2. w * k \in Int
        BY <1>2
      <4> QED
        BY <1>3, <4>1, <4>2
    <3>2. y \in 0 .. WORD - 1 /\ m.hi * WORD + m.lo = l * WORD + y
      BY <1>1, <1>2, <2>2, <3>1 DEF x
    <3>3. m.hi = l /\ m.lo = y
      <4> DEFINE a == m.hi
                 b == m.lo
      <4>1. /\ a \in Nat /\ l \in Nat /\ WORD \in Nat \ {0}
            /\ b \in 0 .. WORD - 1 /\ y \in 0 .. WORD - 1
            /\ a * WORD + b = l * WORD + y
        BY <1>2, <2>2, <3>2
      <4> HIDE DEF a, b
      <4>2. a = l /\ b = y
        BY <4>1, Digits
      <4> QED
        BY <4>2 DEF a, b
    <3> QED
      BY <3>1, <3>3
  <2> QED
    BY <2>3, <2>4, <2>5
<1>8. ASSUME NEW w \in Nat
      PROVE  x <= w * k /\ w * k < x + z <=> w \in c .. c + h - 1
  <2>1. /\ w * k \in Nat /\ c * k \in Nat
        /\ (w + 1) * k = w * k + k /\ (c + h) * k = c * k + z
    <3>1. (c + h) * k = c * k + h * k
      BY <1>1, <1>2, <1>6, Distribute
    <3>2. (w + 1) * k = w * k + k /\ w * k \in Nat /\ c * k \in Nat
      BY <1>2
    <3> QED
      BY <1>5, <3>1, <3>2
  <2>2. ASSUME x <= w * k, w * k < x + z PROVE w \in c .. c + h - 1
    <3>1. c * k < (w + 1) * k
      BY <1>2, <1>3, <1>6, <2>1, <2>2
    <3>2. w * k < (c + h) * k
      BY <1>1, <1>2, <1>3, <1>6, <2>1, <2>2
    <3>3. c < w + 1 /\ w < c + h
      <4>1. w + 1 \in Int /\ c + h \in Int /\ w \in Int /\ c \in Int /\ k \in Nat \ {0}
        BY <1>1, <1>2
      <4> QED
        BY <3>1, <3>2, <4>1, CancelFactor
    <3> QED
      BY <1>1, <3>3
  <2>3. ASSUME w \in c .. c + h - 1 PROVE x <= w * k /\ w * k < x + z
    <3>1. c * k <= w * k
      BY <1>1, <1>2, <2>3, Monotone
    <3>2. (w + 1) * k <= (c + h) * k
      <4>1. w + 1 \in Int /\ c + h \in Int /\ w + 1 <= c + h /\ k \in Nat
        BY <1>1, <1>2, <2>3
      <4> QED
        BY <4>1, Monotone
    <3> QED
      BY <1>1, <1>2, <1>3, <1>6, <2>1, <3>1, <3>2
  <2> QED
    BY <2>2, <2>3
<1>9. ASSUME NEW w \in c .. c + h - 1 PROVE w \in Words
  <2>1. w \in Nat
    BY <1>1
  <2>2. w * k < x + z
    BY <1>8, <2>1
  <2>3. w * k < WORD * k
    <3>1. w * k \in Nat /\ k * WORD \in Nat /\ WORD * k = k * WORD
      BY <1>2, <2>1
    <3> QED
      BY <1>1, <1>2, <1>3, <1>4, <2>2, <3>1
  <2>4. w < WORD
    BY <1>2, <2>1, <2>3, CancelFactor
  <2> QED
    BY <1>2, <2>1, <2>4
<1>10. \A w \in Words : w \in Nat
  BY <1>2
<1>11. \A w \in Words :
          Accepts(w, k) /\ RangeLabel(w, k) = l <=> w \in c .. c + h - 1
  BY <1>7, <1>8, <1>10
<1>12. {w \in Words : Accepts(w, k) /\ RangeLabel(w, k) = l} = c .. c + h - 1
  BY <1>9, <1>11
<1> QED
  BY <1>12 DEF h

\* For every alphabet: each label is that of equally many accepted words, so no
\* label is favoured (gen_range_u32 of common.wgsl).
THEOREM LabelsUniform == Spec => []LabelsEquallyLikely
<1>1. Init => IInv
  BY DEF Init, IInv, Unlaunched
<1>2. IInv => LabelsEquallyLikely
  <2> SUFFICES ASSUME IInv, NEW l \in 0 .. draw.k - 1
               PROVE  Cardinality({w \in Words :
                          Accepts(w, draw.k) /\ RangeLabel(w, draw.k) = l})
                        = 2 ^ (W - 1 - LeadingBit(draw.k))
    BY DEF LabelsEquallyLikely
  <2> DEFINE h == 2 ^ (W - 1 - LeadingBit(draw.k))
  <2>1. draw.k \in Words \ {0}
    BY DrawsAssumption DEF IInv
  <2>2. h \in Nat \ {0}
    BY <2>1, ZoneFits
  <2>3. PICK c \in Nat :
           {w \in Words : Accepts(w, draw.k) /\ RangeLabel(w, draw.k) = l} = c .. c + h - 1
    BY <2>1, AcceptedInARow
  <2> HIDE DEF h
  <2>4. Cardinality(c .. c + h - 1) = h
    <3>1. c + h - 1 \in Int /\ ~(c > c + h - 1) /\ (c + h - 1) - c + 1 = h
      BY <2>2
    <3> QED
      BY <3>1, FS_Interval
  <2> QED
    BY <2>3, <2>4 DEF h
<1> QED
  BY <1>1, <1>2, Step, PTL DEF Spec

-----------------------------------------------------------------------------
(* binary64 on the host: patterns, significands, rounding.                  *)

\* The unit of a pattern is a power of two above 1.
LEMMA UnitFacts ==
    /\ MANTISSA \in Nat \ {0} /\ Host!Unit \in Nat /\ Host!Unit >= 2
    /\ 2 ^ MANTISSA = Host!Unit /\ 2 ^ (MANTISSA + 1) = 2 * Host!Unit
    /\ 2 ^ (2 * MANTISSA) = Host!Unit * Host!Unit
    /\ 2 ^ (2 * MANTISSA + 1) = 2 * (Host!Unit * Host!Unit)
    /\ 2 ^ (2 * MANTISSA + 2) = 4 * (Host!Unit * Host!Unit)
<1>1. W \in Nat /\ MH \in Nat /\ WORD = 2 ^ W
  BY LayoutAssumption
<1>2. W # 0
  <2>1. 2 ^ 0 = 1
    OBVIOUS
  <2>2. WORD # 1
    <3>1. 1 * 2 <= HALF * 2 /\ 2 <= HALF /\ HALF \in Nat
      BY HalfAssumption
    <3>2. 2 * HALF <= HALF * HALF
      BY <3>1, Monotone
    <3> QED
      BY <3>1, <3>2 DEF WORD
  <2> QED
    BY <1>1, <2>1, <2>2
<1> DEFINE M == MANTISSA
           unit == 2 ^ M
<1>3. M \in Nat \ {0}
  BY <1>1, <1>2 DEF MANTISSA
<1> HIDE DEF M
<1>4. unit \in Nat \ {0} /\ 2 ^ (M + 1) = 2 * unit
  BY <1>3, PowerDoubles
<1>5. unit >= 2
  <2>1. 2 ^ 1 <= unit /\ 2 ^ 1 = 2 * 2 ^ 0 /\ 2 ^ 0 = 1
    <3>1. 2 ^ (0 + 1) = 2 * 2 ^ 0 /\ 0 + 1 = 1 /\ 2 ^ 0 = 1
      BY PowerDoubles
    <3>2. 1 \in Nat /\ 1 <= M
      BY <1>3
    <3> QED
      BY <1>3, <3>1, <3>2, PowersOrdered
  <2> QED
    BY <2>1
<1>6. 2 ^ (M + M) = unit * unit
  BY <1>3, PowersMultiply
<1>7. M + M = 2 * M /\ 2 * M \in Nat /\ 2 * M + 1 \in Nat /\ (2 * M + 1) + 1 = 2 * M + 2
  BY <1>3
<1>8. 2 ^ (2 * M + 1) = 2 * 2 ^ (2 * M) /\ 2 ^ ((2 * M + 1) + 1) = 2 * 2 ^ (2 * M + 1)
  BY <1>7, PowerDoubles
<1>9. unit * unit \in Nat
  BY <1>4, Products
<1> HIDE DEF unit
<1>10. 2 * (2 * (unit * unit)) = 4 * (unit * unit)
  BY <1>9
<1> QED
  BY <1>3, <1>4, <1>5, <1>6, <1>7, <1>8, <1>10 DEF Host!Unit, M, unit

\* A pattern is its exponent and its significand, which has the leading one unless
\* the number is subnormal.
LEMMA PatternFacts ==
    ASSUME NEW x \in Nat
    PROVE  LET e == Host!Exponent(x)
               m == Host!Significand(x)
           IN  /\ e \in Nat \ {0} /\ m \in 0 .. 2 * Host!Unit - 1
               /\ x = (e - 1) * Host!Unit + m /\ Host!Pattern(e, m) = x
               /\ e = 1 \/ m >= Host!Unit
               /\ x # 0 => m # 0
<1> DEFINE unit == Host!Unit
           q == x \div unit
           r == x % unit
           e == Host!Exponent(x)
           m == Host!Significand(x)
<1>1. unit \in Nat \ {0}
  BY UnitFacts
<1>2. e = IF x < unit THEN 1 ELSE q
  BY DEF Host!Exponent
<1>3. m = x - (e - 1) * unit
  BY DEF Host!Significand
<1>4. Host!Pattern(e, m) = (e - 1) * unit + m
  BY DEF Host!Pattern
<1> HIDE DEF unit, e, m
<1>5. q \in Nat /\ r \in 0 .. unit - 1 /\ x = unit * q + r
  BY <1>1, Division
<1> HIDE DEF q, r
<1>6. /\ unit * q = q * unit /\ (q - 1) * unit = q * unit - unit
      /\ (1 - 1) * unit = 0 /\ q * unit \in Nat
  BY <1>1, <1>5
<1>7. CASE x < unit
  <2>1. e = 1 /\ m = x
    BY <1>2, <1>3, <1>6, <1>7
  <2> QED
    BY <1>1, <1>4, <1>6, <1>7, <2>1 DEF e, m, unit
<1>8. CASE x >= unit
  <2>1. e = q /\ m = unit + r
    BY <1>1, <1>2, <1>3, <1>5, <1>6, <1>8
  <2>2. q # 0
    <3>1. q = 0 => unit * q = 0
      BY <1>1
    <3> QED
      BY <1>1, <1>5, <1>8, <3>1
  <2>3. (e - 1) * unit + m = x /\ m \in 0 .. 2 * unit - 1 /\ m >= unit /\ m # 0
    BY <1>1, <1>5, <1>6, <2>1
  <2> QED
    BY <1>4, <1>5, <2>1, <2>2, <2>3 DEF e, m, unit
<1> QED
  BY <1>1, <1>7, <1>8

\* An integer of a binade is the pattern it looks like.
LEMMA PatternParts ==
    ASSUME NEW e \in Nat \ {0}, NEW m \in 0 .. 2 * Host!Unit - 1,
           e = 1 \/ m >= Host!Unit
    PROVE  LET x == (e - 1) * Host!Unit + m
           IN  x \in Nat /\ Host!Exponent(x) = e /\ Host!Significand(x) = m
<1> DEFINE unit == Host!Unit
           x == (e - 1) * unit + m
<1>1. unit \in Nat \ {0} /\ m \in 0 .. 2 * unit - 1 /\ (e = 1 \/ m >= unit)
  BY UnitFacts
<1>2. /\ Host!Exponent(x) = IF x < unit THEN 1 ELSE x \div unit
      /\ Host!Significand(x) = x - (Host!Exponent(x) - 1) * unit
  BY DEF Host!Exponent, Host!Significand
<1> HIDE DEF unit
<1>3. /\ (e - 1) * unit \in Nat /\ (e - 1) * unit = e * unit - unit
      /\ e * unit \in Nat /\ (1 - 1) * unit = 0
  <2>1. e - 1 \in Nat
    OBVIOUS
  <2>2. (e - 1) * unit \in Nat
    BY <1>1, <2>1, Products
  <2> QED
    BY <1>1, <2>2
<1>4. x \in Nat
  BY <1>1, <1>3
<1>5. CASE x < unit
  <2>1. e = 1
    <3>1. e >= 2 => e * unit >= 2 * unit
      <4>1. e >= 2 => 2 * unit <= e * unit
        BY <1>1, Monotone
      <4> QED
        BY <1>1, <1>3, <4>1
    <3> QED
      BY <1>1, <1>3, <1>5, <3>1
  <2> QED
    BY <1>1, <1>2, <1>3, <1>5, <1>4, <2>1 DEF unit
<1>6. CASE x >= unit
  <2>1. m >= unit
    BY <1>1, <1>3, <1>6
  <2>2. m - unit \in 0 .. unit - 1 /\ x = e * unit + (m - unit)
    <3>1. m - unit \in 0 .. unit - 1
      BY <1>1, <2>1
    <3>2. \A y \in Int, z \in Nat, v \in Nat : y - z + v = y + (v - z)
      OBVIOUS
    <3>3. m \in Nat
      BY <1>1
    <3> QED
      BY <1>1, <1>3, <3>1, <3>2, <3>3
  <2>3. (e * unit + (m - unit)) \div unit = e
    BY <1>1, <2>2, QuotientRemainder
  <2>4. Host!Exponent(x) = e
    BY <1>1, <1>2, <1>3, <1>6, <2>2, <2>3
  <2>5. Host!Significand(x) = m
    BY <1>1, <1>2, <1>3, <1>4, <2>4
  <2> QED
    BY <1>4, <2>4, <2>5 DEF unit
<1> QED
  BY <1>1, <1>5, <1>6 DEF unit

\* Rounding moves a quotient by less than one, and never over an integer.
LEMMA RoundBounds ==
    ASSUME NEW num \in Nat, NEW den \in Nat \ {0}
    PROVE  LET r == Host!RoundEven(num, den)
           IN  /\ r \in {num \div den, num \div den + 1} /\ r \in Nat
               /\ (r - 1) * den <= num
               /\ \A m \in Nat : num <= m * den => r <= m
               /\ \A m \in Nat : m * den <= num => m <= r
<1> DEFINE q == num \div den
           s == num % den
           r == Host!RoundEven(num, den)
<1>1. q \in Nat /\ s \in 0 .. den - 1 /\ num = den * q + s
  BY Division
<1>2. r = IF 2 * s > den \/ (2 * s = den /\ q % 2 = 1) THEN q + 1 ELSE q
  BY DEF Host!RoundEven
<1>3. r \in {q, q + 1} /\ (s = 0 => r = q)
  <2> HIDE DEF q, s, r
  <2> QED
    BY <1>1, <1>2
<1> HIDE DEF q, s, r
<1>4. r \in Nat /\ r - 1 <= q
  BY <1>1, <1>3
<1>5. (r - 1) * den <= q * den /\ q * den = den * q /\ q * den \in Nat
  BY <1>1, <1>4, Monotone
<1>6. (r - 1) * den <= num
  <2>1. (r - 1) * den \in Int
    BY <1>4
  <2> QED
    BY <1>1, <1>5, <2>1
<1>7. ASSUME NEW m \in Nat, num <= m * den PROVE r <= m
  <2>1. m * den \in Nat
    BY Products
  <2>2. CASE s = 0
    <3>1. q * den < (m + 1) * den
      BY <1>1, <1>5, <1>7, <2>1, <2>2
    <3>2. q < m + 1
      BY <1>1, <3>1, CancelFactor
    <3> QED
      BY <1>1, <1>3, <2>2, <3>2
  <2>3. CASE s # 0
    <3>1. q * den < m * den
      BY <1>1, <1>5, <1>7, <2>1, <2>3
    <3>2. q < m
      BY <1>1, <3>1, CancelFactor
    <3> QED
      BY <1>1, <1>3, <3>2
  <2> QED
    BY <2>2, <2>3
<1>8. ASSUME NEW m \in Nat, m * den <= num PROVE m <= r
  <2>1. m * den \in Nat /\ (q + 1) * den = q * den + den
    BY <1>1, Products
  <2>2. m * den < (q + 1) * den
    BY <1>1, <1>5, <1>8, <2>1
  <2>3. m < q + 1
    BY <1>1, <2>2, CancelFactor
  <2> QED
    BY <1>1, <1>3, <2>3
<1> QED
  BY <1>3, <1>4, <1>6, <1>7, <1>8 DEF r, q

\* The leading bit of a product of significands.
LEMMA HostLeadingBit ==
    ASSUME NEW x \in Nat, NEW j \in 0 .. 2 * MANTISSA + 1, 2 ^ j <= x, x < 2 ^ (j + 1)
    PROVE  Host!LeadingBit(x) = j
<1>1. MANTISSA \in Nat
  BY UnitFacts
<1> DEFINE p == Host!LeadingBit(x)
<1>2. p \in 0 .. 2 * MANTISSA + 1 /\ 2 ^ p <= x /\ x < 2 ^ (p + 1)
  BY DEF Host!LeadingBit
<1> HIDE DEF p
<1>3. p \in Nat /\ j \in Nat
  BY <1>1, <1>2
<1> QED
  BY <1>2, <1>3, LeadingOneUnique DEF p

-----------------------------------------------------------------------------
(* The host's products.                                                     *)

\* A product of nonzero numbers: rounded to the spacing of its own binade, or, if
\* that is below the least, to that of the subnormal numbers.
LEMMA ProductCases ==
    ASSUME NEW x \in Nat \ {0}, NEW y \in Nat \ {0}
    PROVE  LET unit == Host!Unit
               p == Host!Significand(x) * Host!Significand(y)
               e == Host!Exponent(x) + Host!Exponent(y) - BIAS - MANTISSA
           IN  /\ p \in Nat \ {0} /\ p < 4 * (unit * unit)
               /\ e >= 1 - MANTISSA /\ unit * unit <= p =>
                     Host!Product(x, y) =
                         IF p < 2 * (unit * unit)
                         THEN Host!Pattern(e + MANTISSA, Host!RoundEven(p, unit))
                         ELSE Host!Pattern(e + MANTISSA + 1, Host!RoundEven(p, 2 * unit))
               /\ e = -MANTISSA =>
                     Host!Product(x, y) = Host!Pattern(1, Host!RoundEven(p, 2 * unit))
<1> DEFINE unit == Host!Unit
           M == MANTISSA
           a == Host!Significand(x)
           b == Host!Significand(y)
           p == a * b
           e == Host!Exponent(x) + Host!Exponent(y) - BIAS - M
           l == Host!LeadingBit(p)
           s == Host!LargerOf(l - M, 1 - e)
<1>1. /\ M \in Nat \ {0} /\ unit \in Nat /\ unit >= 2 /\ 2 ^ M = unit /\ 2 ^ (M + 1) = 2 * unit
      /\ 2 ^ (2 * M) = unit * unit /\ 2 ^ (2 * M + 1) = 2 * (unit * unit)
      /\ 2 ^ (2 * M + 2) = 4 * (unit * unit)
  BY UnitFacts
<1>2. a \in 1 .. 2 * unit - 1 /\ b \in 1 .. 2 * unit - 1 /\ e \in Int
  <2>1. /\ a \in 0 .. 2 * unit - 1 /\ a # 0 /\ b \in 0 .. 2 * unit - 1 /\ b # 0
        /\ Host!Exponent(x) \in Nat /\ Host!Exponent(y) \in Nat
    BY PatternFacts
  <2> HIDE DEF unit, a, b, M
  <2> QED
    BY <1>1, <2>1, LayoutAssumption
<1>3. Host!Product(x, y) =
         IF s > 2 * M + 2 THEN 0 ELSE Host!Pattern(e + s, Host!RoundEven(p, 2 ^ s))
  BY DEF Host!Product
<1>4. s = IF l - M > 1 - e THEN l - M ELSE 1 - e
  BY DEF Host!LargerOf
<1> HIDE DEF s
<1>5. \A j \in 0 .. 2 * M + 1 : p \in Nat /\ 2 ^ j <= p /\ p < 2 ^ (j + 1) => l = j
  BY HostLeadingBit
<1> HIDE DEF unit, M, a, b, e, l
<1>6. p \in Nat \ {0} /\ p < 4 * (unit * unit)
  <2>1. 1 * b <= a * b
    BY <1>1, <1>2, Monotone
  <2>2. a * b <= (2 * unit) * b
    BY <1>1, <1>2, Monotone
  <2>3. b * (2 * unit) <= (2 * unit - 1) * (2 * unit)
    BY <1>1, <1>2, Monotone
  <2>4. /\ (2 * unit - 1) * (2 * unit) = 4 * (unit * unit) - 2 * unit
        /\ (2 * unit) * b = b * (2 * unit)
    BY <1>1, <1>2
  <2>5. p \in Int /\ (2 * unit) * b \in Int /\ unit * unit \in Int
    BY <1>1, <1>2
  <2> HIDE DEF p
  <2> QED
    BY <1>1, <1>2, <2>1, <2>2, <2>3, <2>4, <2>5 DEF p
<1>7. unit * unit \in Nat
  BY <1>1, Products
<1> HIDE DEF p
<1>8. l \in 0 .. 2 * M + 1 /\ 2 ^ l <= p /\ p < 2 ^ (l + 1)
  <2>1. PICK j \in 0 .. 2 * M + 1 : 2 ^ j <= p /\ p < 2 ^ (j + 1)
    <3>1. 2 * M + 2 \in Nat /\ (2 * M + 2) - 1 = 2 * M + 1
      BY <1>1
    <3> QED
      BY <1>1, <1>6, <3>1, LeadingOne
  <2> QED
    BY <1>5, <1>6, <2>1
<1>9. ASSUME e >= 1 - M, unit * unit <= p
      PROVE  Host!Product(x, y) =
                 IF p < 2 * (unit * unit)
                 THEN Host!Pattern(e + M, Host!RoundEven(p, unit))
                 ELSE Host!Pattern(e + M + 1, Host!RoundEven(p, 2 * unit))
  <2>1. CASE p < 2 * (unit * unit)
    <3>1. 2 * M \in 0 .. 2 * M + 1
      BY <1>1
    <3>2. l = 2 * M
      BY <1>1, <1>5, <1>6, <1>9, <2>1, <3>1
    <3>3. s = M
      BY <1>1, <1>2, <1>4, <1>9, <3>2
    <3> QED
      BY <1>1, <1>3, <2>1, <3>3
  <2>2. CASE p >= 2 * (unit * unit)
    <3>1. 2 * M + 1 \in 0 .. 2 * M + 1 /\ (2 * M + 1) + 1 = 2 * M + 2
      BY <1>1
    <3>2. l = 2 * M + 1
      BY <1>1, <1>5, <1>6, <2>2, <3>1
    <3>3. s = M + 1 /\ e + s = e + M + 1
      BY <1>1, <1>2, <1>4, <1>9, <3>2
    <3>4. ~(s > 2 * M + 2) /\ ~(p < 2 * (unit * unit))
      BY <1>1, <1>6, <1>7, <2>2, <3>3
    <3> QED
      BY <1>1, <1>3, <3>3, <3>4
  <2> QED
    BY <1>6, <1>7, <2>1, <2>2
<1>10. ASSUME e = -M
       PROVE  Host!Product(x, y) = Host!Pattern(1, Host!RoundEven(p, 2 * unit))
  <2>1. s = M + 1
    BY <1>1, <1>4, <1>8, <1>10
  <2>2. e + s = 1 /\ ~(s > 2 * M + 2)
    BY <1>1, <1>10, <2>1
  <2> QED
    BY <1>1, <1>3, <2>1, <2>2
<1> QED
  BY <1>6, <1>9, <1>10 DEF unit, M, a, b, p, e

\* The exponents of the samples and of their products.
LEMMA BiasFacts ==
    /\ BIAS \in Nat /\ EXPONENTS \in Nat \ {0} /\ MANTISSA \in Nat \ {0}
    /\ BIAS >= 2 /\ MANTISSA + 2 <= BIAS /\ BIAS + 3 < EXPONENTS
<1>1. MANTISSA \in Nat \ {0} /\ BIAS \in Nat /\ EXPONENTS \in Nat \ {0}
  BY UnitFacts, LayoutAssumption
<1> QED
  BY <1>1, BiasAssumption

\* The parts of max_rand, just below 1.
LEMMA MaxRandFacts ==
    /\ Host!MaxRand \in Nat \ {0}
    /\ Host!Exponent(Host!MaxRand) = BIAS - 1
    /\ Host!Significand(Host!MaxRand) = 2 * Host!Unit - 2
<1> DEFINE unit == Host!Unit
           M == MANTISSA
           v == unit - 1
           h == 2 ^ (M - 1)
           x == Host!MaxRand
<1>1. M \in Nat \ {0} /\ unit \in Nat /\ unit >= 2 /\ 2 ^ M = unit
  BY UnitFacts
<1>2. BIAS \in Nat /\ BIAS >= 2
  BY BiasFacts
<1>3. x = IF v = 0 THEN 0
          ELSE Host!Pattern(Host!LeadingBit(v) + (-M) + BIAS,
                            v * 2 ^ (M - Host!LeadingBit(v)))
  BY DEF Host!MaxRand, Host!Scaled
<1>4. h \in Nat \ {0} /\ 2 ^ ((M - 1) + 1) = 2 * h /\ M - 1 \in Nat /\ (M - 1) + 1 = M
  <2>1. M - 1 \in Nat /\ (M - 1) + 1 = M
    BY <1>1
  <2> QED
    BY <2>1, PowerDoubles
<1>5. unit = 2 * h
  BY <1>1, <1>4
<1>6. Host!LeadingBit(v) = M - 1
  <2>1. v \in Nat /\ h <= v /\ v < unit /\ M - 1 \in 0 .. 2 * M + 1
    BY <1>1, <1>4, <1>5
  <2> QED
    BY <1>1, <1>4, <2>1, HostLeadingBit
<1>7. 2 ^ (M - (M - 1)) = 2
  <2>1. 2 ^ 0 = 1 /\ 2 ^ (0 + 1) = 2 * 2 ^ 0 /\ 0 + 1 = 1
    BY PowerDoubles
  <2>2. M - (M - 1) = 1
    BY <1>1
  <2>3. 2 ^ 1 = 2
    BY <2>1
  <2> HIDE DEF M
  <2> QED
    BY <2>2, <2>3, Zenon
<1>8. x = Host!Pattern(BIAS - 1, 2 * unit - 2)
  <2>1. v # 0 /\ v * 2 = 2 * unit - 2 /\ (M - 1) + (-M) + BIAS = BIAS - 1
    BY <1>1, <1>2
  <2> QED
    BY <1>3, <1>6, <1>7, <2>1
<1>9. x = ((BIAS - 1) - 1) * unit + (2 * unit - 2)
  BY <1>8 DEF Host!Pattern
<1>10. BIAS - 1 \in Nat \ {0} /\ 2 * unit - 2 \in 0 .. 2 * unit - 1 /\ 2 * unit - 2 >= unit
  BY <1>1, <1>2
<1> HIDE DEF unit, x
<1>11. x \in Nat /\ Host!Exponent(x) = BIAS - 1 /\ Host!Significand(x) = 2 * unit - 2
  BY <1>9, <1>10, PatternParts DEF unit
<1>12. ((BIAS - 1) - 1) * unit \in Nat
  <2>1. (BIAS - 1) - 1 \in Nat
    BY <1>2
  <2> QED
    BY <1>1, <2>1, Products
<1> QED
  BY <1>1, <1>9, <1>11, <1>12 DEF unit, x

-----------------------------------------------------------------------------
(* The scale of an inclusive interval.                                      *)

\* The largest draw of an interval of scale x, by the binade of x.
LEMMA LargestDraw ==
    ASSUME NEW x \in Nat \ {0}
    PROVE  LET unit == Host!Unit
               e == Host!Exponent(x)
               p == Host!Significand(x) * (2 * unit - 2)
           IN  /\ p \in Nat
               /\ e = 1 => Host!Product(x, Host!MaxRand) = Host!RoundEven(p, 2 * unit)
               /\ e > 1 /\ p < 2 * (unit * unit) =>
                     Host!Product(x, Host!MaxRand)
                         = Host!Pattern(e - 1, Host!RoundEven(p, unit))
               /\ e > 1 /\ p >= 2 * (unit * unit) =>
                     Host!Product(x, Host!MaxRand)
                         = Host!Pattern(e, Host!RoundEven(p, 2 * unit))
<1> DEFINE unit == Host!Unit
           M == MANTISSA
           y == Host!MaxRand
           e == Host!Exponent(x)
           a == Host!Significand(x)
           p == a * (2 * unit - 2)
           f == e + (BIAS - 1) - BIAS - M
           P == Host!Product(x, y)
<1>1. unit \in Nat /\ unit >= 2 /\ M \in Nat \ {0} /\ BIAS \in Nat
  BY UnitFacts, LayoutAssumption
<1>2. /\ e \in Nat \ {0} /\ a \in 0 .. 2 * unit - 1 /\ (e = 1 \/ a >= unit)
  BY PatternFacts
<1>3. /\ p \in Nat \ {0}
      /\ f >= 1 - M /\ unit * unit <= p =>
            P = IF p < 2 * (unit * unit)
                THEN Host!Pattern(f + M, Host!RoundEven(p, unit))
                ELSE Host!Pattern(f + M + 1, Host!RoundEven(p, 2 * unit))
      /\ f = -M => P = Host!Pattern(1, Host!RoundEven(p, 2 * unit))
  <2>1. y \in Nat \ {0} /\ Host!Exponent(y) = BIAS - 1 /\ Host!Significand(y) = 2 * unit - 2
    BY MaxRandFacts
  <2> HIDE DEF unit, M, y, e, a, P
  <2> QED
    BY <2>1, ProductCases DEF unit, M, e, a, P
<1> HIDE DEF unit, M, y, e, a, P
<1>4. f = e - 1 - M
  BY <1>1, <1>2
<1>5. unit * unit \in Nat
  BY <1>1, Products
<1>6. ASSUME e = 1 PROVE P = Host!RoundEven(p, 2 * unit)
  <2>1. f = -M
    BY <1>1, <1>4, <1>6
  <2>2. P = (1 - 1) * Host!Unit + Host!RoundEven(p, 2 * unit)
    BY <1>3, <2>1 DEF Host!Pattern
  <2>3. Host!RoundEven(p, 2 * unit) \in Nat
    <3>1. p \in Nat /\ 2 * unit \in Nat \ {0}
      BY <1>1, <1>3
    <3> HIDE DEF p
    <3> QED
      BY <3>1, RoundBounds
  <2> QED
    BY <1>1, <2>2, <2>3 DEF unit
<1>7. ASSUME e > 1
      PROVE  /\ f >= 1 - M /\ f + M = e - 1 /\ f + M + 1 = e
             /\ unit * unit <= p
  <2>1. a >= unit
    BY <1>2, <1>7
  <2>2. unit * (2 * unit - 2) <= p
    BY <1>1, <1>2, <2>1, Monotone
  <2>3. unit * (2 * unit - 2) = 2 * (unit * unit) - 2 * unit /\ 2 * unit <= unit * unit
    <3>1. 2 * unit <= unit * unit
      BY <1>1, Monotone
    <3>2. unit * (2 * unit - 2) = 2 * (unit * unit) - 2 * unit
      BY <1>1
    <3> QED
      BY <3>1, <3>2
  <2> HIDE DEF p
  <2> QED
    BY <1>1, <1>2, <1>3, <1>4, <1>5, <1>7, <2>2, <2>3
<1> HIDE DEF p, f
<1>8. ASSUME e > 1, p < 2 * (unit * unit)
      PROVE  P = Host!Pattern(e - 1, Host!RoundEven(p, unit))
  BY <1>3, <1>7, <1>8
<1>9. ASSUME e > 1, p >= 2 * (unit * unit)
      PROVE  P = Host!Pattern(e, Host!RoundEven(p, 2 * unit))
  BY <1>3, <1>5, <1>7, <1>9
<1> QED
  BY <1>3, <1>6, <1>8, <1>9 DEF unit, y, e, a, p, P

\* A scale that is at most the exact quotient does not overshoot.  The quotient is
\* m * unit / (unit - 1) in the binade of high, whose significand is m.
LEMMA BelowQuotient ==
    ASSUME NEW high \in Nat, NEW x \in Nat \ {0}
    PROVE  LET unit == Host!Unit
               m == Host!Significand(high)
               t == Host!Significand(x)
               e == Host!Exponent(high)
           IN  /\ Host!Exponent(x) = e /\ t * (unit - 1) <= m * unit =>
                     ~Host!Overshoots(x, high)
               /\ Host!Exponent(x) = e + 1 /\ (2 * t) * (unit - 1) <= m * unit =>
                     ~Host!Overshoots(x, high)
<1> DEFINE unit == Host!Unit
           m == Host!Significand(high)
           t == Host!Significand(x)
           e == Host!Exponent(high)
           X == Host!Exponent(x)
           p == t * (2 * unit - 2)
           P == Host!Product(x, Host!MaxRand)
<1>1. unit \in Nat /\ unit >= 2
  BY UnitFacts
<1>2. /\ e \in Nat \ {0} /\ m \in 0 .. 2 * unit - 1 /\ (e = 1 \/ m >= unit)
      /\ high = (e - 1) * unit + m
  BY PatternFacts
<1>3. X \in Nat \ {0} /\ t \in 0 .. 2 * unit - 1 /\ (X = 1 \/ t >= unit)
  BY PatternFacts
<1>4. /\ p \in Nat
      /\ X = 1 => P = Host!RoundEven(p, 2 * unit)
      /\ X > 1 /\ p < 2 * (unit * unit) => P = (X - 2) * unit + Host!RoundEven(p, unit)
      /\ X > 1 /\ p >= 2 * (unit * unit) => P = (X - 1) * unit + Host!RoundEven(p, 2 * unit)
  <2>1. X - 1 - 1 = X - 2
    BY <1>3
  <2> HIDE DEF X
  <2> QED
    BY <2>1, LargestDraw DEF Host!Pattern, X
<1>6. Host!Overshoots(x, high) <=> P > high
  BY DEF Host!Overshoots
<1> HIDE DEF unit, m, t, e, X, P
<1>7. /\ m \in Nat /\ m * unit \in Nat /\ t * (unit - 1) \in Nat
      /\ p = 2 * (t * (unit - 1)) /\ (2 * t) * (unit - 1) = p
  <2>1. m \in Nat /\ t \in Nat /\ unit - 1 \in Nat /\ 2 * unit - 2 = (unit - 1) * 2
    <3>1. m \in 0 .. 2 * unit - 1 /\ t \in 0 .. 2 * unit - 1
      BY <1>2, <1>3
    <3>2. \A v \in Int : \A y \in 0 .. v : y \in Nat
      OBVIOUS
    <3> QED
      BY <1>1, <3>1, <3>2
  <2>2. /\ m * unit \in Nat /\ t * (unit - 1) \in Nat
        /\ (t * (unit - 1)) * 2 = t * ((unit - 1) * 2)
        /\ (2 * t) * (unit - 1) = 2 * (t * (unit - 1))
    BY <1>1, <2>1, Products
  <2> QED
    BY <2>1, <2>2
<1>8. /\ unit * unit \in Nat /\ (2 * unit) * unit = 2 * (unit * unit)
      /\ m * (2 * unit) = 2 * (m * unit)
  <2>1. m \in Nat /\ unit * unit \in Nat /\ m * unit \in Nat
    BY <1>1, <1>7, Products
  <2>2. /\ m * (unit * 2) = (m * unit) * 2 /\ 2 * unit = unit * 2
        /\ (2 * unit) * unit = 2 * (unit * unit)
    BY <1>1, <2>1, Products
  <2> QED
    BY <2>1, <2>2
<1> HIDE DEF p
<1>9. \A r \in Nat : /\ (e - 1) * unit + r \in Nat /\ (e - 1) * unit \in Nat
                     /\ r <= m => (e - 1) * unit + r <= high
  <2>1. e - 1 \in Nat
    BY <1>2
  <2>2. (e - 1) * unit \in Nat
    BY <1>1, <2>1, Products
  <2> QED
    BY <1>2, <2>2
<1>10. ASSUME X = e, t * (unit - 1) <= m * unit PROVE P <= high
  <2>1. p <= m * (2 * unit)
    BY <1>7, <1>8, <1>10
  <2>2. Host!RoundEven(p, 2 * unit) \in Nat /\ Host!RoundEven(p, 2 * unit) <= m
    <3>1. p \in Nat /\ 2 * unit \in Nat \ {0} /\ m \in Nat
      BY <1>1, <1>2, <1>4
    <3> HIDE DEF p
    <3> QED
      BY <2>1, <3>1, RoundBounds
  <2>3. CASE X = 1
    <3>1. high = m
      BY <1>1, <1>2, <1>10, <2>3
    <3> QED
      BY <1>4, <2>2, <2>3, <3>1
  <2>4. CASE X > 1 /\ p < 2 * (unit * unit)
    <3>1. Host!RoundEven(p, unit) \in Nat /\ Host!RoundEven(p, unit) <= 2 * unit
      BY <1>1, <1>4, <1>8, <2>4, RoundBounds
    <3>2. (X - 2) * unit = (e - 1) * unit - unit
      BY <1>1, <1>2, <1>10
    <3>3. m >= unit
      BY <1>2, <1>10, <2>4
    <3> QED
      BY <1>1, <1>2, <1>4, <1>9, <2>4, <3>1, <3>2, <3>3
  <2>5. CASE X > 1 /\ p >= 2 * (unit * unit)
    BY <1>4, <1>9, <1>10, <2>2, <2>5
  <2> QED
    BY <1>3, <1>4, <1>8, <2>3, <2>4, <2>5
<1>11. ASSUME X = e + 1, (2 * t) * (unit - 1) <= m * unit PROVE P <= high
  <2>1. p <= m * unit
    BY <1>7, <1>11
  <2>2. p < 2 * (unit * unit)
    <3>1. m * unit <= (2 * unit - 1) * unit
      <4>1. m \in Int /\ 2 * unit - 1 \in Int /\ m <= 2 * unit - 1
        BY <1>1, <1>2
      <4> QED
        BY <1>1, <4>1, Monotone
    <3>2. (2 * unit - 1) * unit = 2 * (unit * unit) - unit
      BY <1>1
    <3> QED
      BY <1>1, <1>4, <1>7, <1>8, <2>1, <3>1, <3>2
  <2>3. Host!RoundEven(p, unit) \in Nat /\ Host!RoundEven(p, unit) <= m
    BY <1>1, <1>2, <1>4, <2>1, RoundBounds
  <2>4. X > 1 /\ (X - 2) * unit = (e - 1) * unit
    BY <1>2, <1>11
  <2> QED
    BY <1>4, <1>9, <2>2, <2>3, <2>4
<1>12. P \in Int /\ high \in Int
  <2>1. unit \in Nat \ {0} /\ 2 * unit \in Nat \ {0} /\ p \in Nat
    BY <1>1, <1>4
  <2>2. Host!RoundEven(p, 2 * unit) \in Nat /\ Host!RoundEven(p, unit) \in Nat
    BY <2>1, RoundBounds
  <2> QED
    BY <1>1, <1>3, <1>4, <1>8, <2>2
<1> QED
  BY <1>6, <1>10, <1>11, <1>12 DEF unit, m, t, e, X

\* A quotient of significands that is too large for one binade fits the next.
LEMMA FarBound ==
    ASSUME NEW unit \in Nat, unit >= 2, NEW m \in 0 .. 2 * unit - 1
    PROVE  m * unit <= (2 * unit) * (2 * (unit - 1))
<1>1. m * unit <= (2 * unit - 1) * unit
  <2>1. m \in Int /\ 2 * unit - 1 \in Int /\ m <= 2 * unit - 1
    OBVIOUS
  <2> QED
    BY <2>1, Monotone
<1>2. 2 * unit <= unit * unit
  BY Monotone
<1>3. (2 * unit - 1) * unit = 2 * (unit * unit) - unit
  OBVIOUS
<1>4. (2 * unit) * (2 * (unit - 1)) = 4 * (unit * unit) - 4 * unit
  OBVIOUS
<1>5. /\ unit * unit \in Nat /\ (2 * unit - 1) * unit \in Int /\ m * unit \in Int
      /\ (2 * unit) * (2 * (unit - 1)) \in Int
  OBVIOUS
<1> QED
  BY <1>1, <1>2, <1>3, <1>4, <1>5

\* The quotient is rounded by less than one step, so one step down is enough.
LEMMA OneStepDown ==
    ASSUME NEW high \in Nat
    PROVE  LET q == Host!Quotient(high)
           IN  q \in Nat /\ (q # 0 => ~Host!Overshoots(q - 1, high))
<1> DEFINE unit == Host!Unit
           den == unit - 1
           e == Host!Exponent(high)
           m == Host!Significand(high)
           num == m * unit
           near == Host!RoundEven(num, den)
           far == Host!RoundEven(num, 2 * den)
           Q == Host!Quotient(high)
<1>1. unit \in Nat /\ unit >= 2 /\ den \in Nat \ {0} /\ 2 * den \in Nat \ {0}
  BY UnitFacts
<1>2. /\ e \in Nat \ {0} /\ m \in 0 .. 2 * unit - 1 /\ (e = 1 \/ m >= unit)
      /\ (high # 0 => m # 0)
  BY PatternFacts
<1>3. Q = IF high = 0 THEN 0
          ELSE IF num \div den < 2 * unit THEN Host!Pattern(e, near)
          ELSE Host!Pattern(e + 1, far)
  BY DEF Host!Quotient
<1>4. \A x \in Nat \ {0} :
         /\ Host!Exponent(x) = e /\ Host!Significand(x) * (unit - 1) <= m * unit =>
               ~Host!Overshoots(x, high)
         /\ Host!Exponent(x) = e + 1 /\ (2 * Host!Significand(x)) * (unit - 1) <= m * unit =>
               ~Host!Overshoots(x, high)
  BY BelowQuotient
<1>5. ~Host!Overshoots(0, high)
  BY DEF Host!Overshoots, Host!Product
<1> HIDE DEF unit, e, m, Q
<1>6. m \in Nat /\ num \in Nat
  <2>1. m \in Nat
    BY <1>1, <1>2
  <2> QED
    BY <1>1, <2>1, Products
<1>7. m * den = num - m /\ (m + 1) * den = num - m + (unit - 1)
  BY <1>1, <1>6
<1>8. \A k \in Nat : k * unit \in Nat /\ (k + 1) * unit = k * unit + unit
  BY <1>1, Products
<1> DEFINE q == num \div den
<1>9. q \in Nat /\ q * den <= num
  <2>1. q \in Nat /\ num % den \in 0 .. den - 1 /\ num = den * q + (num % den)
    BY <1>1, <1>6, Division
  <2>2. den * q = q * den /\ q * den \in Nat
    BY <1>1, <2>1, Products
  <2> HIDE DEF num, q
  <2> QED
    BY <1>1, <1>6, <2>1, <2>2
<1>10. /\ near \in {q, q + 1} /\ near \in Nat /\ (near - 1) * den <= num
       /\ \A k \in Nat : k * den <= num => k <= near
  BY <1>1, <1>6, RoundBounds
<1>11. /\ far \in Nat /\ (far - 1) * (2 * den) <= num
       /\ \A k \in Nat : num <= k * (2 * den) => far <= k
       /\ \A k \in Nat : k * (2 * den) <= num => k <= far
  BY <1>1, <1>6, RoundBounds
<1> HIDE DEF near, far, q
<1>12. CASE high = 0
  BY <1>3, <1>12 DEF Q
<1>13. CASE high # 0 /\ q < 2 * unit
  <2> DEFINE r == near - 1
             x == (e - 1) * unit + r
  <2>1. m <= near /\ (m >= unit => m + 1 <= near)
    <3>1. m * den <= num
      BY <1>1, <1>6, <1>7
    <3>2. m >= unit => (m + 1) * den <= num
      BY <1>1, <1>6, <1>7
    <3>3. m + 1 \in Nat
      BY <1>6
    <3> HIDE DEF num
    <3> QED
      BY <1>6, <1>10, <3>1, <3>2, <3>3
  <2>2. r \in 0 .. 2 * unit - 1 /\ (e = 1 \/ r >= unit)
    BY <1>1, <1>2, <1>6, <1>9, <1>10, <1>13, <2>1
  <2>3. x \in Nat /\ Host!Exponent(x) = e /\ Host!Significand(x) = r
    <3> HIDE DEF r
    <3> QED
      BY <1>2, <2>2, PatternParts DEF unit
  <2>4. Q = x + 1 /\ Q \in Nat /\ Q - 1 = x
    <3>1. e - 1 \in Nat
      BY <1>2
    <3>2. (e - 1) * unit \in Nat
      BY <1>8, <3>1
    <3>3. Q = (e - 1) * unit + near
      BY <1>3, <1>13 DEF q, Host!Pattern, unit
    <3> QED
      BY <1>10, <2>3, <3>2, <3>3
  <2>5. r * (unit - 1) <= m * unit
    BY <1>10
  <2> HIDE DEF r, x
  <2>6. CASE x = 0
    BY <1>5, <2>4, <2>6 DEF Q
  <2>7. CASE x # 0
    BY <1>4, <2>3, <2>4, <2>5, <2>7 DEF Q
  <2> QED
    BY <2>6, <2>7
<1>14. CASE high # 0 /\ ~(q < 2 * unit)
  <2> DEFINE r == far - 1
             x == e * unit + r
  <2>1. (2 * unit) * den <= num
    <3>1. (2 * unit) * den <= q * den
      BY <1>1, <1>9, <1>14, Monotone
    <3>2. (2 * unit) * den \in Nat /\ q * den \in Nat
      BY <1>1, <1>9, Products
    <3> HIDE DEF num, den
    <3> QED
      BY <1>6, <1>9, <3>1, <3>2
  <2>2. unit <= far
    <3>1. unit * (2 * den) = (2 * unit) * den
      BY <1>1
    <3> HIDE DEF num, den
    <3> QED
      BY <1>1, <1>11, <2>1, <3>1
  <2>3. far <= 2 * unit
    <3>4. num <= (2 * unit) * (2 * den)
      BY <1>1, <1>2, FarBound
    <3>5. 2 * unit \in Nat
      BY <1>1
    <3> HIDE DEF num, den
    <3> QED
      BY <1>11, <3>4, <3>5
  <2>4. r \in 0 .. 2 * unit - 1 /\ r >= unit - 1
    BY <1>1, <1>11, <2>2, <2>3
  <2>5. e * unit \in Nat /\ e * unit = (e - 1) * unit + unit /\ (e + 1) - 1 = e
    <3>1. e - 1 \in Nat /\ (e - 1) + 1 = e /\ e \in Nat
      BY <1>2
    <3>2. ((e - 1) + 1) * unit = (e - 1) * unit + unit
      BY <1>8, <3>1
    <3> QED
      BY <1>8, <3>1, <3>2
  <2>6. Q = x + 1 /\ x \in Nat \ {0} /\ Q \in Nat /\ Q - 1 = x
    <3>1. Q = e * unit + far
      <4>1. Q = Host!Pattern(e + 1, far)
        BY <1>3, <1>14 DEF q
      <4>2. Q = ((e + 1) - 1) * unit + far
        BY <4>1 DEF Host!Pattern, unit
      <4> QED
        BY <2>5, <4>2
    <3>2. e * unit >= unit
      <4>1. e - 1 \in Nat
        BY <1>2
      <4>2. (e - 1) * unit \in Nat
        BY <1>8, <4>1
      <4> QED
        BY <1>1, <2>5, <4>2
    <3> QED
      BY <1>1, <1>11, <2>4, <2>5, <3>1, <3>2
  <2>7. CASE r >= unit
    <3>1. Host!Exponent(x) = e + 1 /\ Host!Significand(x) = r
      <4>1. e + 1 \in Nat \ {0} /\ x = ((e + 1) - 1) * unit + r
        BY <1>2, <2>5
      <4> HIDE DEF r, x
      <4> QED
        BY <2>4, <2>7, <4>1, PatternParts DEF unit
    <3>2. (2 * r) * (unit - 1) <= m * unit
      <4>1. (2 * r) * (unit - 1) = r * (2 * den)
        BY <1>1, <2>4
      <4> QED
        BY <1>11, <4>1
    <3> HIDE DEF r, x
    <3> QED
      BY <1>4, <2>6, <3>1, <3>2 DEF Q
  <2>8. CASE r = unit - 1
    <3> DEFINE t == 2 * unit - 1
    <3>1. Host!Exponent(x) = e /\ Host!Significand(x) = t
      <4>1. t \in 0 .. 2 * unit - 1 /\ t >= unit /\ x = (e - 1) * unit + t
        <5>1. t \in 0 .. 2 * unit - 1 /\ t >= unit
          BY <1>1
        <5>2. e - 1 \in Nat
          BY <1>2
        <5>3. (e - 1) * unit \in Nat
          BY <1>8, <5>2
        <5>4. x = ((e - 1) * unit + unit) + (unit - 1)
          BY <2>5, <2>8
        <5>5. \A y \in Nat, z \in Nat : (y + z) + (z - 1) = y + (2 * z - 1)
          OBVIOUS
        <5> QED
          BY <1>1, <5>1, <5>3, <5>4, <5>5
      <4> HIDE DEF t, x
      <4> QED
        BY <1>2, <4>1, PatternParts DEF unit
    <3>2. t * (unit - 1) <= m * unit
      <4>1. t * (unit - 1) <= (2 * unit) * den
        BY <1>1, Monotone
      <4>2. t * (unit - 1) \in Int /\ (2 * unit) * den \in Int
        BY <1>1
      <4> HIDE DEF den
      <4> QED
        BY <1>6, <2>1, <4>1, <4>2
    <3> HIDE DEF t, x
    <3> QED
      BY <1>4, <2>6, <3>1, <3>2 DEF Q
  <2> QED
    BY <1>1, <2>4, <2>7, <2>8
<1> QED
  BY <1>1, <1>9, <1>12, <1>13, <1>14

\* The scale is the quotient, or one step below it if the quotient overshoots.
Walking ==
    /\ draw \in Draws
    /\ pc = "divide" => walked = 0 /\ scale = 0
    /\ pc # "divide" =>
          \/ walked = 0 /\ scale = Host!Quotient(draw.theta_max)
          \/ /\ walked = 1 /\ scale = Host!Quotient(draw.theta_max) - 1
             /\ Host!Quotient(draw.theta_max) # 0
             /\ Host!Overshoots(Host!Quotient(draw.theta_max), draw.theta_max)
    /\ ~Unlaunched => ~Host!Overshoots(scale, draw.theta_max)

\* A draw's hyperparameters are in range.
LEMMA DrawFacts ==
    ASSUME NEW x \in Draws
    PROVE  /\ x.theta_max \in Nat /\ x.k \in Words \ {0} /\ x.start \in 0 .. x.k - 1
           /\ x.seed \in U64 /\ x.i \in U64 /\ x.words \subseteq Words
           /\ x.theta_max <= BIAS * Host!Unit
<1>1. /\ x.theta_max \in 0 .. Host!One /\ x.k \in Words \ {0}
      /\ {x.start, x.base} \subseteq 0 .. x.k - 1
      /\ {x.seed, x.i} \subseteq U64 /\ x.words \subseteq Words
  BY DrawsAssumption
<1>2. Host!One = BIAS * Host!Unit
  BY DEF Host!One
<1>3. BIAS * Host!Unit \in Nat
  BY UnitFacts, LayoutAssumption, Products
<1> QED
  BY <1>1, <1>2, <1>3

\* Every step keeps the invariant.
LEMMA WalkStep == Walking /\ [Next]_vars => Walking'
<1> SUFFICES ASSUME Walking, [Next]_vars
             PROVE  Walking'
  OBVIOUS
<1> DEFINE high == draw.theta_max
           q == Host!Quotient(high)
<1>1. q \in Nat /\ (q # 0 => ~Host!Overshoots(q - 1, high)) /\ high \in Nat
  BY DrawFacts, OneStepDown DEF Walking
<1>2. ~Host!Overshoots(0, high)
  BY <1>1 DEF Host!Overshoots, Host!Product
<1>3. ASSUME UNCHANGED <<draw, scale, walked>>, pc # "divide", pc' # "divide",
             ~Unlaunched' => ~Host!Overshoots(scale, draw.theta_max)
      PROVE  Walking'
  BY <1>3 DEF Walking
<1>4. CASE Divide
  BY <1>4 DEF Divide, Walking, Unlaunched
<1>5. CASE WalkDown
  <2>1. /\ draw' = draw /\ pc' = "walk" /\ pc = "walk" /\ Host!Overshoots(scale, high)
        /\ scale' = scale - 1 /\ walked' = walked + 1
    BY <1>5 DEF WalkDown
  <2>2. walked = 0 /\ scale = q
    BY <1>1, <2>1 DEF Walking
  <2>3. q # 0 /\ Host!Overshoots(q, high)
    BY <1>2, <2>1, <2>2
  <2> QED
    BY <2>1, <2>2, <2>3 DEF Walking, Unlaunched
<1>6. CASE Launch
  BY <1>3, <1>6 DEF Launch, lane
<1>7. CASE LowWord("theta lo", "theta hi")
  BY <1>3, <1>7 DEF LowWord, lane, Walking, Unlaunched
<1>8. CASE Theta
  BY <1>3, <1>8 DEF Theta, lane, Walking, Unlaunched
<1>9. CASE LowWord("u lo", "u hi")
  BY <1>3, <1>9 DEF LowWord, lane, Walking, Unlaunched
<1>10. CASE U
  BY <1>3, <1>10 DEF U, lane, Walking, Unlaunched
<1>11. CASE Compare
  BY <1>3, <1>11 DEF Compare, lane, Walking, Unlaunched
<1>12. CASE Reject \/ Accept \/ Hit
  BY <1>3, <1>12 DEF Reject, Accept, Hit, lane, Walking, Unlaunched
<1>13. CASE Stopped \/ UNCHANGED vars
  BY <1>13 DEF Stopped, vars, lane, Walking, Unlaunched
<1> QED
  BY <1>4, <1>5, <1>6, <1>7, <1>8, <1>9, <1>10, <1>11, <1>12, <1>13 DEF Next

\* For every width and every end of the interval: the walk that makes the interval
\* inclusive takes no step or one ("In practice this runs zero or one times",
\* gpu/mod.rs), and gives up no more than it has to.
THEOREM WalksOnce == Spec => []WalksAtMostOnce
<1>1. Init => Walking
  BY DEF Init, Walking, Unlaunched
<1>2. Walking => WalksAtMostOnce
  <2> SUFFICES ASSUME Walking PROVE WalksAtMostOnce
    OBVIOUS
  <2>1. Host!Quotient(draw.theta_max) \in Nat
    BY DrawFacts, OneStepDown DEF Walking
  <2> QED
    BY <2>1 DEF Walking, WalksAtMostOnce
<1> QED
  BY <1>1, <1>2, WalkStep, PTL DEF Spec

-----------------------------------------------------------------------------
(* The values of a draw's state.                                           *)

\* A remainder of an integer, below zero too.
LEMMA IntegerDivision ==
    ASSUME NEW a \in Int, NEW b \in Nat \ {0}
    PROVE  a \div b \in Int /\ a % b \in 0 .. b - 1 /\ a = b * (a \div b) + (a % b)
  OBVIOUS

\* HighWord packs any exponent, one out of range too, and any mantissa into the
\* high word of a pattern.
LEMMA HighWordType ==
    ASSUME NEW e \in Int, NEW h \in Nat
    PROVE  HighWord(e, h) \in 0 .. HIGH - 1
<1> DEFINE E2 == 2 * EXPONENTS
           x == e * TOP
           d == x \div HIGH
           r == x % HIGH
           j == e - E2 * d
<1>1. TOP \in Nat \ {0} /\ E2 \in Nat \ {0} /\ HIGH = E2 * TOP /\ x \in Int
  BY LimbAssumption, LayoutAssumption DEF HIGH
<1>2. HIGH \in Nat \ {0}
  BY <1>1
<1>3. d \in Int /\ r \in 0 .. HIGH - 1 /\ x = HIGH * d + r
  BY <1>1, <1>2, IntegerDivision
<1> HIDE DEF d, r
<1>4. j \in Int /\ j * TOP = r
  <2>1. E2 * d \in Int /\ j \in Int
    BY <1>1, <1>3
  <2>2. j * TOP = e * TOP - (E2 * d) * TOP
    BY <1>1, <2>1
  <2>3. (E2 * d) * TOP = HIGH * d
    BY <1>1, <1>3
  <2>4. HIGH * d \in Int
    BY <1>2, <1>3
  <2> HIDE DEF j, E2
  <2> QED
    BY <1>1, <1>2, <1>3, <2>1, <2>2, <2>3, <2>4
<1> HIDE DEF j
<1>5. j < E2
  <2>1. j * TOP < E2 * TOP
    BY <1>1, <1>2, <1>3, <1>4
  <2> HIDE DEF E2
  <2> QED
    BY <1>1, <1>4, <2>1, CancelFactor
<1>6. r <= HIGH - TOP
  <2>1. j \in Int /\ E2 - 1 \in Int /\ j <= E2 - 1
    BY <1>1, <1>4, <1>5
  <2>2. j * TOP <= (E2 - 1) * TOP
    BY <1>1, <2>1, Monotone
  <2>3. (E2 - 1) * TOP = E2 * TOP - TOP
    BY <1>1
  <2> HIDE DEF E2
  <2> QED
    BY <1>1, <1>2, <1>4, <2>2, <2>3
<1>7. h % TOP \in 0 .. TOP - 1
  BY <1>1, Division
<1>8. HighWord(e, h) = r + (h % TOP)
  BY DEF HighWord, r, x
<1> HIDE DEF x
<1> QED
  BY <1>1, <1>2, <1>3, <1>6, <1>7, <1>8

\* A shift wraps in a word.
LEMMA ShiftType ==
    ASSUME NEW x \in Nat, NEW power \in Nat
    PROVE  Shl32(x, power) \in Words
<1>1. x * power \in Nat
  BY Products
<1> QED
  BY <1>1, WordFacts, Division DEF Shl32, Words

\* A number made of two parts of words: the bits that leave one word enter the
\* other, and none is in both.
LEMMA JoinedShift ==
    ASSUME NEW x \in Words, NEW y \in Words, NEW d \in Nat \ {0}, NEW q \in Nat \ {0},
           d * q = WORD
    PROVE  x \div d + Shl32(y, q) \in Words
<1>1. x \div d \in 0 .. q - 1 /\ y % d \in 0 .. d - 1 /\ Shl32(y, q) = (y % d) * q
  BY ShiftKeepsLow
<1> DEFINE c == x \div d
           r == y % d
<1> HIDE DEF c, r
<1>2. c \in 0 .. q - 1 /\ r \in 0 .. d - 1
  BY <1>1 DEF c, r
<1>3. r * q <= (d - 1) * q /\ (d - 1) * q = d * q - q /\ r * q \in Nat
  <2>1. r \in Int /\ d - 1 \in Int /\ r <= d - 1 /\ q \in Nat
    BY <1>2
  <2>2. r * q <= (d - 1) * q
    BY <2>1, Monotone
  <2>3. (d - 1) * q = d * q - q
    OBVIOUS
  <2>4. r * q \in Nat
    BY <1>2, Products
  <2> QED
    BY <2>2, <2>3, <2>4
<1>4. c + r * q \in 0 .. WORD - 1
  <2>1. r * q <= WORD - q
    BY <1>3
  <2>2. \A y1 \in Nat : y1 <= WORD - q => c + y1 \in 0 .. WORD - 1
    BY <1>2, WordFacts
  <2> QED
    BY <1>3, <2>1, <2>2
<1> QED
  BY <1>1, <1>4 DEF Words, c, r

\* The conversion of an integer of two words is a number.
LEMMA ScaledType ==
    ASSUME NEW v_hi \in Words, NEW v_lo \in Words, NEW e \in Int
    PROVE  f64_from_scaled_int(v_hi, v_lo, e) \in Numbers
<1> DEFINE p == msb64(v_hi, v_lo)
           s == MANTISSA - p
           m == IF s >= W
                THEN [hi |-> Shl32(v_lo, 2 ^ (s - W)), lo |-> 0]
                ELSE IF s > 0
                THEN [hi |-> Shl32(v_hi, 2 ^ s) + v_lo \div 2 ^ (W - s),
                      lo |-> Shl32(v_lo, 2 ^ s)]
                ELSE [hi |-> v_hi, lo |-> v_lo]
<1>1. W \in Nat /\ MANTISSA \in Nat /\ BIAS \in Nat /\ WORD \in Nat \ {0}
      /\ v_hi \in Nat /\ v_lo \in Nat /\ Words = 0 .. WORD - 1
  BY LayoutAssumption, WordFacts DEF MANTISSA, Words
<1>2. CASE v_hi = 0 /\ v_lo = 0
  <2>1. HIGH \in Nat \ {0}
    BY LimbAssumption, LayoutAssumption DEF HIGH
  <2> QED
    BY <1>1, <1>2, <2>1 DEF f64_from_scaled_int, Zero, Numbers
<1>3. CASE ~(v_hi = 0 /\ v_lo = 0)
  <2>1. p \in Nat
    <3>1. CASE v_hi # 0
      BY <1>1, <3>1, LeadingBitOfWord DEF msb64
    <3>2. CASE v_hi = 0
      BY <1>1, <1>3, <3>2, LeadingBitOfWord DEF msb64
    <3> QED
      BY <3>1, <3>2
  <2>2. s \in Int
    BY <1>1, <2>1
  <2>3. m.hi \in Nat /\ m.lo \in Words
    <3> HIDE DEF p, s
    <3>1. CASE s >= W
      <4>1. 2 ^ (s - W) \in Nat
        BY <1>1, <2>2, <3>1, PowerDoubles
      <4>2. Shl32(v_lo, 2 ^ (s - W)) \in Words
        BY <1>1, <4>1, ShiftType
      <4> QED
        BY <1>1, <3>1, <4>2
    <3>2. CASE ~(s >= W) /\ s > 0
      <4>1. 2 ^ s \in Nat /\ 2 ^ (W - s) \in Nat \ {0}
        BY <1>1, <2>2, <3>2, PowerDoubles
      <4>2. Shl32(v_lo, 2 ^ s) \in Words /\ Shl32(v_hi, 2 ^ s) \in Words
        BY <1>1, <4>1, ShiftType
      <4>3. v_lo \div 2 ^ (W - s) \in Nat
        BY <1>1, <4>1, Division
      <4> QED
        BY <1>1, <3>2, <4>2, <4>3
    <3>3. CASE ~(s >= W) /\ ~(s > 0)
      BY <1>1, <3>3
    <3> QED
      BY <3>1, <3>2, <3>3
  <2>4. f64_from_scaled_int(v_hi, v_lo, e) = [hi |-> HighWord(p + e + BIAS, m.hi), lo |-> m.lo]
    BY <1>3 DEF f64_from_scaled_int
  <2>5. p + e + BIAS \in Int
    BY <1>1, <2>1
  <2> HIDE DEF p, m
  <2> QED
    BY <2>3, <2>4, <2>5, HighWordType DEF Numbers
<1> QED
  BY <1>2, <1>3

\* The columns of a product of words are words.
LEMMA ColumnsType ==
    ASSUME NEW ll \in U64, NEW lh \in U64, NEW hl \in U64, NEW hh \in U64
    PROVE  FourWords(Columns(ll, lh, hl, hh))
<1>1. \A x \in Nat, y \in Nat : Add32(x, y) \in Words /\ Add32(x, y) \in Nat
  <2> TAKE x \in Nat, y \in Nat
  <2>1. x + y \in Nat
    OBVIOUS
  <2>2. (x + y) % WORD \in 0 .. WORD - 1
    BY <2>1, WordFacts, Division
  <2> QED
    BY <2>2, WordFacts DEF Add32, Words
<1>2. \A x \in U64 : x.lo \in Words /\ x.hi \in Words /\ x.lo \in Nat /\ x.hi \in Nat
  BY WordFacts DEF U64, Words
<1>3. \A x, y : Carry(x, y) \in {0, 1}
  BY DEF Carry
<1> DEFINE s1 == Add32(ll.hi, lh.lo)
           p1 == Add32(s1, hl.lo)
           carry == Carry(s1, ll.hi) + Carry(p1, s1)
           s2 == Add32(lh.hi, hl.hi)
           s3 == Add32(s2, carry)
           p2 == Add32(s3, hh.lo)
           carry2 == Carry(s2, lh.hi) + Carry(s3, s2) + Carry(p2, s3)
<1>4. s1 \in Nat /\ s2 \in Nat
  BY <1>1, <1>2
<1>5. p1 \in Words /\ carry \in Nat
  <2>1. p1 \in Words
    BY <1>1, <1>2, <1>4
  <2>2. Carry(s1, ll.hi) \in {0, 1} /\ Carry(p1, s1) \in {0, 1}
    BY <1>3
  <2> HIDE DEF s1, p1
  <2> QED
    BY <2>1, <2>2
<1> HIDE DEF s1, p1, carry
<1>6. s3 \in Nat
  BY <1>1, <1>4, <1>5
<1>7. p2 \in Words
  BY <1>1, <1>2, <1>6
<1>8. carry2 \in Nat
  <2>1. Carry(s2, lh.hi) \in {0, 1} /\ Carry(s3, s2) \in {0, 1} /\ Carry(p2, s3) \in {0, 1}
    BY <1>3
  <2> HIDE DEF s2, s3, p2
  <2> QED
    BY <2>1
<1> HIDE DEF carry2
<1>9. Add32(hh.hi, carry2) \in Words
  BY <1>1, <1>2, <1>8
<1>10. Columns(ll, lh, hl, hh) = <<ll.lo, p1, p2, Add32(hh.hi, carry2)>>
  BY DEF Columns, s1, p1, carry, s2, s3, p2, carry2
<1> HIDE DEF p2
<1> QED
  BY <1>2, <1>5, <1>7, <1>9, <1>10 DEF FourWords

\* Whatever f64_mul keeps of four words, rounds and packs, it is a number.
LEMMA NormalisedType ==
    ASSUME NEW e \in Int, NEW p, FourWords(p)
    PROVE  Normalised(e, p) \in Numbers
<1> DEFINE drop == IF TwoBinades(p) THEN 2 * TOP ELSE TOP
           kept == Kept(p, drop)
           up == RoundsUp(kept, Guard(p, drop), Sticky(p, drop))
           m == IF up THEN Increment(kept) ELSE kept
           over == up /\ Overflows(m)
           f == e + (IF TwoBinades(p) THEN 1 ELSE 0)
<1>1. PICK q \in Nat \ {0} : drop \in Nat \ {0} /\ drop * q = WORD /\ WORD \div drop = q
  <2>1. PICK half, q, k \in Nat \ {0} :
           /\ WORD = (2 * TOP) * q /\ WORD \div (2 * TOP) = q
           /\ WORD = TOP * (2 * q) /\ WORD \div TOP = 2 * q
    BY Layout
  <2>2. TOP \in Nat \ {0} /\ 2 * TOP \in Nat \ {0} /\ 2 * q \in Nat \ {0}
    BY LimbAssumption
  <2> QED
    BY <2>1, <2>2
<1> HIDE DEF drop
<1>2. /\ p[1] \in Words /\ p[2] \in Words /\ p[3] \in Words /\ p[4] \in Words
      /\ WORD \in Nat \ {0}
  BY WordFacts DEF FourWords
<1>3. kept.lo \in Words /\ kept.hi \in Words
  <2>1. \A x, y \in Words : x \div drop + Shl32(y, q) \in Words
    BY <1>1, JoinedShift
  <2>2. kept = [lo |-> p[2] \div drop + Shl32(p[3], q), hi |-> p[3] \div drop + Shl32(p[4], q)]
    BY <1>1 DEF Kept
  <2> QED
    BY <1>2, <2>1, <2>2
<1> HIDE DEF kept, up
<1>4. \A x \in Words : Add32(x, 1) \in Words
  <2> TAKE x \in Words
  <2>1. x + 1 \in Nat
    BY WordFacts DEF Words
  <2> QED
    BY <2>1, WordFacts, Division DEF Add32, Words
<1>5. m.lo \in Words /\ m.hi \in Words
  BY <1>3, <1>4 DEF Increment
<1> HIDE DEF m
<1>6. PICK w \in Nat \ {0} : 2 * w = WORD /\ WORD \div 2 = w
  <2>1. PICK w \in Nat \ {0} : WORD = (2 * TOP) * w
    BY Layout
  <2>2. TOP * w \in Nat \ {0} /\ WORD = (TOP * w) * 2 + 0 /\ 0 \in 0 .. 2 - 1
    BY <2>1, LimbAssumption
  <2>3. WORD \div 2 = TOP * w
    BY <2>2, QuotientRemainder
  <2> QED
    BY <2>2, <2>3
<1>7. Halved(m).lo \in Words /\ Halved(m).hi \in Nat
  <2>1. m.lo \div 2 + Shl32(m.hi, w) \in Words
    BY <1>5, <1>6, JoinedShift
  <2>2. m.hi \div 2 \in Nat
    BY <1>5, WordFacts, Division DEF Words
  <2> QED
    BY <1>6, <2>1, <2>2 DEF Halved
<1>8. m.hi \in Nat
  BY <1>5, WordFacts DEF Words
<1>9. Normalised(e, p) = Packed(f, m, over)
  BY DEF Normalised, Rounded, drop, kept, up, m
<1> DEFINE h == IF over THEN Halved(m).hi ELSE m.hi
           low == IF over THEN Halved(m).lo ELSE m.lo
           x == f + (IF over THEN 1 ELSE 0)
<1>10. Packed(f, m, over) = [hi |-> HighWord(x, h), lo |-> low]
  BY DEF Packed
<1>11. h \in Nat /\ low \in Words /\ x \in Int
  BY <1>5, <1>7, <1>8
<1> HIDE DEF h, low, x, f, over
<1> QED
  BY <1>9, <1>10, <1>11, HighWordType DEF Numbers

\* A product is a number, whatever the exponents: one below the normal range, which
\* f64_mul does not handle, wraps to a wrong number but to a number.
LEMMA ProductType ==
    ASSUME NEW a \in [hi : Nat, lo : Words], NEW b \in [hi : Nat, lo : Words]
    PROVE  f64_mul(a, b) \in Numbers
<1>1. CASE f64_is_zero(a) \/ f64_is_zero(b)
  <2>1. HIGH \in Nat \ {0}
    BY LimbAssumption, LayoutAssumption DEF HIGH
  <2> QED
    BY <1>1, <2>1, WordFacts DEF f64_mul, Zero, Numbers, Words
<1>2. CASE ~(f64_is_zero(a) \/ f64_is_zero(b))
  <2>1. ASSUME NEW f \in [hi : Nat, lo : Words]
        PROVE  f.lo \in Words /\ Significand(f) \in Words /\ Exponent(f) \in Nat
    <3>1. /\ TOP \in Nat \ {0} /\ 2 * TOP < WORD /\ EXPONENTS \in Nat \ {0} /\ f.hi \in Nat
      BY LimbAssumption, LayoutAssumption
    <3>2. f.hi % TOP \in 0 .. TOP - 1 /\ f.hi \div TOP \in Nat
      BY <3>1, Division
    <3>3. (f.hi \div TOP) % EXPONENTS \in Nat
      <4> DEFINE x == f.hi \div TOP
      <4>1. x \in Nat
        BY <3>2
      <4> HIDE DEF x
      <4>2. x % EXPONENTS \in 0 .. EXPONENTS - 1 /\ EXPONENTS \in Nat
        BY <3>1, <4>1, Division
      <4>3. x % EXPONENTS \in Nat
        BY <4>2
      <4> QED
        BY <4>3 DEF x
    <3>4. \A y \in 0 .. TOP - 1 : y + TOP \in 0 .. WORD - 1
      BY <3>1, WordFacts
    <3> QED
      BY <3>2, <3>3, <3>4 DEF Significand, Exponent, Words
  <2>2. FourWords(Limbs(a, b))
    <3>1. /\ mul32(a.lo, b.lo) \in U64 /\ mul32(a.lo, Significand(b)) \in U64
          /\ mul32(Significand(a), b.lo) \in U64
          /\ mul32(Significand(a), Significand(b)) \in U64
      BY <2>1, Mul32Exact
    <3> QED
      BY <3>1, ColumnsType DEF Limbs
  <2>3. Exponent(a) + Exponent(b) - BIAS \in Int
    BY <2>1, LayoutAssumption
  <2>4. f64_mul(a, b) = Normalised(Exponent(a) + Exponent(b) - BIAS, Limbs(a, b))
    BY <1>2 DEF f64_mul
  <2> QED
    BY <2>2, <2>3, <2>4, NormalisedType
<1> QED
  BY <1>1, <1>2

\* A high word has room for two bits more than the mantissa's.
LEMMA RoomInWord == W \in Nat /\ MH \in Nat /\ MH + 1 < W
<1>1. W \in Nat /\ MH \in Nat /\ WORD = 2 ^ W /\ TOP = 2 ^ MH
  BY LayoutAssumption DEF TOP
<1>2. ASSUME W <= MH + 1 PROVE FALSE
  <2>1. 2 ^ W <= 2 ^ (MH + 1)
    BY <1>1, <1>2, PowersOrdered
  <2>2. 2 ^ (MH + 1) = 2 * 2 ^ MH
    BY <1>1, PowerDoubles
  <2> QED
    BY <1>1, <2>1, <2>2, LimbAssumption, WordFacts
<1> QED
  BY <1>1, <1>2

\* A shift within a word, and the opposite one.
LEMMA WordShift ==
    ASSUME NEW k \in Nat, k <= W
    PROVE  /\ 2 ^ k \in Nat \ {0} /\ 2 ^ k * 2 ^ (W - k) = WORD
           /\ 2 ^ (W - k) \in Nat \ {0} /\ WORD \div 2 ^ k = 2 ^ (W - k)
<1> DEFINE x == 2 ^ k
           y == 2 ^ (W - k)
<1>1. W \in Nat /\ WORD = 2 ^ W
  BY LayoutAssumption
<1>2. W - k \in Nat /\ k + (W - k) = W
  BY <1>1
<1>3. x \in Nat \ {0} /\ y \in Nat \ {0}
  BY <1>2, PowerDoubles
<1>4. 2 ^ (k + (W - k)) = x * y
  BY <1>2, PowersMultiply
<1>5. x * y = WORD
  BY <1>1, <1>2, <1>4
<1> HIDE DEF x, y
<1>6. WORD = y * x + 0 /\ 0 \in 0 .. x - 1 /\ y \in Nat
  BY <1>3, <1>5
<1>7. WORD \div x = y
  BY <1>3, <1>6, QuotientRemainder
<1> QED
  BY <1>3, <1>5, <1>7 DEF x, y

\* The two numbers made of the words read from the keystream.
LEMMA SampleTypes ==
    ASSUME NEW low \in Words, NEW w \in Words
    PROVE  /\ standard_f64(low, w) \in Numbers
           /\ \A by \in [hi : Nat, lo : Words] : uniform_f64(low, w, by) \in Numbers
<1> DEFINE keep == 2 ^ (2 * W - MANTISSA)
           less == 2 ^ (2 * W - MANTISSA - 1)
           Value(d, e) == f64_from_scaled_int(w \div d, low \div d + Shl32(w, WORD \div d), e)
<1>1. /\ W \in Nat /\ MH \in Nat /\ WORD = 2 ^ W /\ MANTISSA = W + MH /\ TOP = 2 ^ MH
      /\ MANTISSA \in Nat
  BY LayoutAssumption DEF MANTISSA, TOP
<1>2. MH + 1 < W
  BY RoomInWord
<1>3. ASSUME NEW k \in Nat, k <= W
      PROVE  /\ 2 ^ k \in Nat \ {0} /\ 2 ^ k * 2 ^ (W - k) = WORD
             /\ 2 ^ (W - k) \in Nat \ {0} /\ WORD \div 2 ^ k = 2 ^ (W - k)
  BY <1>3, WordShift
<1>4. ASSUME NEW k \in Nat, k <= W, NEW e \in Int
      PROVE  Value(2 ^ k, e) \in Numbers
  <2> DEFINE d == 2 ^ k
             q == 2 ^ (W - k)
  <2>1. d \in Nat \ {0} /\ q \in Nat \ {0} /\ d * q = WORD /\ WORD \div d = q
    BY <1>3, <1>4
  <2> HIDE DEF d, q
  <2>2. low \div d + Shl32(w, q) \in Words /\ w \div d \in 0 .. q - 1
    BY <2>1, JoinedShift, ShiftKeepsLow
  <2>3. q <= WORD
    <3>1. 1 * q <= d * q
      BY <2>1, Monotone
    <3> QED
      BY <2>1, <3>1
  <2>4. w \div d \in Words
    BY <2>1, <2>2, <2>3, WordFacts DEF Words
  <2> QED
    BY <2>1, <2>2, <2>4, <1>4, ScaledType DEF d
<1>5. 2 * W - MANTISSA = W - MH /\ 2 * W - MANTISSA - 1 = W - MH - 1
  BY <1>1
<1>6. -MANTISSA \in Int /\ -MANTISSA - 1 \in Int
  BY <1>1
<1>7. Value(keep, -MANTISSA) \in Numbers /\ Value(less, -MANTISSA - 1) \in Numbers
  <2>1. /\ W - MH \in Nat /\ W - MH <= W
        /\ W - MH - 1 \in Nat /\ W - MH - 1 <= W
    BY <1>1, <1>2
  <2> QED
    BY <1>4, <1>5, <1>6, <2>1
<1>8. Numbers \subseteq [hi : Nat, lo : Words]
  <2>1. HIGH \in Nat
    BY LimbAssumption, LayoutAssumption DEF HIGH
  <2> QED
    BY <2>1 DEF Numbers
<1> HIDE DEF Value
<1>9. \A by \in [hi : Nat, lo : Words] : f64_mul(Value(keep, -MANTISSA), by) \in Numbers
  BY <1>7, <1>8, ProductType
<1> QED
  BY <1>7, <1>9 DEF uniform_f64, standard_f64, Value

\* Every word is worth a label of the alphabet, whether it is accepted or not.
LEMMA LabelType ==
    ASSUME NEW w \in Words, NEW k \in Words \ {0}
    PROVE  RangeLabel(w, k) \in 0 .. k - 1
<1> DEFINE m == mul32(w, k)
           high == m.hi
           low == m.lo
<1>1. high \in Words /\ low \in Words /\ high * WORD + low = w * k
  BY Mul32Exact DEF U64, Number
<1>2. RangeLabel(w, k) = high
  BY WordFacts DEF RangeLabel, Words
<1> HIDE DEF high, low
<1>3. /\ high \in Nat /\ low \in Nat /\ w \in Nat /\ w < WORD
      /\ k \in Nat \ {0} /\ WORD \in Nat \ {0}
  BY <1>1, WordFacts DEF Words
<1>4. w * k < WORD * k
  <2>1. w + 1 \in Int /\ w + 1 <= WORD
    BY <1>3
  <2>2. (w + 1) * k <= WORD * k
    BY <1>3, <2>1, Monotone
  <2>3. (w + 1) * k = w * k + k /\ w * k \in Nat
    BY <1>3
  <2> QED
    BY <1>3, <2>2, <2>3
<1>5. high * WORD < k * WORD
  <2>1. high * WORD \in Nat /\ w * k \in Nat /\ WORD * k = k * WORD /\ k * WORD \in Nat
    BY <1>3
  <2> QED
    BY <1>1, <1>3, <1>4, <2>1
<1>6. high < k
  BY <1>3, <1>5, CancelFactor
<1> QED
  BY <1>2, <1>3, <1>6

\* The substream an invocation forks.
LEMMA StreamType ==
    ASSUME NEW seed \in U64, NEW i \in U64
    PROVE  StreamKey(seed, i) \in Seq(Words)
<1> DEFINE z == mix64(seed, i)
<1>1. z \in U64
  BY MixAgrees
<1>2. StreamKey(seed, i) = <<z.lo, z.hi, seed.lo, seed.hi, i.lo, i.hi, 0, 0>>
  BY DEF StreamKey
<1> HIDE DEF z
<1>3. \A x \in U64 : x.lo \in Words /\ x.hi \in Words
  BY DEF U64
<1>4. 0 \in Words
  BY WordFacts DEF Words
<1> QED
  BY <1>1, <1>2, <1>3, <1>4

\* The invariant behind the types: the stream's, the walk's, that a variate exists
\* exactly while it is compared, and that the half of a u64 being read is a word.
Typed ==
    /\ IInv
    /\ Walking
    /\ label \in 0 .. draw.k - 1
    /\ theta \in Numbers \cup {NoValue}
    /\ u \in Numbers \cup {NoValue}
    /\ theta # NoValue <=> pc \in {"u lo", "u hi", "compare"}
    /\ u # NoValue <=> pc = "compare"
    /\ pc \in {"theta hi", "u hi"} => lo \in Words
    /\ hit \in {0, 1, NoValue}

\* The types follow.
LEMMA TypedTypes == Typed => TypeOK
<1> SUFFICES ASSUME Typed PROVE TypeOK
  OBVIOUS
<1>1. scale \in Nat /\ walked \in Nat
  <2> DEFINE q == Host!Quotient(draw.theta_max)
  <2>1. q \in Nat
    BY DrawFacts, OneStepDown DEF Typed, Walking
  <2>2. \/ walked = 0 /\ scale = 0
        \/ walked = 0 /\ scale = q
        \/ walked = 1 /\ scale = q - 1 /\ q # 0
    BY DEF Typed, Walking
  <2> HIDE DEF q
  <2> QED
    BY <2>1, <2>2
<1>2. stream \in Streams \cup {NoValue}
  <2>1. draw.seed \in U64 /\ draw.i \in U64
    BY DrawFacts DEF Typed, Walking
  <2>2. DrawStreams \subseteq Streams
    BY <2>1, StreamType DEF DrawStreams, Streams
  <2> QED
    BY <2>2 DEF Typed, IInv, Reading
<1> QED
  BY <1>1, <1>2 DEF TypeOK, Typed, IInv

\* Every step keeps the invariant.
LEMMA TypedStep == Typed /\ [Next]_vars => Typed'
<1> SUFFICES ASSUME Typed, [Next]_vars
             PROVE  Typed'
  OBVIOUS
<1>1. IInv' /\ Walking'
  BY Step, WalkStep DEF Typed
<1>2. draw.words \subseteq Words /\ draw.k \in Words \ {0} /\ draw' = draw
  <2>1. draw.words \subseteq Words /\ draw.k \in Words \ {0}
    BY DrawFacts DEF Typed, Walking
  <2>2. draw' = draw
    BY DEF Next, Divide, WalkDown, Launch, LowWord, Theta, U, Compare, Reject, Accept, Hit,
           Stopped, vars, lane
  <2> QED
    BY <2>1, <2>2
<1>3. ASSUME UNCHANGED <<theta, u, label, hit>>,
             pc \notin {"u lo", "u hi", "compare"}, pc' \notin {"u lo", "u hi", "compare"},
             pc' = "theta hi" => lo' \in Words
      PROVE  Typed'
  BY <1>1, <1>2, <1>3 DEF Typed
<1>4. CASE Divide
  BY <1>3, <1>4 DEF Divide
<1>5. CASE WalkDown
  BY <1>3, <1>5 DEF WalkDown
<1>6. CASE Launch
  BY <1>3, <1>6 DEF Launch, lane
<1>7. CASE LowWord("theta lo", "theta hi")
  BY <1>2, <1>3, <1>7 DEF LowWord
<1>8. CASE Theta
  <2>1. PICK w \in draw.words : theta' = uniform_f64(lo, w, Split(scale))
    BY <1>8 DEF Theta
  <2>2. lo \in Words /\ w \in Words
    BY <1>2, <1>8 DEF Theta, Typed
  <2>3. Split(scale) \in [hi : Nat, lo : Words]
    <3>1. scale \in Nat
      BY TypedTypes DEF TypeOK
    <3> QED
      BY <3>1, WordFacts, Division DEF Split, Words
  <2>4. theta' \in Numbers
    BY <2>1, <2>2, <2>3, SampleTypes
  <2>5. theta' # NoValue
    BY <2>4, NoValueAssumption
  <2> QED
    BY <1>1, <1>2, <1>8, <2>4, <2>5 DEF Theta, Typed, lane
<1>9. CASE LowWord("u lo", "u hi")
  <2>1. UNCHANGED <<theta, u, label, hit>> /\ pc = "u lo" /\ pc' = "u hi" /\ lo' \in Words
    BY <1>2, <1>9 DEF LowWord
  <2> QED
    BY <1>1, <1>2, <2>1 DEF Typed
<1>10. CASE U
  <2>1. PICK w \in draw.words : u' = standard_f64(lo, w)
    BY <1>10 DEF U
  <2>2. lo \in Words /\ w \in Words
    BY <1>2, <1>10 DEF U, Typed
  <2>3. u' \in Numbers /\ u' # NoValue
    BY <2>1, <2>2, SampleTypes, NoValueAssumption
  <2>4. UNCHANGED <<theta, label, hit>> /\ pc = "u hi" /\ pc' = "compare"
    BY <1>10 DEF U
  <2> QED
    BY <1>1, <1>2, <2>3, <2>4 DEF Typed
<1>11. CASE Compare
  <2>1. /\ theta' = NoValue /\ u' = NoValue /\ pc' \in {"range", "eval"}
        /\ UNCHANGED <<label, hit>>
    BY <1>11 DEF Compare
  <2> QED
    BY <1>1, <1>2, <2>1 DEF Typed
<1>12. CASE Reject
  BY <1>3, <1>12 DEF Reject
<1>13. CASE Accept
  <2>1. PICK w \in draw.words : label' = RangeLabel(w, draw.k)
    BY <1>13 DEF Accept
  <2>2. label' \in 0 .. draw.k - 1
    BY <1>2, <2>1, LabelType
  <2>3. UNCHANGED <<theta, u, hit>> /\ pc = "range" /\ pc' = "eval"
    BY <1>13 DEF Accept
  <2> QED
    BY <1>1, <1>2, <2>2, <2>3 DEF Typed
<1>14. CASE Hit
  <2>1. UNCHANGED <<theta, u, label>> /\ hit' \in {0, 1} /\ pc = "eval" /\ pc' = "done"
    BY <1>14 DEF Hit
  <2> QED
    BY <1>1, <1>2, <2>1 DEF Typed
<1>15. CASE Stopped \/ UNCHANGED vars
  BY <1>1, <1>2, <1>15 DEF Stopped, vars, drawn, lane, Typed
<1> QED
  BY <1>4, <1>5, <1>6, <1>7, <1>8, <1>9, <1>10, <1>11, <1>12, <1>13, <1>14, <1>15
     DEF Next

\* A draw starts in the invariant.
LEMMA TypedInit == Init => Typed
<1> SUFFICES ASSUME Init PROVE Typed
  OBVIOUS
<1>1. IInv
  BY DEF Init, IInv, Unlaunched
<1>2. Walking
  BY DEF Init, Walking, Unlaunched
<1>3. draw \in Draws /\ label = draw.start
  BY DEF Init
<1>4. label \in 0 .. draw.k - 1
  BY <1>3, DrawFacts
<1> QED
  BY <1>1, <1>2, <1>4 DEF Init, Typed

\* The type invariant of a draw, for every width: each intermediate wraps or shifts
\* within its word, so an emulated number is always a pattern (f64.wgsl), and the
\* label of gen_range_u32 is below k for every word.
THEOREM TypeCorrect == Spec => []TypeOK
<1>1. Init => Typed
  BY TypedInit
<1> QED
  BY <1>1, TypedTypes, TypedStep, PTL DEF Spec

-----------------------------------------------------------------------------
(* The device's numbers are the host's.                                    *)

\* There is one nearest integer: the rounding of F64MulRoundsToNearestEven is that
\* of the host.
LEMMA NearestIsRoundEven ==
    ASSUME NEW num \in Nat, NEW den \in Nat \ {0}, NEW r, NearestEven(r, num, den)
    PROVE  r = Host!RoundEven(num, den)
<1> DEFINE q == num \div den
           rest == num % den
<1>1. q \in Nat /\ rest \in 0 .. den - 1 /\ num = den * q + rest
  BY Division
<1>2. Host!RoundEven(num, den) =
         IF 2 * rest > den \/ (2 * rest = den /\ q % 2 = 1) THEN q + 1 ELSE q
  BY DEF Host!RoundEven
<1> HIDE DEF q, rest
<1>3. /\ r \in Nat
      /\ 2 * num <= 2 * (r * den) + den /\ 2 * (r * den) <= 2 * num + den
      /\ 2 * num = 2 * (r * den) + den \/ 2 * (r * den) = 2 * num + den => r % 2 = 0
  BY DEF NearestEven
<1>4. 2 * num = 2 * (q * den) + 2 * rest /\ q * den \in Nat /\ r * den \in Nat
  BY <1>1, <1>3
<1>5. r <= q + 1
  <2>1. ASSUME q + 2 <= r PROVE FALSE
    <3>1. (q + 2) * den <= r * den
      <4>1. q + 2 \in Int /\ r \in Int /\ den \in Nat
        BY <1>1, <1>3
      <4> QED
        BY <2>1, <4>1, Monotone
    <3>2. (q + 2) * den = q * den + 2 * den
      BY <1>1
    <3> QED
      BY <1>1, <1>3, <1>4, <3>1, <3>2
  <2> QED
    BY <1>1, <1>3, <2>1
<1>6. q <= r
  <2>1. ASSUME r + 1 <= q PROVE FALSE
    <3>1. (r + 1) * den <= q * den
      <4>1. r + 1 \in Int /\ q \in Int /\ den \in Nat
        BY <1>1, <1>3
      <4> QED
        BY <2>1, <4>1, Monotone
    <3>2. (r + 1) * den = r * den + den
      BY <1>3
    <3>3. 2 * (r * den) + 2 * den <= 2 * (q * den)
      BY <1>4, <3>1, <3>2
    <3>4. 2 * num >= 2 * (r * den) + 2 * den + 2 * rest
      BY <1>1, <1>4, <3>3
    <3>5. 2 * num > 2 * (r * den) + den
      BY <1>1, <1>4, <3>4
    <3> QED
      BY <1>1, <1>3, <1>4, <3>5
  <2> QED
    BY <1>1, <1>3, <2>1
<1>7. CASE r = q
  <2>1. 2 * rest <= den /\ (2 * rest = den => q % 2 = 0)
    BY <1>1, <1>3, <1>4, <1>7
  <2> QED
    BY <1>1, <1>2, <1>7, <2>1
<1>8. CASE r = q + 1
  <2>1. r * den = q * den + den
    BY <1>1, <1>8
  <2>2. den <= 2 * rest /\ (2 * rest = den => (q + 1) % 2 = 0)
    BY <1>1, <1>3, <1>4, <1>8, <2>1
  <2>3. (q + 1) % 2 = 0 => q % 2 = 1
    BY <1>1
  <2> QED
    BY <1>1, <1>2, <1>8, <2>2, <2>3
<1> QED
  BY <1>1, <1>3, <1>5, <1>6, <1>7, <1>8

\* The units of the two models.
LEMMA SameUnit == /\ Host!Unit = ONE /\ ONE \in Nat \ {0} /\ ONE = TOP * WORD
                  /\ TOP \in Nat \ {0} /\ WORD \in Nat \ {0}
<1>1. W \in Nat /\ MH \in Nat /\ WORD = 2 ^ W /\ TOP = 2 ^ MH /\ MANTISSA = W + MH
  BY LayoutAssumption DEF TOP, MANTISSA
<1>2. 2 ^ MANTISSA = WORD * TOP
  BY <1>1, PowersMultiply
<1>3. TOP \in Nat \ {0} /\ WORD \in Nat \ {0}
  BY LimbAssumption, WordFacts
<1>4. WORD * TOP = TOP * WORD /\ TOP * WORD \in Nat \ {0}
  BY <1>3
<1> QED
  BY <1>2, <1>3, <1>4, UnitFacts DEF ONE

\* A normal number on the host: the same exponent, the same significand.
LEMMA NormalOnHost ==
    ASSUME NEW f \in Normals
    PROVE  /\ Exponent(f) \in 1 .. EXPONENTS - 1 /\ Whole(f) \in ONE .. 2 * ONE - 1
           /\ Bits(f) \in Nat \ {0} /\ Bits(f) = (Exponent(f) - 1) * Host!Unit + Whole(f)
           /\ Host!Exponent(Bits(f)) = Exponent(f)
           /\ Host!Significand(Bits(f)) = Whole(f)
<1> DEFINE e == f.hi \div TOP
           t == f.hi % TOP
<1>1. /\ Host!Unit = ONE /\ ONE \in Nat \ {0} /\ ONE = TOP * WORD
      /\ TOP \in Nat \ {0} /\ WORD \in Nat \ {0} /\ EXPONENTS \in Nat \ {0}
  BY SameUnit, LayoutAssumption
<1>2. EXPONENTS * TOP \in Nat
  BY <1>1
<1>3. f.hi \in Nat /\ f.hi < EXPONENTS * TOP /\ f.hi >= TOP /\ f.lo \in Nat
  BY <1>1, <1>2 DEF Normals, Words
<1>4. e \in Nat /\ t \in 0 .. TOP - 1 /\ f.hi = TOP * e + t
  BY <1>1, <1>3, Division
<1>5. Whole(f) = (t + TOP) * WORD + f.lo
  BY DEF Whole, Significand
<1>6. Exponent(f) = e % EXPONENTS
  BY DEF Exponent
<1> HIDE DEF e, t
<1>7. e < EXPONENTS
  <2>1. e * TOP < EXPONENTS * TOP
    BY <1>1, <1>2, <1>3, <1>4
  <2> QED
    BY <1>1, <1>4, <2>1, CancelFactor
<1>8. e >= 1
  <2>1. e = 0 => TOP * e = 0
    BY <1>1
  <2> QED
    BY <1>1, <1>3, <1>4, <2>1
<1>9. Exponent(f) = e
  <2>1. e \in 0 .. EXPONENTS - 1
    BY <1>1, <1>4, <1>7
  <2> QED
    BY <1>1, <1>6, <2>1, SmallRemainder
<1>10. Whole(f) \in ONE .. 2 * ONE - 1
  BY WholeFacts
<1>11. Bits(f) = (e - 1) * ONE + Whole(f)
  <2>1. (TOP * e + t) * WORD = (TOP * e) * WORD + t * WORD
    BY <1>1, <1>4
  <2>2. (TOP * e) * WORD = e * ONE
    BY <1>1, <1>4
  <2>3. (t + TOP) * WORD = t * WORD + ONE
    BY <1>1, <1>4
  <2>4. (e - 1) * ONE = e * ONE - ONE
    BY <1>1, <1>4
  <2>5. t * WORD \in Int /\ e * ONE \in Int /\ f.lo \in Int /\ ONE \in Int
    BY <1>1, <1>3, <1>4
  <2>6. Bits(f) = (TOP * e + t) * WORD + f.lo
    BY <1>4 DEF Bits
  <2>7. Bits(f) = e * ONE + t * WORD + f.lo
    BY <2>1, <2>2, <2>6
  <2> QED
    BY <1>5, <2>3, <2>4, <2>5, <2>7
<1>12. /\ (e - 1) * ONE + Whole(f) \in Nat
       /\ Host!Exponent((e - 1) * ONE + Whole(f)) = e
       /\ Host!Significand((e - 1) * ONE + Whole(f)) = Whole(f)
  <2>1. e \in Nat \ {0} /\ Whole(f) \in 0 .. 2 * Host!Unit - 1 /\ Whole(f) >= Host!Unit
    BY <1>1, <1>4, <1>8, <1>10
  <2> QED
    BY <1>1, <2>1, PatternParts
<1>13. (e - 1) * ONE + Whole(f) # 0
  <2>1. e - 1 \in Nat
    BY <1>4, <1>8
  <2>2. (e - 1) * ONE \in Nat
    BY <1>1, <2>1, Products
  <2> QED
    BY <1>1, <1>10, <2>2
<1> QED
  BY <1>1, <1>4, <1>7, <1>8, <1>9, <1>10, <1>11, <1>12, <1>13

\* f64_mul is the host's product wherever the exponent of the result is in range.
THEOREM F64MulIsHostProduct ==
    ASSUME NEW a \in Normals, NEW b \in Normals,
           1 <= Exponent(a) + Exponent(b) - BIAS,
           Exponent(a) + Exponent(b) - BIAS + 2 < EXPONENTS
    PROVE  Bits(f64_mul(a, b)) = Host!Product(Bits(a), Bits(b))
<1> DEFINE E == Exponent(a) + Exponent(b) - BIAS
           P == Whole(a) * Whole(b)
           x == Bits(a)
           y == Bits(b)
           unit == Host!Unit
           R(n, d) == Host!RoundEven(n, d)
<1>1. /\ unit = ONE /\ ONE \in Nat \ {0} /\ E \in Nat \ {0} /\ MANTISSA \in Nat
      /\ x \in Nat \ {0} /\ y \in Nat \ {0} /\ P \in Nat
      /\ Host!Significand(x) * Host!Significand(y) = P
      /\ Host!Exponent(x) + Host!Exponent(y) - BIAS = E
  <2>1. unit = ONE /\ ONE \in Nat \ {0} /\ MANTISSA \in Nat /\ BIAS \in Nat
    BY SameUnit, BiasFacts
  <2>2. Whole(a) \in Nat /\ Whole(b) \in Nat /\ Exponent(a) \in Nat /\ Exponent(b) \in Nat
    BY <2>1, NormalOnHost, BiasFacts
  <2>3. P \in Nat
    BY <2>2, Products
  <2>4. E \in Nat \ {0}
    BY <2>1, <2>2
  <2> QED
    BY <2>1, <2>3, <2>4, NormalOnHost
<1>2. PICK shifted \in {0, 1}, r \in ONE .. 2 * ONE :
         LET D == IF shifted = 1 THEN 2 * ONE ELSE ONE
         IN  /\ ONE * D <= P /\ P < 2 * (ONE * D)
             /\ NearestEven(r, P, D)
             /\ Pattern(f64_mul(a, b)) = (E + shifted - 1) * ONE + r
  BY F64MulRoundsToNearestEven
<1>3. Bits(f64_mul(a, b)) = (E + shifted - 1) * ONE + r
  BY <1>2 DEF Bits, Pattern
<1> HIDE DEF x, y
<1>4. ASSUME unit * unit <= P
      PROVE  Host!Product(x, y) = IF P < 2 * (unit * unit)
                                  THEN Host!Pattern(E, R(P, unit))
                                  ELSE Host!Pattern(E + 1, R(P, 2 * unit))
  <2> DEFINE e == Host!Exponent(x) + Host!Exponent(y) - BIAS - MANTISSA
             p == Host!Significand(x) * Host!Significand(y)
  <2>1. e >= 1 - MANTISSA /\ unit * unit <= p =>
           Host!Product(x, y) = IF p < 2 * (unit * unit)
                                THEN Host!Pattern(e + MANTISSA, R(p, unit))
                                ELSE Host!Pattern(e + MANTISSA + 1, R(p, 2 * unit))
    BY <1>1, ProductCases
  <2>2. p = P
    BY <1>1
  <2>3. e >= 1 - MANTISSA /\ e + MANTISSA = E
    <3>1. Host!Exponent(x) \in Nat /\ Host!Exponent(y) \in Nat /\ BIAS \in Nat
      BY <1>1, PatternFacts, BiasFacts
    <3>2. E \in Nat \ {0} /\ MANTISSA \in Nat
          /\ Host!Exponent(x) + Host!Exponent(y) - BIAS = E
      BY <1>1
    <3> HIDE DEF E
    <3> QED
      BY <3>1, <3>2
  <2> HIDE DEF e, p, P, E
  <2> QED
    BY <1>4, <2>1, <2>2, <2>3
<1>5. \A d \in Nat \ {0} : NearestEven(r, P, d) => r = R(P, d)
  BY <1>1, NearestIsRoundEven
<1> HIDE DEF x, y, P, E, R
<1>6. CASE shifted = 0
  <2>1. ONE * ONE <= P /\ P < 2 * (ONE * ONE) /\ NearestEven(r, P, ONE)
    BY <1>2, <1>6
  <2>2. r = R(P, unit)
    BY <1>1, <1>5, <2>1
  <2>3. Host!Product(x, y) = Host!Pattern(E, r)
    BY <1>1, <1>4, <2>1, <2>2
  <2>4. E + shifted - 1 = E - 1
    BY <1>1, <1>6
  <2> QED
    BY <1>1, <1>3, <2>3, <2>4 DEF Host!Pattern, x, y
<1>7. CASE shifted = 1
  <2>1. ONE * (2 * ONE) <= P /\ NearestEven(r, P, 2 * ONE)
    BY <1>2, <1>7
  <2>2. ONE * (2 * ONE) = 2 * (ONE * ONE) /\ ONE * ONE \in Nat /\ 2 * ONE \in Nat \ {0}
    BY <1>1
  <2>3. unit * unit <= P /\ ~(P < 2 * (unit * unit))
    BY <1>1, <2>1, <2>2
  <2>4. r = R(P, 2 * unit)
    BY <1>1, <1>5, <2>1, <2>2
  <2>5. Host!Product(x, y) = Host!Pattern(E + 1, r)
    BY <1>4, <2>3, <2>4
  <2>6. E + shifted - 1 = (E + 1) - 1
    BY <1>1, <1>7
  <2> QED
    BY <1>1, <1>3, <2>5, <2>6 DEF Host!Pattern, x, y
<1> QED
  BY <1>6, <1>7

-----------------------------------------------------------------------------
(* The device's samples are the host's.                                    *)

\* The leading one of a pair of words that fits a significand.
LEMMA LeadingOneOfPair ==
    ASSUME NEW v_hi \in Words, NEW v_lo \in Words, ~(v_hi = 0 /\ v_lo = 0),
           v_hi * WORD + v_lo < 2 * ONE
    PROVE  LET v == v_hi * WORD + v_lo
               p == msb64(v_hi, v_lo)
           IN  /\ p \in 0 .. MANTISSA /\ v \in Nat \ {0}
               /\ 2 ^ p <= v /\ v < 2 ^ (p + 1) /\ Host!LeadingBit(v) = p
               /\ v_hi # 0 => p >= W
<1> DEFINE v == v_hi * WORD + v_lo
           p == msb64(v_hi, v_lo)
<1>1. /\ W \in Nat /\ WORD = 2 ^ W /\ WORD \in Nat \ {0} /\ MANTISSA \in Nat
      /\ v_hi \in Nat /\ v_lo \in 0 .. WORD - 1 /\ v_lo \in Nat
  BY LayoutAssumption, WordFacts, BiasFacts DEF Words
<1>2. v \in Nat \ {0}
  <2>1. v_hi * WORD \in Nat /\ (v_hi # 0 => v_hi * WORD # 0)
    BY <1>1
  <2> QED
    BY <1>1, <2>1
<1>3. p \in Nat /\ 2 ^ p <= v /\ v < 2 ^ (p + 1) /\ (v_hi # 0 => p >= W)
  <2>1. CASE v_hi = 0
    <3>1. v_lo \in Words \ {0} /\ v = v_lo /\ p = LeadingBit(v_lo)
      BY <1>1, <2>1 DEF msb64
    <3>2. /\ LeadingBit(v_lo) \in 0 .. W - 1
          /\ 2 ^ LeadingBit(v_lo) <= v_lo /\ v_lo < 2 ^ (LeadingBit(v_lo) + 1)
      BY <3>1, LeadingBitOfWord
    <3> HIDE DEF v, p
    <3> QED
      BY <1>1, <2>1, <3>1, <3>2
  <2>2. CASE v_hi # 0
    <3> DEFINE l == LeadingBit(v_hi)
    <3>1. p = W + l
      BY <2>2 DEF msb64
    <3>2. l \in 0 .. W - 1 /\ 2 ^ l <= v_hi /\ v_hi < 2 ^ (l + 1)
      BY <2>2, LeadingBitOfWord
    <3> HIDE DEF l, p
    <3>3. l \in Nat /\ l + 1 \in Nat /\ p \in Nat /\ p + 1 = (l + 1) + W /\ p = l + W
      BY <1>1, <3>1, <3>2
    <3>4. 2 ^ p = 2 ^ l * WORD /\ 2 ^ (p + 1) = 2 ^ (l + 1) * WORD
      BY <1>1, <3>3, PowersMultiply
    <3>5. 2 ^ l \in Nat /\ 2 ^ (l + 1) \in Nat
      BY <3>3, PowerDoubles
    <3> DEFINE x == 2 ^ l
               y == 2 ^ (l + 1)
    <3>6. x \in Nat /\ y \in Nat /\ x <= v_hi /\ v_hi + 1 <= y
      BY <1>1, <3>2, <3>5
    <3>7. 2 ^ p = x * WORD /\ 2 ^ (p + 1) = y * WORD
      BY <3>4
    <3> HIDE DEF x, y
    <3>8. x * WORD <= v_hi * WORD /\ (v_hi + 1) * WORD <= y * WORD
      <4>1. /\ x \in Int /\ v_hi \in Int /\ WORD \in Nat /\ v_hi + 1 \in Int /\ y \in Int
        BY <1>1, <3>6
      <4> QED
        BY <3>6, <4>1, Monotone
    <3>9. (v_hi + 1) * WORD = v_hi * WORD + WORD /\ v_hi * WORD \in Nat
          /\ x * WORD \in Nat /\ y * WORD \in Nat
      BY <1>1, <3>6
    <3> QED
      BY <1>1, <3>1, <3>2, <3>3, <3>7, <3>8, <3>9
  <2> QED
    BY <2>1, <2>2
<1> HIDE DEF v, p
<1>4. p <= MANTISSA
  <2>1. ASSUME MANTISSA + 1 <= p PROVE FALSE
    <3>1. MANTISSA + 1 \in Nat
      BY <1>1
    <3>2. 2 ^ (MANTISSA + 1) <= 2 ^ p /\ 2 ^ (MANTISSA + 1) \in Nat /\ 2 ^ p \in Nat
      BY <1>3, <2>1, <3>1, PowersOrdered
    <3>3. v < 2 ^ (MANTISSA + 1)
      BY UnitFacts, SameUnit DEF v
    <3> QED
      BY <1>2, <1>3, <3>2, <3>3
  <2> QED
    BY <1>1, <1>3, <2>1
<1>5. p \in 0 .. MANTISSA /\ p \in 0 .. 2 * MANTISSA + 1
  BY <1>1, <1>3, <1>4
<1>6. Host!LeadingBit(v) = p
  BY <1>2, <1>3, <1>5, HostLeadingBit
<1> QED
  BY <1>2, <1>3, <1>5, <1>6 DEF v, p

\* The conversion of a scaled integer, normalised by shifts of words, is exact: it is
\* the host's.
THEOREM ScaledIsHostScaled ==
    ASSUME NEW v_hi \in Words, NEW v_lo \in Words, ~(v_hi = 0 /\ v_lo = 0),
           v_hi * WORD + v_lo < 2 * ONE, NEW e \in Int,
           1 <= msb64(v_hi, v_lo) + e + BIAS, msb64(v_hi, v_lo) + e + BIAS < EXPONENTS
    PROVE  LET f == f64_from_scaled_int(v_hi, v_lo, e)
               v == v_hi * WORD + v_lo
               p == msb64(v_hi, v_lo)
           IN  /\ f \in Normals /\ Bits(f) = Host!Scaled(v, e)
               /\ Exponent(f) = p + e + BIAS
               /\ Whole(f) = v * 2 ^ (MANTISSA - p)
<1> DEFINE f == f64_from_scaled_int(v_hi, v_lo, e)
           v == v_hi * WORD + v_lo
           p == msb64(v_hi, v_lo)
           s == MANTISSA - p
           V == v * 2 ^ s
           m == IF s >= W
                THEN [hi |-> Shl32(v_lo, 2 ^ (s - W)), lo |-> 0]
                ELSE IF s > 0
                THEN [hi |-> Shl32(v_hi, 2 ^ s) + v_lo \div 2 ^ (W - s),
                      lo |-> Shl32(v_lo, 2 ^ s)]
                ELSE [hi |-> v_hi, lo |-> v_lo]
           x == p + e + BIAS
<1>1. /\ W \in Nat /\ MH \in Nat /\ MANTISSA \in Nat /\ MANTISSA = W + MH
      /\ WORD \in Nat \ {0} /\ v_hi \in Nat /\ v_lo \in Nat /\ v_hi < WORD /\ v_lo < WORD
      /\ TOP \in Nat \ {0} /\ 2 * TOP < WORD /\ ONE = TOP * WORD /\ ONE \in Nat \ {0}
      /\ WORD = 2 ^ W /\ BIAS \in Nat
  BY LayoutAssumption, WordFacts, SameUnit, LimbAssumption, BiasFacts DEF MANTISSA, Words
<1>2. /\ p \in 0 .. MANTISSA /\ v \in Nat \ {0}
      /\ 2 ^ p <= v /\ v < 2 ^ (p + 1) /\ Host!LeadingBit(v) = p
      /\ (v_hi # 0 => p >= W)
  BY LeadingOneOfPair
<1>3. f = [hi |-> HighWord(x, m.hi), lo |-> m.lo]
  BY DEF f64_from_scaled_int
<1>4. x \in 1 .. EXPONENTS - 1 /\ x \in Nat
  <2>1. x \in Int
    BY <1>1, <1>2
  <2> QED
    BY <2>1, LayoutAssumption
<1>5. v = v_hi * WORD + v_lo
  OBVIOUS
<1> HIDE DEF v, p, f
<1>6. s \in Nat /\ p \in Nat /\ p + s = MANTISSA /\ (p + 1) + s = MANTISSA + 1
  BY <1>1, <1>2
<1>7. V \in ONE .. 2 * ONE - 1 /\ V \in Nat
  <2> DEFINE a == 2 ^ p
             b == 2 ^ (p + 1)
             c == 2 ^ s
  <2>1. a \in Nat /\ b \in Nat /\ c \in Nat \ {0}
    BY <1>6, PowerDoubles, p + 1 \in Nat
  <2>2. a * c = ONE /\ b * c = 2 * ONE
    <3>1. 2 ^ (p + s) = 2 ^ p * 2 ^ s
      BY <1>6, PowersMultiply
    <3>2. 2 ^ ((p + 1) + s) = 2 ^ (p + 1) * 2 ^ s
      BY <1>6, PowersMultiply, p + 1 \in Nat
    <3>3. 2 ^ MANTISSA = ONE /\ 2 ^ (MANTISSA + 1) = 2 * ONE
      BY UnitFacts, SameUnit
    <3> QED
      BY <1>6, <3>1, <3>2, <3>3
  <2>3. a <= v /\ v + 1 <= b /\ v \in Nat
    BY <1>2, <2>1
  <2>4. V = v * c
    OBVIOUS
  <2> HIDE DEF a, b, c, V
  <2>5. a * c <= v * c /\ (v + 1) * c <= b * c
    <3>1. a \in Int /\ v \in Int /\ v + 1 \in Int /\ b \in Int /\ c \in Nat
      BY <2>1, <2>3
    <3> QED
      BY <2>3, <3>1, Monotone
  <2>6. (v + 1) * c = v * c + c /\ v * c \in Nat
    BY <2>1, <2>3
  <2> QED
    BY <1>1, <2>1, <2>2, <2>4, <2>5, <2>6
<1>8. \A h \in Nat : h * WORD <= V => h < 2 * TOP
  <2> HIDE DEF V
  <2> SUFFICES ASSUME NEW h \in Nat, h * WORD <= V
               PROVE  h < 2 * TOP
    OBVIOUS
  <2>1. 2 * ONE = (2 * TOP) * WORD /\ h * WORD \in Nat
    BY <1>1
  <2>2. h * WORD < (2 * TOP) * WORD
    BY <1>1, <1>7, <2>1
  <2>3. h \in Int /\ 2 * TOP \in Int
    BY <1>1
  <2> QED
    BY <1>1, <2>2, <2>3, CancelFactor
<1>9. m.hi \in Nat /\ m.lo \in 0 .. WORD - 1 /\ m.hi * WORD + m.lo = V
  <2>1. CASE s >= W
    <3> DEFINE c == 2 ^ (s - W)
               h == v_lo * c
    <3>1. v_hi = 0
      <4>1. MH < W
        <5>1. ASSUME W <= MH PROVE FALSE
          <6>1. 2 ^ W <= 2 ^ MH
            BY <1>1, <5>1, PowersOrdered
          <6> QED
            BY <1>1, <6>1 DEF TOP
        <5> QED
          BY <1>1, <5>1
      <4> QED
        BY <1>1, <1>2, <1>6, <2>1, <4>1
    <3>2. c \in Nat /\ 2 ^ s = c * WORD
      <4>1. s - W \in Nat /\ (s - W) + W = s
        BY <1>1, <1>6, <2>1
      <4>2. 2 ^ ((s - W) + W) = c * 2 ^ W
        BY <1>1, <4>1, PowersMultiply
      <4> QED
        BY <1>1, <4>1, <4>2, PowerDoubles
    <3>3. m.hi = Shl32(v_lo, c) /\ m.lo = 0
      BY <2>1
    <3>4. V = v_lo * (c * WORD)
      BY <1>1, <1>5, <3>1, <3>2
    <3> HIDE DEF c, V, m
    <3>5. h \in Nat /\ h * WORD = V
      BY <1>1, <3>2, <3>4, Products
    <3> HIDE DEF h
    <3>6. h \in 0 .. WORD - 1
      BY <1>1, <1>7, <1>8, <3>5
    <3>7. Shl32(v_lo, c) = h
      BY <1>1, <3>6, SmallRemainder DEF Shl32, h
    <3> QED
      BY <1>1, <3>3, <3>5, <3>6, <3>7
  <2>2. CASE s > 0 /\ ~(s >= W)
    <3> DEFINE d == 2 ^ (W - s)
               q == 2 ^ s
               C == v_lo \div d
               R == v_lo % d
    <3>1. d \in Nat \ {0} /\ q \in Nat \ {0} /\ d * q = WORD
      <4>1. W - s \in Nat /\ (W - s) + s = W
        BY <1>1, <1>6, <2>2
      <4>2. 2 ^ ((W - s) + s) = d * q
        BY <1>6, <4>1, PowersMultiply
      <4> QED
        BY <1>1, <1>6, <4>1, <4>2, PowerDoubles
    <3>2. m.hi = Shl32(v_hi, q) + C /\ m.lo = Shl32(v_lo, q)
      BY <1>6, <2>2
    <3>3. V = v * q
      OBVIOUS
    <3> HIDE DEF d, q, V, m
    <3>4. /\ C \in 0 .. q - 1 /\ R \in 0 .. d - 1 /\ v_lo = C * d + R
          /\ Shl32(v_lo, q) = R * q
      BY <3>1, ShiftKeepsLow
    <3> HIDE DEF C, R
    <3>5. C \in Nat /\ R \in Nat /\ v_lo * q = C * WORD + R * q
      <4>1. C \in Nat /\ R \in Nat
        BY <3>1, <3>4
      <4>2. (C * d + R) * q = C * (d * q) + R * q
        BY <3>1, <4>1
      <4> QED
        BY <3>1, <3>4, <4>1, <4>2
    <3>6. R * q \in 0 .. WORD - 1
      BY <1>1, <3>1, <3>4, ShiftType DEF Words
    <3> DEFINE h == v_hi * q
    <3>7. h \in Nat /\ V = h * WORD + v_lo * q /\ v_lo * q \in Nat /\ h * WORD \in Nat
      <4>1. (v_hi * WORD + v_lo) * q = (v_hi * q) * WORD + v_lo * q
        BY <1>1, <3>1
      <4>2. h \in Nat /\ v_lo * q \in Nat
        BY <1>1, <3>1, Products
      <4> HIDE DEF h
      <4>3. h * WORD \in Nat
        BY <1>1, <4>2, Products
      <4> QED
        BY <1>5, <3>3, <4>1, <4>2, <4>3 DEF h
    <3>8. Shl32(v_hi, q) = h
      <4> HIDE DEF h
      <4>1. h * WORD <= V
        BY <3>7
      <4>2. h \in 0 .. WORD - 1
        BY <1>1, <1>8, <3>7, <4>1
      <4> QED
        BY <1>1, <4>2, SmallRemainder DEF Shl32, h
    <3> HIDE DEF h
    <3>9. (h + C) * WORD = h * WORD + C * WORD /\ C * WORD \in Nat
      BY <1>1, <3>5, <3>7
    <3> QED
      BY <1>1, <3>2, <3>4, <3>5, <3>6, <3>7, <3>8, <3>9
  <2>3. CASE ~(s > 0)
    <3>1. s = 0 /\ s < W
      <4>1. WORD # 1
        BY <1>1
      <4>2. W # 0
        BY <1>1, <4>1, PowerDoubles, 2 ^ 0 = 1
      <4> QED
        BY <1>1, <1>6, <2>3, <4>2
    <3>2. m.hi = v_hi /\ m.lo = v_lo
      BY <1>1, <3>1
    <3>3. V = v
      <4>1. 2 ^ s = 1
        <5>1. 2 ^ 0 = 1
          OBVIOUS
        <5> QED
          BY <3>1, <5>1, Zenon
      <4> QED
        BY <1>2, <4>1
    <3> QED
      BY <1>1, <1>5, <3>2, <3>3
  <2> QED
    BY <2>1, <2>2, <2>3
<1> HIDE DEF m, V, x
<1>10. m.hi \in TOP .. 2 * TOP - 1
  <2> DEFINE h == m.hi
             low == m.lo
  <2>1. h \in Nat /\ low \in 0 .. WORD - 1 /\ h * WORD + low = V
    BY <1>9
  <2> HIDE DEF h, low
  <2>2. h * WORD \in Nat /\ (h + 1) * WORD = h * WORD + WORD
    BY <1>1, <2>1
  <2>3. h < 2 * TOP
    BY <1>1, <1>8, <2>1, <2>2
  <2>4. TOP * WORD < (h + 1) * WORD
    BY <1>1, <1>7, <2>1, <2>2
  <2>5. TOP < h + 1
    <3>1. TOP \in Int /\ h + 1 \in Int
      BY <1>1, <2>1
    <3> QED
      BY <1>1, <2>4, <3>1, CancelFactor
  <2> QED
    BY <1>1, <2>1, <2>3, <2>5 DEF h
<1>11. f.hi = (x - 1) * TOP + m.hi /\ f.lo = m.lo /\ f = [hi |-> f.hi, lo |-> f.lo]
  <2>1. x \in 0 .. EXPONENTS - 1
    BY <1>4, LayoutAssumption
  <2>2. HighWord(x, m.hi) = (x - 1) * TOP + m.hi
    BY <1>10, <2>1, HighWordPacks
  <2> QED
    BY <1>3, <2>2
<1>12. f \in Normals
  <2>1. (x - 1) * TOP \in Nat /\ EXPONENTS * TOP \in Nat
        /\ (x - 1) * TOP <= (EXPONENTS - 2) * TOP
        /\ (EXPONENTS - 2) * TOP = EXPONENTS * TOP - 2 * TOP
    <3>1. /\ x - 1 \in Nat /\ x - 1 \in Int /\ EXPONENTS - 2 \in Int /\ x - 1 <= EXPONENTS - 2
          /\ EXPONENTS \in Nat /\ TOP \in Nat
      BY <1>1, <1>4, LayoutAssumption
    <3>2. (x - 1) * TOP \in Nat /\ EXPONENTS * TOP \in Nat
      BY <3>1, Products
    <3>3. (EXPONENTS - 2) * TOP = EXPONENTS * TOP - 2 * TOP
      BY <3>1
    <3> QED
      BY <3>1, <3>2, <3>3, Monotone
  <2>2. f.hi \in 0 .. EXPONENTS * TOP - 1 /\ f.hi >= TOP
    BY <1>1, <1>10, <1>11, <2>1
  <2>3. f.lo \in Words
    BY <1>9, <1>11 DEF Words
  <2> QED
    BY <1>11, <2>2, <2>3 DEF Normals
<1>13. Bits(f) = (x - 1) * ONE + V
  <2> DEFINE h == m.hi
             low == m.lo
  <2>1. h \in Nat /\ low \in Nat /\ h * WORD + low = V
    BY <1>1, <1>9
  <2>2. Bits(f) = ((x - 1) * TOP + h) * WORD + low
    BY <1>11 DEF Bits
  <2> HIDE DEF h, low
  <2>3. x - 1 \in Int
    BY <1>4
  <2>4. ((x - 1) * TOP + h) * WORD = ((x - 1) * TOP) * WORD + h * WORD
    BY <1>1, <2>1, <2>3
  <2>5. ((x - 1) * TOP) * WORD = (x - 1) * ONE
    BY <1>1, <2>3
  <2>6. (x - 1) * ONE \in Int /\ h * WORD \in Int
    BY <1>1, <2>1, <2>3
  <2> QED
    BY <2>1, <2>2, <2>4, <2>5, <2>6
<1>14. Host!Scaled(v, e) = (x - 1) * ONE + V
  <2>1. Host!Scaled(v, e) = Host!Pattern(p + e + BIAS, v * 2 ^ (MANTISSA - p))
    BY <1>2 DEF Host!Scaled
  <2> QED
    BY <2>1, SameUnit DEF Host!Pattern, x, V
<1>15. Exponent(f) = x /\ Whole(f) = V
  <2>1. /\ Host!Exponent(Bits(f)) = Exponent(f) /\ Host!Significand(Bits(f)) = Whole(f)
    BY <1>12, NormalOnHost
  <2>2. x \in Nat \ {0} /\ V \in 0 .. 2 * Host!Unit - 1 /\ V >= Host!Unit
    BY <1>1, <1>4, <1>7, SameUnit
  <2>3. /\ Host!Exponent((x - 1) * Host!Unit + V) = x
        /\ Host!Significand((x - 1) * Host!Unit + V) = V
    BY <2>2, PatternParts
  <2> QED
    BY <1>13, <2>1, <2>3, SameUnit
<1> QED
  BY <1>12, <1>13, <1>14, <1>15 DEF f, v, p, V, x

-----------------------------------------------------------------------------
(* The scale the device is given.                                          *)

\* A quotient is no less than what is divided, and not much more.
LEMMA QuotientBounds ==
    ASSUME NEW high \in Nat \ {0}
    PROVE  /\ Host!Quotient(high) \in Nat /\ high <= Host!Quotient(high)
           /\ Host!Quotient(high) <= (Host!Exponent(high) + 2) * Host!Unit
<1> DEFINE unit == Host!Unit
           den == unit - 1
           e == Host!Exponent(high)
           m == Host!Significand(high)
           num == m * unit
           near == Host!RoundEven(num, den)
           far == Host!RoundEven(num, 2 * den)
           Q == Host!Quotient(high)
           q == num \div den
<1>1. unit \in Nat /\ unit >= 2 /\ den \in Nat \ {0} /\ 2 * den \in Nat \ {0}
  BY UnitFacts
<1>2. /\ e \in Nat \ {0} /\ m \in 0 .. 2 * unit - 1 /\ high = (e - 1) * unit + m
  BY PatternFacts
<1>3. Q = IF q < 2 * unit THEN Host!Pattern(e, near) ELSE Host!Pattern(e + 1, far)
  BY DEF Host!Quotient
<1> HIDE DEF unit, e, m, Q
<1>4. m \in Nat /\ num \in Nat /\ m * den <= num /\ num <= (2 * unit) * (2 * den)
  <2>1. m \in Nat
    BY <1>1, <1>2
  <2>2. num \in Nat /\ m * den = num - m
    BY <1>1, <2>1
  <2>3. num <= (2 * unit) * (2 * den)
    BY <1>1, <1>2, FarBound
  <2> HIDE DEF num, den
  <2> QED
    BY <2>1, <2>2, <2>3
<1>5. q \in Nat /\ (2 * unit <= q => (2 * unit) * den <= num)
  <2>1. q \in Nat /\ num % den \in 0 .. den - 1 /\ num = den * q + (num % den)
    BY <1>1, <1>4, Division
  <2>2. den * q = q * den /\ q * den \in Nat /\ (2 * unit) * den \in Nat
    BY <1>1, <2>1, Products
  <2>3. 2 * unit <= q => (2 * unit) * den <= q * den
    <3>1. 2 * unit \in Int /\ q \in Int /\ den \in Nat
      BY <1>1, <2>1
    <3> HIDE DEF q, den
    <3> QED
      BY <3>1, Monotone
  <2> HIDE DEF num, q, den
  <2> QED
    BY <1>1, <1>4, <2>1, <2>2, <2>3
<1>6. near \in {q, q + 1} /\ near \in Nat /\ m <= near
  <2> HIDE DEF num, den
  <2>1. near \in {q, q + 1} /\ near \in Nat /\ \A k \in Nat : k * den <= num => k <= near
    BY <1>1, <1>4, RoundBounds
  <2> QED
    BY <1>4, <2>1
<1>7. far \in Nat /\ far <= 2 * unit /\ (2 * unit <= q => unit <= far)
  <2>1. unit * (2 * den) = (2 * unit) * den /\ 2 * unit \in Nat
    BY <1>1
  <2> HIDE DEF num, den, q
  <2>2. /\ far \in Nat
        /\ \A k \in Nat : num <= k * (2 * den) => far <= k
        /\ \A k \in Nat : k * (2 * den) <= num => k <= far
    BY <1>1, <1>4, RoundBounds
  <2>3. far <= 2 * unit
    BY <1>4, <2>1, <2>2
  <2>4. 2 * unit <= q => unit * (2 * den) <= num
    BY <1>5, <2>1
  <2> QED
    BY <1>1, <2>2, <2>3, <2>4
<1> HIDE DEF near, far, q
<1> DEFINE k == (e - 1) * unit
<1>8. /\ k \in Nat /\ e * unit = k + unit /\ (e + 2) * unit = k + 3 * unit
      /\ high = k + m
  <2>1. e - 1 \in Nat
    BY <1>2
  <2>2. k \in Nat
    BY <1>1, <2>1, Products
  <2> QED
    BY <1>1, <1>2, <2>2
<1>9. Host!Pattern(e, near) = k + near /\ Host!Pattern(e + 1, far) = k + unit + far
  <2>1. Host!Pattern(e, near) = k + near
    BY DEF Host!Pattern, unit
  <2>2. Host!Pattern(e + 1, far) = ((e + 1) - 1) * unit + far
    BY DEF Host!Pattern, unit
  <2>3. (e + 1) - 1 = e
    BY <1>2
  <2> QED
    BY <1>8, <2>1, <2>2, <2>3
<1> HIDE DEF k
<1>10. CASE q < 2 * unit
  BY <1>1, <1>2, <1>3, <1>5, <1>6, <1>8, <1>9, <1>10 DEF Q, e, unit
<1>11. CASE ~(q < 2 * unit)
  BY <1>1, <1>2, <1>3, <1>5, <1>7, <1>8, <1>9, <1>11 DEF Q, e, unit
<1> QED
  BY <1>10, <1>11

\* A scale that does not exceed the interval is never walked.
LEMMA EndNeverOvershoots ==
    ASSUME NEW high \in Nat
    PROVE  ~Host!Overshoots(high, high)
<1>1. CASE high = 0
  BY <1>1 DEF Host!Overshoots, Host!Product
<1>2. CASE high # 0
  <2> DEFINE m == Host!Significand(high)
  <2>1. m \in 0 .. 2 * Host!Unit - 1 /\ Host!Unit \in Nat
    BY PatternFacts, UnitFacts
  <2>2. m * (Host!Unit - 1) <= m * Host!Unit
    <3>1. m \in Nat
      BY <2>1
    <3>2. m * (Host!Unit - 1) = m * Host!Unit - m /\ m * Host!Unit \in Int
      BY <2>1, <3>1
    <3> QED
      BY <3>1, <3>2
  <2> QED
    BY <1>2, <2>2, BelowQuotient
<1> QED
  BY <1>1, <1>2

\* The scale uploaded, of an interval whose products are normal.
LEMMA ScaleIsNormal ==
    ASSUME NEW d \in Draws, HasNormalProducts(d), NEW s \in Nat,
           \/ s = Host!Quotient(d.theta_max)
           \/ /\ s = Host!Quotient(d.theta_max) - 1 /\ Host!Quotient(d.theta_max) # 0
              /\ Host!Overshoots(Host!Quotient(d.theta_max), d.theta_max)
    PROVE  /\ Bits(Split(s)) = s
           /\ \/ s = 0 /\ Split(s) = Zero
              \/ /\ Split(s) \in Normals
                 /\ Exponent(Split(s)) \in MANTISSA + 1 .. BIAS + 2
<1> DEFINE high == d.theta_max
           unit == Host!Unit
           q == Host!Quotient(high)
           f == Split(s)
<1>1. /\ unit = ONE /\ ONE \in Nat \ {0} /\ ONE = TOP * WORD /\ WORD \in Nat \ {0}
      /\ TOP \in Nat \ {0} /\ MANTISSA \in Nat /\ BIAS \in Nat /\ EXPONENTS \in Nat
      /\ BIAS + 3 < EXPONENTS /\ unit >= 2
  BY SameUnit, BiasFacts, UnitFacts
<1>2. high \in Nat /\ high <= BIAS * unit
  BY DrawFacts
<1>3. f = [hi |-> s \div WORD, lo |-> s % WORD]
  BY DEF Split
<1> HIDE DEF f, unit
<1>4. f.hi \in Nat /\ f.lo \in 0 .. WORD - 1 /\ s = f.hi * WORD + f.lo
  <2>1. /\ s \div WORD \in Nat /\ s % WORD \in 0 .. WORD - 1
        /\ s = WORD * (s \div WORD) + (s % WORD)
    BY <1>1, Division
  <2>2. f.hi = s \div WORD /\ f.lo = s % WORD
    BY <1>3
  <2> QED
    BY <1>1, <2>1, <2>2, Products
<1>5. Bits(f) = s
  BY <1>4 DEF Bits
<1>6. CASE high = 0
  <2>1. q = 0
    BY <1>6 DEF Host!Quotient
  <2>2. s = 0
    BY <2>1
  <2>3. 0 \div WORD = 0 /\ 0 % WORD = 0
    BY <1>1, SmallRemainder, 0 \in 0 .. WORD - 1
  <2> QED
    BY <1>3, <1>5, <2>2, <2>3 DEF Zero, f
<1>7. CASE high # 0
  <2> DEFINE e == Host!Exponent(high)
  <2>1. high >= (MANTISSA + 1) * unit
    BY <1>7 DEF HasNormalProducts, unit
  <2>2. q \in Nat /\ high <= q /\ q <= (e + 2) * unit
    BY <1>2, <1>7, QuotientBounds DEF unit
  <2>3. e \in Nat \ {0} /\ e <= BIAS
    <3> DEFINE m == Host!Significand(high)
    <3>1. e \in Nat \ {0} /\ m \in 0 .. 2 * unit - 1 /\ high = (e - 1) * unit + m
          /\ (e = 1 \/ m >= unit)
      BY <1>2, PatternFacts DEF unit
    <3>2. CASE e = 1
      BY <3>1, <3>2, BiasFacts
    <3>3. CASE e # 1
      <4> HIDE DEF e, m
      <4>1. m \in Nat /\ e - 1 \in Int /\ BIAS \in Int
        BY <1>1, <3>1
      <4>2. e * unit = (e - 1) * unit + unit /\ (e - 1) * unit \in Int /\ BIAS * unit \in Int
        BY <1>1, <3>1
      <4>3. e * unit <= BIAS * unit
        BY <1>1, <1>2, <3>1, <3>3, <4>1, <4>2
      <4>4. BIAS * unit < (BIAS + 1) * unit
        BY <1>1
      <4>5. e * unit < (BIAS + 1) * unit
        BY <1>1, <3>1, <4>2, <4>3, <4>4
      <4>6. e < BIAS + 1
        BY <1>1, <3>1, <4>5, CancelFactor
      <4> QED
        BY <1>1, <3>1, <4>6
    <3> QED
      BY <3>2, <3>3
  <2> HIDE DEF e
  <2>4. high <= s /\ s <= q
    <3>1. CASE s = q
      BY <2>2, <3>1
    <3>2. CASE s = q - 1 /\ Host!Overshoots(q, high)
      <4>1. q # high
        BY <1>2, <3>2, EndNeverOvershoots
      <4> QED
        BY <1>2, <2>2, <3>2, <4>1
    <3> QED
      BY <3>1, <3>2
  <2>5. (MANTISSA + 1) * unit <= s /\ s <= (BIAS + 2) * unit
    <3>1. (e + 2) * unit <= (BIAS + 2) * unit
      <4>1. e + 2 \in Int /\ BIAS + 2 \in Int /\ e + 2 <= BIAS + 2 /\ unit \in Nat
        BY <1>1, <2>3
      <4> QED
        BY <4>1, Monotone
    <3>2. /\ (e + 2) * unit \in Int /\ (BIAS + 2) * unit \in Int
          /\ (MANTISSA + 1) * unit \in Int
      BY <1>1, <2>3
    <3> HIDE DEF q, high
    <3> QED
      BY <1>2, <2>1, <2>2, <2>4, <3>1, <3>2 DEF high
  <2>6. unit <= s /\ s < (BIAS + 3) * unit /\ (BIAS + 3) * unit <= EXPONENTS * unit
        /\ EXPONENTS * unit \in Nat
    <3>1. 1 * unit <= (MANTISSA + 1) * unit
      <4>1. 1 \in Int /\ MANTISSA + 1 \in Int /\ 1 <= MANTISSA + 1 /\ unit \in Nat
        BY <1>1
      <4> QED
        BY <4>1, Monotone
    <3>2. (BIAS + 3) * unit <= EXPONENTS * unit
      <4>1. BIAS + 3 \in Int /\ EXPONENTS \in Int /\ BIAS + 3 <= EXPONENTS /\ unit \in Nat
        BY <1>1
      <4> QED
        BY <4>1, Monotone
    <3>3. (BIAS + 3) * unit = (BIAS + 2) * unit + unit /\ (BIAS + 2) * unit \in Int
          /\ (MANTISSA + 1) * unit \in Int /\ EXPONENTS * unit \in Nat
      BY <1>1
    <3> QED
      BY <1>1, <2>5, <3>1, <3>2, <3>3
  <2>7. f.hi >= TOP
    <3>1. TOP * WORD < (f.hi + 1) * WORD
      <4>1. (f.hi + 1) * WORD = f.hi * WORD + WORD /\ f.hi * WORD \in Nat
        BY <1>1, <1>4
      <4> QED
        BY <1>1, <1>4, <2>6, <4>1
    <3>2. TOP < f.hi + 1
      <4>1. TOP \in Int /\ f.hi + 1 \in Int
        BY <1>1, <1>4
      <4> QED
        BY <1>1, <3>1, <4>1, CancelFactor
    <3> QED
      BY <1>1, <1>4, <3>2
  <2>8. f.hi < EXPONENTS * TOP
    <3>1. f.hi * WORD < (EXPONENTS * TOP) * WORD
      <4>1. (EXPONENTS * TOP) * WORD = EXPONENTS * unit
        BY <1>1
      <4>2. f.hi * WORD \in Nat /\ (BIAS + 3) * unit \in Int
        BY <1>1, <1>4
      <4> QED
        BY <1>1, <1>4, <2>6, <4>1, <4>2
    <3>2. f.hi \in Int /\ EXPONENTS * TOP \in Int
      BY <1>1, <1>4
    <3> QED
      BY <1>1, <3>1, <3>2, CancelFactor
  <2>9. f \in Normals
    <3>1. EXPONENTS * TOP \in Nat
      BY <1>1, Products
    <3>2. f.hi \in 0 .. EXPONENTS * TOP - 1
      BY <1>4, <2>8, <3>1
    <3>3. f = [hi |-> f.hi, lo |-> f.lo]
      BY <1>3
    <3> QED
      BY <1>4, <2>7, <3>2, <3>3 DEF Normals, Words
  <2> DEFINE E == Exponent(f)
             M == Whole(f)
  <2>10. E \in Nat \ {0} /\ M \in unit .. 2 * unit - 1 /\ s = (E - 1) * unit + M
    <3>1. E \in 1 .. EXPONENTS - 1 /\ M \in ONE .. 2 * ONE - 1
          /\ Bits(f) = (E - 1) * Host!Unit + M
      BY <2>9, NormalOnHost
    <3> QED
      BY <1>1, <1>5, <3>1 DEF unit
  <2> HIDE DEF E, M
  <2>11. /\ (E - 1) * unit = E * unit - unit /\ (E + 1) * unit = E * unit + unit
         /\ E * unit \in Int /\ M \in Int /\ M >= unit /\ M < 2 * unit
    BY <1>1, <2>10
  <2>12. MANTISSA < E
    <3>1. (MANTISSA + 1) * unit < (E + 1) * unit
      <4>1. (MANTISSA + 1) * unit \in Int
        BY <1>1
      <4> QED
        BY <1>1, <2>5, <2>10, <2>11, <4>1
    <3>2. MANTISSA + 1 \in Int /\ E + 1 \in Int /\ unit \in Nat \ {0}
      BY <1>1, <2>10
    <3>3. MANTISSA + 1 < E + 1
      BY <3>1, <3>2, CancelFactor
    <3> QED
      BY <1>1, <2>10, <3>3
  <2>13. E <= BIAS + 2
    <3>1. E * unit < (BIAS + 3) * unit
      <4>1. (BIAS + 3) * unit \in Int
        BY <1>1
      <4> QED
        BY <1>1, <2>6, <2>10, <2>11, <4>1
    <3>2. E \in Int /\ BIAS + 3 \in Int /\ unit \in Nat \ {0}
      BY <1>1, <2>10
    <3>3. E < BIAS + 3
      BY <3>1, <3>2, CancelFactor
    <3> QED
      BY <1>1, <2>10, <3>3
  <2>14. E \in MANTISSA + 1 .. BIAS + 2
    BY <1>1, <2>10, <2>12, <2>13
  <2> QED
    BY <1>5, <2>9, <2>14 DEF E, f
<1> QED
  BY <1>6, <1>7

-----------------------------------------------------------------------------
(* The intensity and the variate.                                          *)

\* The bits kept of a u64 read: a shift of the pair of words.
LEMMA KeptBits ==
    ASSUME NEW low \in Words, NEW w \in Words, NEW k \in Nat, k <= W
    PROVE  LET d == 2 ^ k
               v_hi == w \div d
               v_lo == low \div d + Shl32(w, WORD \div d)
           IN  /\ v_hi \in Words /\ v_lo \in Words
               /\ v_hi * WORD + v_lo = (w * WORD + low) \div d
               /\ v_hi * WORD + v_lo \in Nat
               /\ (v_hi * WORD + v_lo) * d < WORD * WORD
<1> DEFINE d == 2 ^ k
           a == [lo |-> low, hi |-> w]
           b == u64_shr(a, d)
           x == w * WORD + low
<1>1. d \in Nat \ {0} /\ d * (WORD \div d) = WORD
  BY WordShift
<1>2. a \in U64 /\ Number(a) = x /\ x \in 0 .. WORD * WORD - 1
  <2>1. a \in U64
    BY DEF U64
  <2>2. Number(a) = x
    BY DEF Number
  <2>3. Number(a) \in 0 .. WORD * WORD - 1
    BY <2>1, PairFacts
  <2> QED
    BY <2>1, <2>2, <2>3
<1>3. b \in U64 /\ Number(b) = x \div d
  <2> HIDE DEF a, d
  <2> QED
    BY <1>1, <1>2, U64ShrDivides
<1>4. b.hi = w \div d /\ b.lo = low \div d + Shl32(w, WORD \div d)
  BY DEF u64_shr
<1> DEFINE v == x \div d
<1>5. v \in Nat /\ v * d <= x
  <2> HIDE DEF x, d
  <2>1. x \in Nat
    BY <1>2, WordFacts
  <2>2. v \in Nat /\ x % d \in 0 .. d - 1 /\ x = d * v + (x % d)
    BY <1>1, <2>1, Division
  <2>3. d * v = v * d /\ v * d \in Nat
    BY <1>1, <2>2, Products
  <2> QED
    BY <1>1, <2>1, <2>2, <2>3
<1>6. v * d < WORD * WORD
  <2>1. v * d \in Nat /\ WORD * WORD \in Nat
    BY <1>1, <1>5, WordFacts, Products
  <2> HIDE DEF x, v, d
  <2> QED
    BY <1>2, <1>5, <2>1
<1>7. b.hi \in Words /\ b.lo \in Words /\ b.hi * WORD + b.lo = v
  BY <1>3 DEF U64, Number
<1> HIDE DEF b, v, d, x
<1> QED
  BY <1>4, <1>5, <1>6, <1>7 DEF v, d, x

\* What is left of a u64 by a shift is below the power of two that it should be.
LEMMA KeptBelow ==
    ASSUME NEW k \in Nat, NEW j \in Nat, k + j = 2 * W, NEW v \in Nat,
           v * 2 ^ k < WORD * WORD
    PROVE  v < 2 ^ j
<1> DEFINE d == 2 ^ k
           y == 2 ^ j
<1>1. W \in Nat /\ WORD = 2 ^ W
  BY LayoutAssumption
<1>2. d \in Nat \ {0} /\ y \in Nat \ {0} /\ y * d = WORD * WORD
  <2>1. 2 ^ (k + j) = d * y
    BY PowersMultiply
  <2>2. 2 ^ (W + W) = WORD * WORD /\ W + W = k + j
    BY <1>1, PowersMultiply
  <2>3. d \in Nat \ {0} /\ y \in Nat \ {0}
    BY PowerDoubles
  <2>4. d * y = WORD * WORD
    BY <2>1, <2>2
  <2> HIDE DEF d, y
  <2> QED
    BY <2>3, <2>4, Products
<1> HIDE DEF d, y
<1>3. v * d < y * d
  BY <1>2 DEF d
<1> QED
  BY <1>2, <1>3, CancelFactor DEF y

\* value0_1 of uniform_f64: 52 bits over 2^52.
LEMMA UnitSample ==
    ASSUME NEW low \in Words, NEW w \in Words
    PROVE  LET d == 2 ^ (2 * W - MANTISSA)
               g == f64_from_scaled_int(w \div d, low \div d + Shl32(w, WORD \div d),
                                        -MANTISSA)
           IN  /\ Bits(g) = Host!Scaled(Host!Low52(w * WORD + low), -MANTISSA)
               /\ \/ g = Zero
                  \/ /\ g \in Normals /\ Exponent(g) \in BIAS - MANTISSA .. BIAS - 1
                     /\ Exponent(g) = BIAS - 1 => Whole(g) <= 2 * ONE - 2
<1> DEFINE k == 2 * W - MANTISSA
           d == 2 ^ k
           v_hi == w \div d
           v_lo == low \div d + Shl32(w, WORD \div d)
           v == v_hi * WORD + v_lo
           g == f64_from_scaled_int(v_hi, v_lo, -MANTISSA)
           p == msb64(v_hi, v_lo)
<1>1. /\ W \in Nat /\ MH \in Nat /\ MH + 1 < W /\ MANTISSA = W + MH
      /\ MANTISSA \in Nat \ {0} /\ BIAS \in Nat /\ MANTISSA + 2 <= BIAS
      /\ BIAS + 3 < EXPONENTS /\ EXPONENTS \in Nat
      /\ 2 ^ MANTISSA = ONE /\ ONE \in Nat \ {0} /\ WORD \in Nat \ {0}
  BY RoomInWord, BiasFacts, UnitFacts, SameUnit DEF MANTISSA
<1>2. k \in Nat /\ k <= W /\ k + MANTISSA = 2 * W
  BY <1>1
<1> HIDE DEF k
<1>3. /\ v_hi \in Words /\ v_lo \in Words /\ v = (w * WORD + low) \div d /\ v \in Nat
      /\ v * d < WORD * WORD
  BY <1>2, KeptBits
<1>4. Host!Low52(w * WORD + low) = v
  BY <1>3 DEF Host!Low52, k
<1> HIDE DEF d, v_hi, v_lo
<1>5. v < ONE
  <2>1. v \in Nat /\ v * 2 ^ k < WORD * WORD
    BY <1>3 DEF d
  <2> HIDE DEF v
  <2> QED
    BY <1>1, <1>2, <2>1, KeptBelow
<1>6. CASE v_hi = 0 /\ v_lo = 0
  <2>1. g = Zero
    BY <1>6 DEF f64_from_scaled_int
  <2>2. v = 0
    BY <1>1, <1>6
  <2>3. Bits(Zero) = 0
    BY <1>1 DEF Bits, Zero
  <2>4. Host!Scaled(0, -MANTISSA) = 0
    BY DEF Host!Scaled
  <2> HIDE DEF g, v
  <2> QED
    BY <1>4, <2>1, <2>2, <2>3, <2>4 DEF g, d, k, v_hi, v_lo
<1>7. CASE ~(v_hi = 0 /\ v_lo = 0)
  <2>1. v < 2 * ONE
    BY <1>1, <1>3, <1>5
  <2>2. p \in 0 .. MANTISSA /\ 2 ^ p <= v
    BY <1>3, <1>7, <2>1, LeadingOneOfPair
  <2> HIDE DEF p
  <2>3. p < MANTISSA
    <3>1. p = MANTISSA => ONE <= v
      BY <1>1, <2>2
    <3> HIDE DEF v
    <3> QED
      BY <1>1, <1>3, <1>5, <2>2, <3>1
  <2> DEFINE e == -MANTISSA
             x == p + e + BIAS
  <2>4. e \in Int /\ x \in BIAS - MANTISSA .. BIAS - 1 /\ 1 <= x /\ x < EXPONENTS
        /\ (x = BIAS - 1 => MANTISSA - p = 1)
    BY <1>1, <2>2, <2>3
  <2>5. /\ g \in Normals /\ Bits(g) = Host!Scaled(v, e) /\ Exponent(g) = x
        /\ Whole(g) = v * 2 ^ (MANTISSA - p)
    <3>1. g = f64_from_scaled_int(v_hi, v_lo, e)
      OBVIOUS
    <3> HIDE DEF e, g, v
    <3> QED
      BY <1>3, <1>7, <2>1, <2>4, <3>1, ScaledIsHostScaled DEF p, v
  <2>6. x = BIAS - 1 => Whole(g) <= 2 * ONE - 2
    <3> SUFFICES ASSUME x = BIAS - 1 PROVE Whole(g) <= 2 * ONE - 2
      OBVIOUS
    <3>1. 2 ^ (MANTISSA - p) = 2
      <4>1. MANTISSA - p = 1 /\ 2 ^ 1 = 2
        BY <2>4, PowerDoubles, 2 ^ 0 = 1, 0 + 1 = 1
      <4> QED
        BY <4>1, Zenon
    <3>2. Whole(g) = v * 2
      BY <2>5, <3>1
    <3> HIDE DEF v, g
    <3> QED
      BY <1>1, <1>3, <1>5, <3>2
  <2> HIDE DEF g, v, x
  <2> QED
    BY <1>4, <2>4, <2>5, <2>6 DEF g, d, k, v_hi, v_lo, e
<1> QED
  BY <1>6, <1>7

\* The variate u is the host's, for every pair of words.
LEMMA VariateIsHosts ==
    ASSUME NEW low \in Words, NEW w \in Words
    PROVE  Bits(standard_f64(low, w)) = Host!StandardSample(w * WORD + low)
<1> DEFINE k == 2 * W - MANTISSA - 1
           d == 2 ^ k
           v_hi == w \div d
           v_lo == low \div d + Shl32(w, WORD \div d)
           v == v_hi * WORD + v_lo
           g == f64_from_scaled_int(v_hi, v_lo, -MANTISSA - 1)
           p == msb64(v_hi, v_lo)
<1>1. /\ W \in Nat /\ MH \in Nat /\ MH + 1 < W /\ MANTISSA = W + MH
      /\ MANTISSA \in Nat \ {0} /\ BIAS \in Nat /\ MANTISSA + 2 <= BIAS
      /\ BIAS + 3 < EXPONENTS /\ EXPONENTS \in Nat
      /\ 2 ^ (MANTISSA + 1) = 2 * ONE /\ ONE \in Nat \ {0} /\ WORD \in Nat \ {0}
  BY RoomInWord, BiasFacts, UnitFacts, SameUnit DEF MANTISSA
<1>2. k \in Nat /\ k <= W /\ k + (MANTISSA + 1) = 2 * W /\ MANTISSA + 1 \in Nat
  BY <1>1
<1> HIDE DEF k
<1>3. /\ v_hi \in Words /\ v_lo \in Words /\ v = (w * WORD + low) \div d /\ v \in Nat
      /\ v * d < WORD * WORD
  BY <1>2, KeptBits
<1>4. Host!StandardSample(w * WORD + low) = Host!Scaled(v, -MANTISSA - 1)
  BY <1>3 DEF Host!StandardSample, Host!Low53, k
<1>5. standard_f64(low, w) = g
  BY DEF standard_f64, k
<1> HIDE DEF d, v_hi, v_lo
<1>6. v < 2 * ONE
  <2>1. v \in Nat /\ v * 2 ^ k < WORD * WORD
    BY <1>3 DEF d
  <2> HIDE DEF v
  <2>2. v < 2 ^ (MANTISSA + 1)
    BY <1>2, <2>1, KeptBelow
  <2> QED
    BY <1>1, <2>2
<1>7. CASE v_hi = 0 /\ v_lo = 0
  <2>1. g = Zero
    BY <1>7 DEF f64_from_scaled_int
  <2>2. v = 0
    BY <1>1, <1>7
  <2>3. Bits(Zero) = 0
    BY <1>1 DEF Bits, Zero
  <2>4. Host!Scaled(0, -MANTISSA - 1) = 0
    BY DEF Host!Scaled
  <2> HIDE DEF g, v
  <2> QED
    BY <1>4, <1>5, <2>1, <2>2, <2>3, <2>4
<1>8. CASE ~(v_hi = 0 /\ v_lo = 0)
  <2>1. p \in 0 .. MANTISSA
    BY <1>3, <1>6, <1>8, LeadingOneOfPair
  <2> HIDE DEF p
  <2> DEFINE e == -MANTISSA - 1
  <2>2. e \in Int /\ 1 <= p + e + BIAS /\ p + e + BIAS < EXPONENTS
    BY <1>1, <2>1
  <2>3. Bits(g) = Host!Scaled(v, e)
    <3>1. g = f64_from_scaled_int(v_hi, v_lo, e)
      OBVIOUS
    <3> HIDE DEF e, g, v
    <3> QED
      BY <1>3, <1>6, <1>8, <2>2, <3>1, ScaledIsHostScaled DEF p, v
  <2> HIDE DEF g, v
  <2> QED
    BY <1>4, <1>5, <2>3
<1> QED
  BY <1>7, <1>8

\* The intensity is the host's, for every pair of words and every scale with normal
\* products.
LEMMA IntensityIsHosts ==
    ASSUME NEW low \in Words, NEW w \in Words, NEW by,
           by = Zero \/ (by \in Normals /\ Exponent(by) \in MANTISSA + 1 .. BIAS + 2)
    PROVE  Bits(uniform_f64(low, w, by)) = Host!UniformSample(w * WORD + low, Bits(by))
<1> DEFINE d == 2 ^ (2 * W - MANTISSA)
           g == f64_from_scaled_int(w \div d, low \div d + Shl32(w, WORD \div d), -MANTISSA)
<1>1. /\ Bits(g) = Host!Scaled(Host!Low52(w * WORD + low), -MANTISSA)
      /\ \/ g = Zero
         \/ g \in Normals /\ Exponent(g) \in BIAS - MANTISSA .. BIAS - 1
  BY UnitSample
<1>2. /\ uniform_f64(low, w, by) = f64_mul(g, by)
      /\ Host!UniformSample(w * WORD + low, Bits(by)) = Host!Product(Bits(g), Bits(by))
  BY <1>1 DEF uniform_f64, Host!UniformSample
<1> HIDE DEF g
<1>3. Bits(Zero) = 0 /\ f64_is_zero(Zero)
  <2>1. EXPONENTS * TOP \in Nat \ {0} /\ WORD \in Nat
    BY LimbAssumption, LayoutAssumption, WordFacts
  <2>2. 0 % (EXPONENTS * TOP) = 0
    <3> DEFINE c == EXPONENTS * TOP
    <3>1. c \in Nat \ {0} /\ 0 \in 0 .. c - 1
      BY <2>1
    <3> HIDE DEF c
    <3>2. 0 % c = 0
      BY <3>1, SmallRemainder
    <3> QED
      BY <3>2 DEF c
  <2> QED
    BY <2>1, <2>2 DEF Bits, Zero, f64_is_zero
<1>4. CASE g = Zero \/ by = Zero
  <2>1. f64_mul(g, by) = Zero
    BY <1>3, <1>4 DEF f64_mul
  <2>2. Host!Product(Bits(g), Bits(by)) = 0
    BY <1>3, <1>4 DEF Host!Product
  <2> QED
    BY <1>2, <1>3, <2>1, <2>2
<1>5. CASE g # Zero /\ by # Zero
  <2> DEFINE eg == Exponent(g)
             eb == Exponent(by)
  <2>1. g \in Normals /\ by \in Normals /\ eg \in BIAS - MANTISSA .. BIAS - 1
        /\ eb \in MANTISSA + 1 .. BIAS + 2
    BY <1>1, <1>5
  <2> HIDE DEF eg, eb
  <2>2. 1 <= eg + eb - BIAS /\ eg + eb - BIAS + 2 < EXPONENTS
    BY <2>1, BiasFacts
  <2> QED
    BY <1>2, <2>1, <2>2, F64MulIsHostProduct DEF eg, eb
<1> QED
  BY <1>4, <1>5

-----------------------------------------------------------------------------
(* No intensity exceeds the end of its interval.                           *)

\* Rounding keeps the order.
LEMMA RoundingKeepsOrder ==
    ASSUME NEW a \in Nat, NEW b \in Nat, NEW den \in Nat \ {0}, a <= b
    PROVE  Host!RoundEven(a, den) <= Host!RoundEven(b, den)
<1> DEFINE qa == a \div den
           ra == a % den
           qb == b \div den
           rb == b % den
<1>1. /\ qa \in Nat /\ ra \in 0 .. den - 1 /\ a = den * qa + ra
      /\ qb \in Nat /\ rb \in 0 .. den - 1 /\ b = den * qb + rb
  BY Division
<1>2. /\ Host!RoundEven(a, den) =
             IF 2 * ra > den \/ (2 * ra = den /\ qa % 2 = 1) THEN qa + 1 ELSE qa
      /\ Host!RoundEven(b, den) =
             IF 2 * rb > den \/ (2 * rb = den /\ qb % 2 = 1) THEN qb + 1 ELSE qb
  BY DEF Host!RoundEven
<1> HIDE DEF qa, ra, qb, rb
<1>3. qa <= qb
  <2>1. qa * den < (qb + 1) * den
    <3>1. qa * den = den * qa /\ (qb + 1) * den = den * qb + den
          /\ den * qa \in Nat /\ den * qb \in Nat
      BY <1>1
    <3> QED
      BY <1>1, <3>1
  <2>2. qa \in Int /\ qb + 1 \in Int
    BY <1>1
  <2>3. qa < qb + 1
    BY <2>1, <2>2, CancelFactor
  <2> QED
    BY <1>1, <2>3
<1>4. CASE qa < qb
  BY <1>1, <1>2, <1>4
<1>5. CASE qa = qb
  <2>1. ra <= rb
    BY <1>1, <1>5
  <2> QED
    BY <1>1, <1>2, <1>5, <2>1
<1> QED
  BY <1>1, <1>3, <1>4, <1>5

\* A sample below 1 gives no more of the scale than the largest sample does.
LEMMA SmallerSample ==
    ASSUME NEW x \in Nat \ {0}, NEW y \in Nat \ {0},
           Host!Significand(x) >= Host!Unit, Host!Exponent(x) <= BIAS - 1,
           Host!Exponent(x) = BIAS - 1 => Host!Significand(x) <= 2 * Host!Unit - 2,
           Host!Exponent(y) > 1, 1 <= Host!Exponent(x) + Host!Exponent(y) - BIAS
    PROVE  Host!Product(x, y) <= Host!Product(y, Host!MaxRand)
<1> DEFINE unit == Host!Unit
           ex == Host!Exponent(x)
           mx == Host!Significand(x)
           e == Host!Exponent(y)
           m == Host!Significand(y)
           E == ex + e - BIAS
           P == mx * m
           p == m * (2 * unit - 2)
           R(n, d) == Host!RoundEven(n, d)
           Left == Host!Product(x, y)
           Right == Host!Product(y, Host!MaxRand)
<1>1. /\ unit \in Nat /\ unit >= 2 /\ BIAS \in Nat /\ MANTISSA \in Nat
      /\ ex \in Nat \ {0} /\ mx \in unit .. 2 * unit - 1
      /\ e \in Nat \ {0} /\ e > 1 /\ m \in unit .. 2 * unit - 1
      /\ ex <= BIAS - 1 /\ (ex = BIAS - 1 => mx <= 2 * unit - 2)
      /\ 1 <= ex + e - BIAS
  <2>1. unit \in Nat /\ unit >= 2 /\ BIAS \in Nat /\ MANTISSA \in Nat
    BY UnitFacts, BiasFacts
  <2>2. ex \in Nat \ {0} /\ mx \in 0 .. 2 * unit - 1
    BY PatternFacts
  <2>3. e \in Nat \ {0} /\ m \in 0 .. 2 * unit - 1 /\ (e = 1 \/ m >= unit)
    BY PatternFacts
  <2> QED
    BY <2>1, <2>2, <2>3
<1>2. /\ e = 1 => Right = R(p, 2 * unit)
      /\ e > 1 /\ p < 2 * (unit * unit) => Right = Host!Pattern(e - 1, R(p, unit))
      /\ e > 1 /\ p >= 2 * (unit * unit) => Right = Host!Pattern(e, R(p, 2 * unit))
  BY LargestDraw
<1>3. ex + e - BIAS - MANTISSA >= 1 - MANTISSA /\ unit * unit <= P =>
         Left = IF P < 2 * (unit * unit)
                THEN Host!Pattern(ex + e - BIAS - MANTISSA + MANTISSA, R(P, unit))
                ELSE Host!Pattern(ex + e - BIAS - MANTISSA + MANTISSA + 1, R(P, 2 * unit))
  BY ProductCases
<1>4. \A t, r : Host!Pattern(t, r) = (t - 1) * unit + r
  BY DEF Host!Pattern
<1> HIDE DEF unit, ex, mx, e, m, R, Left, Right
<1>5. /\ ex + e - BIAS - MANTISSA >= 1 - MANTISSA
      /\ ex + e - BIAS - MANTISSA + MANTISSA = E
      /\ ex + e - BIAS - MANTISSA + MANTISSA + 1 = E + 1
      /\ E \in Nat \ {0} /\ E <= e - 1 /\ (E = e - 1 => ex = BIAS - 1)
  BY <1>1
<1>6. mx \in Nat /\ m \in Nat /\ 2 * unit - 2 \in Nat /\ 2 * unit \in Nat
  BY <1>1
<1>7. /\ P \in Nat /\ p \in Nat /\ unit * unit \in Nat
      /\ unit * unit <= P /\ P <= m * (2 * unit) /\ m * (2 * unit) <= (2 * unit) * (2 * unit)
      /\ m * unit <= p /\ unit * unit <= m * unit
      /\ ex = BIAS - 1 => P <= p
  <2>1. P \in Nat /\ p \in Nat /\ unit * unit \in Nat /\ P = m * mx
    BY <1>1, <1>6, Products
  <2>2. unit * unit <= m * unit /\ m * (2 * unit) <= (2 * unit) * (2 * unit)
    <3>1. unit \in Int /\ m \in Int /\ unit <= m /\ m <= 2 * unit /\ 2 * unit \in Int
      BY <1>1, <1>6
    <3> QED
      BY <1>6, <3>1, <1>1, Monotone
  <2>3. \A i \in Nat, j \in Nat : i <= j => m * i <= m * j
    <3> TAKE i \in Nat, j \in Nat
    <3> HAVE i <= j
    <3>1. i * m <= j * m
      BY <1>6, Monotone
    <3> QED
      BY <1>6, <3>1, Products
  <2>4. m * unit <= m * mx /\ m * mx <= m * (2 * unit) /\ m * unit <= m * (2 * unit - 2)
    BY <1>1, <1>6, <2>3
  <2>5. ex = BIAS - 1 => m * mx <= m * (2 * unit - 2)
    BY <1>1, <1>6, <2>3
  <2>6. m * mx \in Int /\ m * unit \in Int
    BY <1>1, <1>6, Products
  <2> HIDE DEF P, p
  <2> QED
    BY <2>1, <2>2, <2>4, <2>5, <2>6 DEF p
<1>8. Left = IF P < 2 * (unit * unit)
             THEN (E - 1) * unit + R(P, unit)
             ELSE ((E + 1) - 1) * unit + R(P, 2 * unit)
  <2> HIDE DEF P, E
  <2> QED
    BY <1>3, <1>4, <1>5, <1>7
<1>9. Right = IF p < 2 * (unit * unit)
              THEN ((e - 1) - 1) * unit + R(p, unit)
              ELSE (e - 1) * unit + R(p, 2 * unit)
  <2> HIDE DEF p
  <2>1. CASE p < 2 * (unit * unit)
    BY <1>1, <1>2, <1>4, <2>1
  <2>2. CASE ~(p < 2 * (unit * unit))
    BY <1>1, <1>2, <1>4, <1>7, <2>2
  <2> QED
    BY <2>1, <2>2
<1>10. /\ R(P, unit) \in Nat /\ R(P, 2 * unit) \in Nat /\ R(p, unit) \in Nat
       /\ R(p, 2 * unit) \in Nat
       /\ P < 2 * (unit * unit) => R(P, unit) <= 2 * unit
       /\ R(P, 2 * unit) <= m /\ R(P, 2 * unit) <= 2 * unit
       /\ m <= R(p, unit) /\ unit <= R(p, unit)
       /\ p >= 2 * (unit * unit) => unit <= R(p, 2 * unit)
       /\ P <= p => R(P, unit) <= R(p, unit) /\ R(P, 2 * unit) <= R(p, 2 * unit)
  <2> HIDE DEF P, p
  <2>1. unit \in Nat \ {0} /\ 2 * unit \in Nat \ {0} /\ (2 * unit) * unit = 2 * (unit * unit)
        /\ unit * (2 * unit) = 2 * (unit * unit) /\ m <= 2 * unit /\ unit <= m
    BY <1>1
  <2>2. \A n \in Nat, d \in Nat \ {0} :
           /\ R(n, d) \in Nat
           /\ \A k \in Nat : n <= k * d => R(n, d) <= k
           /\ \A k \in Nat : k * d <= n => k <= R(n, d)
    BY RoundBounds DEF R
  <2>3. R(P, unit) \in Nat /\ R(P, 2 * unit) \in Nat /\ R(p, unit) \in Nat
        /\ R(p, 2 * unit) \in Nat
    BY <1>7, <2>1, <2>2
  <2>4. P < 2 * (unit * unit) => R(P, unit) <= 2 * unit
    <3>1. P < 2 * (unit * unit) => P <= (2 * unit) * unit
      BY <1>7, <2>1
    <3> QED
      BY <1>6, <1>7, <2>1, <2>2, <3>1
  <2>5. R(P, 2 * unit) <= m
    BY <1>6, <1>7, <2>1, <2>2
  <2>6. m <= R(p, unit)
    BY <1>6, <1>7, <2>1, <2>2
  <2>7. p >= 2 * (unit * unit) => unit <= R(p, 2 * unit)
    <3>1. p >= 2 * (unit * unit) => unit * (2 * unit) <= p
      BY <1>7, <2>1
    <3> QED
      BY <1>6, <1>7, <2>1, <2>2, <3>1
  <2>8. P <= p => R(P, unit) <= R(p, unit) /\ R(P, 2 * unit) <= R(p, 2 * unit)
    BY <1>7, <2>1, RoundingKeepsOrder DEF R
  <2> QED
    BY <1>6, <2>1, <2>3, <2>4, <2>5, <2>6, <2>7, <2>8
<1> DEFINE k == (e - 2) * unit
           A == R(P, unit)
           B == R(P, 2 * unit)
           C == R(p, unit)
           D == R(p, 2 * unit)
<1>11. /\ k \in Nat /\ (e - 1) * unit = k + unit /\ ((e - 1) - 1) * unit = k
  <2>1. e - 2 \in Nat /\ (e - 1) - 1 = e - 2 /\ e - 1 = (e - 2) + 1
    BY <1>1
  <2>2. k \in Nat
    BY <1>1, <2>1, Products
  <2>3. ((e - 2) + 1) * unit = (e - 2) * unit + unit
    BY <1>1, <2>1
  <2> QED
    BY <2>1, <2>2, <2>3
<1>12. ((E + 1) - 1) * unit = (E - 1) * unit + unit /\ (E - 1) * unit \in Nat
  <2>1. E \in Nat \ {0}
    BY <1>5
  <2> HIDE DEF E
  <2>2. E - 1 \in Nat /\ (E + 1) - 1 = E /\ E = (E - 1) + 1
    BY <2>1
  <2>3. ((E - 1) + 1) * unit = (E - 1) * unit + unit /\ (E - 1) * unit \in Nat
    BY <1>1, <2>2, Products
  <2> QED
    BY <2>2, <2>3
<1>13. CASE E = e - 1
  <2>1. P <= p
    BY <1>5, <1>7, <1>13
  <2>2. (E - 1) * unit = k
    BY <1>11, <1>13
  <2>3. /\ Left = IF P < 2 * (unit * unit) THEN k + A ELSE k + unit + B
        /\ Right = IF p < 2 * (unit * unit) THEN k + C ELSE k + unit + D
    <3> HIDE DEF k, P, p, E
    <3> QED
      BY <1>8, <1>9, <1>11, <1>12, <2>2
  <2>4. /\ A \in Nat /\ B \in Nat /\ C \in Nat /\ D \in Nat /\ A <= C /\ B <= D
        /\ P < 2 * (unit * unit) => A <= 2 * unit
        /\ p >= 2 * (unit * unit) => unit <= D
    BY <1>10, <2>1
  <2> HIDE DEF k, P, p, E, A, B, C, D
  <2> QED
    BY <1>1, <1>7, <1>11, <2>1, <2>3, <2>4 DEF Left, Right
<1>14. CASE E <= e - 2
  <2>1. (E - 1) * unit + unit <= k
    <3>1. E \in Int /\ e - 2 \in Int /\ E - 1 \in Int
      BY <1>1, <1>5
    <3> HIDE DEF E
    <3>2. E * unit <= (e - 2) * unit
      BY <1>1, <1>14, <3>1, Monotone
    <3>3. E * unit = (E - 1) * unit + unit
      BY <1>1, <3>1
    <3> QED
      BY <3>2, <3>3
  <2> DEFINE g == (E - 1) * unit
  <2>2. /\ Left = IF P < 2 * (unit * unit) THEN g + A ELSE g + unit + B
        /\ Right = IF p < 2 * (unit * unit) THEN k + C ELSE k + unit + D
    <3> HIDE DEF k, P, p, E
    <3> QED
      BY <1>8, <1>9, <1>11, <1>12
  <2>3. /\ A \in Nat /\ B \in Nat /\ C \in Nat /\ D \in Nat
        /\ P < 2 * (unit * unit) => A <= 2 * unit
        /\ B <= m /\ B <= 2 * unit /\ m <= C /\ unit <= C
        /\ p >= 2 * (unit * unit) => unit <= D
    BY <1>10
  <2>4. g \in Nat /\ g + unit <= k
    BY <1>12, <2>1
  <2> HIDE DEF g, k, P, p, E, A, B, C, D
  <2> QED
    BY <1>1, <1>6, <1>7, <1>11, <2>2, <2>3, <2>4 DEF Left, Right
<1>15. E = e - 1 \/ E <= e - 2
  <2> HIDE DEF E
  <2> QED
    BY <1>1, <1>5
<1> QED
  BY <1>13, <1>14, <1>15 DEF Left, Right

\* The value of a pattern.
LEMMA NumberIsNat == \A f \in Numbers : Bits(f) \in Nat
<1>1. HIGH \in Nat /\ WORD \in Nat
  BY LimbAssumption, LayoutAssumption, WordFacts DEF HIGH
<1> TAKE f \in Numbers
<1>2. f.hi \in Nat /\ f.lo \in Nat
  BY <1>1 DEF Numbers, Words
<1>3. f.hi * WORD \in Nat
  BY <1>1, <1>2, Products
<1> QED
  BY <1>2, <1>3 DEF Bits

\* A normal number is a pair of words.
LEMMA NormalsAreNumbers == Normals \subseteq [hi : Nat, lo : Words]
  BY LimbAssumption, LayoutAssumption DEF Normals

\* The product with a scale whose largest draw does not overshoot does not either.
LEMMA IntensityBelowEnd ==
    ASSUME NEW low \in Words, NEW w \in Words, NEW by, NEW high \in Nat,
           \/ by = Zero
           \/ by \in Normals /\ Exponent(by) \in MANTISSA + 1 .. BIAS + 2,
           ~Host!Overshoots(Bits(by), high)
    PROVE  Bits(uniform_f64(low, w, by)) <= high
<1> DEFINE d == 2 ^ (2 * W - MANTISSA)
           g == f64_from_scaled_int(w \div d, low \div d + Shl32(w, WORD \div d), -MANTISSA)
           x == Bits(g)
           y == Bits(by)
<1>1. \/ g = Zero
      \/ /\ g \in Normals /\ Exponent(g) \in BIAS - MANTISSA .. BIAS - 1
         /\ Exponent(g) = BIAS - 1 => Whole(g) <= 2 * ONE - 2
  BY UnitSample
<1>2. uniform_f64(low, w, by) = f64_mul(g, by)
  BY DEF uniform_f64
<1> HIDE DEF g
<1>3. Bits(Zero) = 0 /\ f64_is_zero(Zero)
  <2>1. EXPONENTS * TOP \in Nat \ {0} /\ WORD \in Nat
    BY LimbAssumption, LayoutAssumption, WordFacts
  <2>2. 0 % (EXPONENTS * TOP) = 0
    BY <2>1
  <2> QED
    BY <2>1, <2>2 DEF Bits, Zero, f64_is_zero
<1>4. CASE g = Zero \/ by = Zero
  BY <1>2, <1>3, <1>4 DEF f64_mul
<1>5. CASE g \in Normals /\ by \in Normals /\ Exponent(by) \in MANTISSA + 1 .. BIAS + 2
           /\ Exponent(g) \in BIAS - MANTISSA .. BIAS - 1
           /\ (Exponent(g) = BIAS - 1 => Whole(g) <= 2 * ONE - 2)
  <2>1. /\ x \in Nat \ {0} /\ Host!Exponent(x) = Exponent(g)
        /\ Host!Significand(x) = Whole(g) /\ Whole(g) \in ONE .. 2 * ONE - 1
    BY <1>5, NormalOnHost
  <2>2. y \in Nat \ {0} /\ Host!Exponent(y) = Exponent(by)
    BY <1>5, NormalOnHost
  <2>3. /\ BIAS \in Nat /\ MANTISSA \in Nat \ {0} /\ EXPONENTS \in Nat
        /\ MANTISSA + 2 <= BIAS /\ 2 * BIAS < EXPONENTS /\ BIAS + 3 < EXPONENTS
    BY BiasFacts, BiasAssumption
  <2>4. /\ 1 <= Exponent(g) + Exponent(by) - BIAS
        /\ Exponent(g) + Exponent(by) - BIAS + 2 < EXPONENTS
        /\ Exponent(by) > 1 /\ Exponent(g) <= BIAS - 1
    BY <1>5, <2>3
  <2>5. Bits(f64_mul(g, by)) = Host!Product(x, y)
    BY <1>5, <2>4, F64MulIsHostProduct
  <2>6. Host!Unit = ONE
    BY SameUnit
  <2> HIDE DEF x, y
  <2>7. Whole(g) >= Host!Unit /\ (Exponent(g) = BIAS - 1 => Whole(g) <= 2 * Host!Unit - 2)
    <3>1. ONE \in Nat
      BY SameUnit
    <3> QED
      BY <1>5, <2>1, <2>6, <3>1
  <2>8. Host!Product(x, y) <= Host!Product(y, Host!MaxRand)
    BY <2>1, <2>2, <2>4, <2>7, SmallerSample
  <2>9. ~(Host!Product(y, Host!MaxRand) > high)
    BY DEF Host!Overshoots, y
  <2>10. Host!Product(x, y) \in Int
    <3>1. standard_f64(low, w) \in Numbers /\ uniform_f64(low, w, by) \in Numbers
      <4>1. by \in [hi : Nat, lo : Words]
        BY <1>5, NormalsAreNumbers
      <4> QED
        BY <4>1, SampleTypes
    <3> QED
      BY <1>2, <2>5, <3>1, NumberIsNat
  <2>11. Host!Product(y, Host!MaxRand) \in Int
    <3> DEFINE e == Host!Exponent(y)
               p == Host!Significand(y) * (2 * Host!Unit - 2)
    <3>1. e > 1 /\ e \in Nat /\ p \in Nat
      BY <2>2, <2>4, LargestDraw, PatternFacts
    <3>2. \/ Host!Product(y, Host!MaxRand)
                = Host!Pattern(e - 1, Host!RoundEven(p, Host!Unit))
          \/ Host!Product(y, Host!MaxRand)
                = Host!Pattern(e, Host!RoundEven(p, 2 * Host!Unit))
      BY <2>2, <2>4, UnitFacts, LargestDraw, Products
    <3> HIDE DEF e, p
    <3>3. Host!RoundEven(p, Host!Unit) \in Nat /\ Host!RoundEven(p, 2 * Host!Unit) \in Nat
      <4>1. Host!Unit \in Nat \ {0} /\ 2 * Host!Unit \in Nat \ {0}
        BY UnitFacts
      <4> QED
        BY <3>1, <4>1, RoundBounds
    <3>4. \A k \in Nat, r \in Nat : Host!Pattern(k, r) \in Int
      BY UnitFacts DEF Host!Pattern
    <3>5. e - 1 \in Nat
      BY <3>1
    <3> QED
      BY <3>1, <3>2, <3>3, <3>4, <3>5
  <2> QED
    BY <1>2, <2>5, <2>8, <2>9, <2>10, <2>11
<1> QED
  BY <1>1, <1>4, <1>5

\* What NeverOvershoots is inductive with.
Bounded == Typed /\ NeverOvershoots

\* The products of a draw's samples with its scale are normal numbers, or 0.
NormalProducts == \A d \in Draws : HasNormalProducts(d)

\* The scale a draw is made with, once it is uploaded.
LEMMA ScaleInUse ==
    ASSUME NormalProducts, Walking, ~Unlaunched
    PROVE  /\ Bits(Split(scale)) = scale
           /\ \/ Split(scale) = Zero
              \/ /\ Split(scale) \in Normals
                 /\ Exponent(Split(scale)) \in MANTISSA + 1 .. BIAS + 2
           /\ ~Host!Overshoots(Bits(Split(scale)), draw.theta_max)
<1> DEFINE q == Host!Quotient(draw.theta_max)
<1>1. draw \in Draws /\ HasNormalProducts(draw) /\ draw.theta_max \in Nat
  BY DrawFacts DEF Walking, NormalProducts
<1>2. q \in Nat
  BY <1>1, OneStepDown
<1>3. \/ scale = q
      \/ scale = q - 1 /\ q # 0 /\ Host!Overshoots(q, draw.theta_max)
  BY DEF Walking, Unlaunched
<1>4. scale \in Nat
  <2> HIDE DEF q
  <2> QED
    BY <1>2, <1>3
<1>5. /\ Bits(Split(scale)) = scale
      /\ \/ scale = 0 /\ Split(scale) = Zero
         \/ /\ Split(scale) \in Normals
            /\ Exponent(Split(scale)) \in MANTISSA + 1 .. BIAS + 2
  BY <1>1, <1>3, <1>4, ScaleIsNormal
<1>6. ~Host!Overshoots(scale, draw.theta_max)
  BY DEF Walking
<1> QED
  BY <1>5, <1>6

\* Every step keeps the invariant.
LEMMA BoundedStep == NormalProducts /\ Bounded /\ [Next]_vars => Bounded'
<1> SUFFICES ASSUME NormalProducts, Bounded, [Next]_vars
             PROVE  Bounded'
  OBVIOUS
<1>1. Typed'
  BY TypedStep DEF Bounded
<1>2. ASSUME UNCHANGED <<draw, theta>>
      PROVE  Bounded'
  BY <1>1, <1>2 DEF Bounded, NeverOvershoots
<1>3. ASSUME theta' = NoValue
      PROVE  Bounded'
  BY <1>1, <1>3 DEF Bounded, NeverOvershoots
<1>4. CASE Theta
  <2>1. PICK w \in draw.words : theta' = uniform_f64(lo, w, Split(scale))
    BY <1>4 DEF Theta
  <2>2. lo \in Words /\ Walking /\ ~Unlaunched /\ draw' = draw
    BY <1>4 DEF Theta, Bounded, Typed, Unlaunched, lane
  <2>3. w \in Words /\ draw.theta_max \in Nat
    BY <2>1, <2>2, DrawFacts DEF Walking
  <2>4. Bits(uniform_f64(lo, w, Split(scale))) <= draw.theta_max
    BY <2>2, <2>3, ScaleInUse, IntensityBelowEnd
  <2> QED
    BY <1>1, <2>1, <2>2, <2>4 DEF Bounded, NeverOvershoots, Bits
<1>5. CASE Compare
  BY <1>3, <1>5 DEF Compare
<1>6. CASE ~Theta /\ ~Compare
  BY <1>2, <1>6 DEF Next, Divide, WalkDown, Launch, LowWord, U, Reject, Accept, Hit,
     Stopped, vars, lane
<1> QED
  BY <1>4, <1>5, <1>6

\* Inclusive means inclusive: the device draws no intensity above the end of the
\* interval, however the quotient and the products are rounded, for every width of
\* word and mantissa.  The hypothesis is needed: f64_mul has no subnormal results
\* (device_draw_tiny).
THEOREM EndIsRespected ==
    ASSUME NormalProducts
    PROVE  Spec => []NeverOvershoots
<1>1. Init => Bounded
  <2>1. Init => Typed
    BY TypedInit
  <2>2. Init => NeverOvershoots
    BY DEF Init, NeverOvershoots
  <2> QED
    BY <2>1, <2>2 DEF Bounded
<1>2. Bounded /\ [Next]_vars => Bounded'
  BY BoundedStep
<1>3. Bounded => NeverOvershoots
  BY DEF Bounded
<1> QED
  BY <1>1, <1>2, <1>3, PTL DEF Spec

-----------------------------------------------------------------------------
(* The draw is the host's.                                                 *)

\* The scale the device walks down to is the one the host does.
LEMMA ScaleIsHosts ==
    ASSUME NEW high \in Nat
    PROVE  LET q == Host!Quotient(high)
           IN  Host!InclusiveScale(high) = IF Host!Overshoots(q, high) THEN q - 1 ELSE q
<1> DEFINE q == Host!Quotient(high)
           Over(s) == Host!Overshoots(s, high)
           F == CHOOSE f : f = [s \in 0 .. q |-> IF Over(s) THEN f[s - 1] ELSE s]
<1>1. q \in Nat /\ (q # 0 => ~Over(q - 1)) /\ ~Over(0)
  BY OneStepDown DEF Host!Overshoots, Host!Product
<1>2. Host!InclusiveScale(high) = F[q]
  BY DEF Host!InclusiveScale
<1> DEFINE Stops(s) == {t \in 0 .. s : ~Over(t) /\ \A r \in t + 1 .. s : Over(r)}
<1> HIDE DEF q, Over
<1>3. \A s \in 0 .. q : \E t \in Stops(s) : TRUE
  <2> TAKE s \in 0 .. q
  <2> DEFINE T == {k \in 0 .. s : ~Over(s - k)}
  <2>1. T \in SUBSET Nat /\ T # {}
    <3>1. s \in 0 .. s /\ s - s = 0
      BY <1>1
    <3>2. s \in T
      BY <1>1, <3>1
    <3> QED
      BY <3>2
  <2>2. \A k \in T : k \in 0 .. s /\ ~Over(s - k)
    OBVIOUS
  <2>3. \A k \in 0 .. s : ~Over(s - k) => k \in T
    OBVIOUS
  <2> HIDE DEF T
  <2>4. PICK k \in T : \A j \in T : k <= j
    BY <2>1, Least
  <2>5. k \in 0 .. s /\ s \in Nat
    BY <1>1, <2>2, <2>4
  <2>6. ASSUME NEW r \in (s - k) + 1 .. s PROVE Over(r)
    <3>1. s - r \in 0 .. s /\ s - r < k /\ s - (s - r) = r
      BY <2>5, <2>6
    <3>2. s - r \in 0 .. s => (~Over(s - (s - r)) => s - r \in T)
      BY <2>3
    <3>3. s - r \in T => k <= s - r
      BY <2>4
    <3> QED
      BY <2>5, <3>1, <3>2, <3>3
  <2>7. s - k \in 0 .. s /\ ~Over(s - k)
    BY <2>2, <2>4, <2>5
  <2>8. s - k \in Stops(s)
    BY <2>6, <2>7
  <2> QED
    BY <2>8
<1>4. \A s \in 0 .. q : \A t, v \in Stops(s) : t = v
  <2> TAKE s \in 0 .. q
  <2> TAKE t, v \in Stops(s)
  <2>1. /\ t \in 0 .. s /\ ~Over(t) /\ v \in 0 .. s /\ ~Over(v) /\ s \in Nat
        /\ ~(t \in v + 1 .. s) /\ ~(v \in t + 1 .. s)
    BY <1>1
  <2> HIDE DEF Stops
  <2> QED
    BY <2>1
<1> DEFINE G(s) == CHOOSE t \in Stops(s) : TRUE
           g == [s \in 0 .. q |-> G(s)]
<1>5. \A s \in 0 .. q : G(s) \in Stops(s)
  BY <1>3
<1>6. \A s \in 0 .. q : Over(s) => s - 1 \in 0 .. q /\ Stops(s - 1) \subseteq Stops(s)
  <2> TAKE s \in 0 .. q
  <2> HAVE Over(s)
  <2>1. s \in Nat /\ s # 0
    BY <1>1
  <2>2. s - 1 \in 0 .. q /\ q \in Nat
    BY <1>1, <2>1
  <2>3. ASSUME NEW t \in Stops(s - 1) PROVE t \in Stops(s)
    <3>1. t \in 0 .. s - 1 /\ ~Over(t) /\ \A r \in t + 1 .. s - 1 : Over(r)
      BY <2>3
    <3>2. ASSUME NEW r \in t + 1 .. s PROVE Over(r)
      <4>1. r = s \/ r \in t + 1 .. s - 1
        BY <2>1, <3>1, <3>2
      <4> QED
        BY <3>1, <4>1
    <3>3. t \in 0 .. s
      BY <2>1, <3>1
    <3> QED
      BY <3>1, <3>2, <3>3
  <2> QED
    BY <2>2, <2>3
<1>7. \A s \in 0 .. q : ~Over(s) => s \in Stops(s)
  <2> TAKE s \in 0 .. q
  <2> HAVE ~Over(s)
  <2>1. s \in Nat
    BY <1>1
  <2>2. s \in 0 .. s /\ \A r \in s + 1 .. s : FALSE
    BY <2>1
  <2> QED
    BY <2>2
<1> HIDE DEF Stops, G
<1>8. \A s \in 0 .. q : G(s) = IF Over(s) THEN g[s - 1] ELSE s
  <2> TAKE s \in 0 .. q
  <2>1. CASE Over(s)
    <3>1. s - 1 \in 0 .. q /\ G(s - 1) \in Stops(s)
      BY <1>5, <1>6, <2>1
    <3>2. g[s - 1] = G(s - 1)
      BY <3>1
    <3>3. G(s) = G(s - 1)
      BY <1>4, <1>5, <3>1
    <3> QED
      BY <2>1, <3>2, <3>3
  <2>2. CASE ~Over(s)
    <3>1. G(s) = s
      BY <1>4, <1>5, <1>7, <2>2
    <3> QED
      BY <2>2, <3>1
  <2> QED
    BY <2>1, <2>2
<1>9. g = [s \in 0 .. q |-> IF Over(s) THEN g[s - 1] ELSE s]
  BY <1>8
<1> HIDE DEF g
<1>10. F = [s \in 0 .. q |-> IF Over(s) THEN F[s - 1] ELSE s]
  BY <1>9
<1> HIDE DEF F
<1>11. \A s \in 0 .. q : F[s] = IF Over(s) THEN F[s - 1] ELSE s
  <2> TAKE s \in 0 .. q
  <2>1. [x \in 0 .. q |-> IF Over(x) THEN F[x - 1] ELSE x][s]
          = IF Over(s) THEN F[s - 1] ELSE s
    OBVIOUS
  <2> QED
    BY <1>10, <2>1
<1>12. q \in 0 .. q /\ (Over(q) => q - 1 \in 0 .. q /\ ~Over(q - 1))
  BY <1>1
<1>13. F[q] = IF Over(q) THEN q - 1 ELSE q
  BY <1>11, <1>12
<1> QED
  BY <1>2, <1>13 DEF Over, q

\* Which words are rejected, and the label of one that is not, are the host's.
LEMMA RangeIsHosts ==
    ASSUME NEW w \in Words, NEW k \in Words \ {0}
    PROVE  /\ Accepts(w, k) <=> Host!Accepted(w, k)
           /\ RangeLabel(w, k) = Host!LabelOf(w, k)
<1> DEFINE p == LeadingBit(k)
           h == 2 ^ (W - 1 - p)
           m == mul32(w, k)
<1>1. Zone(k) = k * h - 1
  BY ZoneFits
<1>2. Host!LeadingBit(k) = p
  <2>1. p \in 0 .. W - 1 /\ 2 ^ p <= k /\ k < 2 ^ (p + 1)
    BY LeadingBitOfWord
  <2> HIDE DEF p
  <2>2. k \in Nat /\ p \in 0 .. 2 * MANTISSA + 1
    <3>1. W \in Nat /\ MH \in Nat /\ MANTISSA = W + MH
      BY RoomInWord DEF MANTISSA
    <3> QED
      BY <2>1, <3>1, WordFacts DEF Words
  <2> QED
    BY <2>1, <2>2, HostLeadingBit
<1>3. Host!RangeZone(k) = k * h - 1
  BY <1>2 DEF Host!RangeZone
<1> HIDE DEF h
<1>4. m.lo \in 0 .. WORD - 1 /\ m.hi \in Nat /\ w * k = m.hi * WORD + m.lo
  BY Mul32Exact, WordFacts DEF Number, U64, Words
<1>5. (w * k) % WORD = m.lo /\ (w * k) \div WORD = m.hi
  <2> DEFINE x == m.hi
             y == m.lo
  <2>1. y \in 0 .. WORD - 1 /\ x \in Nat /\ w * k = x * WORD + y
    BY <1>4
  <2>2. WORD \in Nat \ {0}
    BY WordFacts
  <2> HIDE DEF x, y
  <2>3. (x * WORD + y) \div WORD = x /\ (x * WORD + y) % WORD = y
    BY <2>1, <2>2, QuotientRemainder
  <2> QED
    BY <2>1, <2>3 DEF x, y
<1>6. k # 0
  OBVIOUS
<1> HIDE DEF m
<1>7. Accepts(w, k) <=> m.lo <= Zone(k)
  BY <1>6 DEF Accepts, m
<1>8. RangeLabel(w, k) = m.hi
  BY <1>6 DEF RangeLabel, m
<1> QED
  BY <1>1, <1>3, <1>5, <1>7, <1>8 DEF Host!Accepted, Host!LabelOf

\* Comparing two patterns is comparing their values.
LEMMA LessIsLess ==
    ASSUME NEW a \in Numbers, NEW b \in Numbers
    PROVE  f64_lt(a, b) <=> Bits(a) < Bits(b)
<1>1. /\ HIGH \in Nat /\ WORD \in Nat \ {0}
      /\ a.hi \in 0 .. HIGH - 1 /\ a.lo \in Words /\ b.hi \in 0 .. HIGH - 1 /\ b.lo \in Words
  BY LimbAssumption, LayoutAssumption, WordFacts DEF HIGH, Numbers
<1>2. \A x, y \in Nat : \A v, z \in 0 .. WORD - 1 :
         x < y => x * WORD + v < y * WORD + z
  <2> TAKE x, y \in Nat
  <2> TAKE v, z \in 0 .. WORD - 1
  <2> HAVE x < y
  <2>1. (x + 1) * WORD <= y * WORD
    <3>1. x + 1 \in Int /\ x + 1 <= y
      OBVIOUS
    <3> QED
      BY <1>1, <3>1, Monotone
  <2>2. (x + 1) * WORD = x * WORD + WORD /\ x * WORD \in Nat /\ y * WORD \in Nat
    BY <1>1, Products
  <2> QED
    BY <1>1, <2>1, <2>2
<1>3. /\ a.hi \in Nat /\ b.hi \in Nat /\ a.lo \in 0 .. WORD - 1 /\ b.lo \in 0 .. WORD - 1
      /\ a.hi * WORD \in Nat /\ b.hi * WORD \in Nat
  BY <1>1, Products DEF Words
<1>4. CASE a.hi < b.hi
  BY <1>2, <1>3, <1>4 DEF f64_lt, Bits
<1>5. CASE b.hi < a.hi
  <2>1. Bits(b) < Bits(a)
    BY <1>2, <1>3, <1>5 DEF Bits
  <2>2. Bits(a) \in Int /\ Bits(b) \in Int
    BY <1>1, <1>3 DEF Bits
  <2>3. ~f64_lt(a, b)
    BY <1>3, <1>5 DEF f64_lt
  <2> QED
    BY <2>1, <2>2, <2>3
<1>6. CASE a.hi = b.hi
  <2>1. \A c \in Nat, x, y \in 0 .. WORD - 1 : c + x < c + y <=> x < y
    BY <1>1
  <2>2. Bits(a) = a.hi * WORD + a.lo /\ Bits(b) = a.hi * WORD + b.lo
    BY <1>6 DEF Bits
  <2> QED
    BY <1>3, <1>6, <2>1, <2>2 DEF f64_lt
<1> QED
  BY <1>3, <1>4, <1>5, <1>6

\* The keys of the two forks are the same definition.
LEMMA SameFork ==
    ASSUME NEW seed \in U64, NEW i \in U64
    PROVE  StreamKey(seed, i) = Host!ForkKey(Number(seed), Number(i))
<1>1. Host!ForkKey(Number(seed), Number(i)) = Fork!ForkKey(Number(seed), Number(i))
  BY DEF Host!ForkKey, Fork!ForkKey, Host!LittleEndian, Fork!LittleEndian, Host!Mix,
     Fork!Mix, Host!XorDouble, Fork!XorDouble, Host!WrappingAdd, Fork!WrappingAdd,
     Host!WrappingMul, Fork!WrappingMul, Host!DOUBLE, Fork!DOUBLE
<1> QED
  BY <1>1, KeysAgree

\* The values the device holds, as the host would.
HostPc == IF pc \in {"divide", "walk"} THEN "fork" ELSE pc
HostKey == IF stream = NoValue THEN NoValue ELSE stream.key
HostTheta == IF theta = NoValue THEN NoValue ELSE Bits(theta)
HostU == IF u = NoValue THEN NoValue ELSE Bits(u)

\* A word the device takes is the next word of the host's keystream.
LEMMA TakeIsHosts ==
    ASSUME Typed, ~Unlaunched, ~Unlaunched', draw' = draw,
           NEW w \in draw.words, NextU32(w)
    PROVE  Host!Take(w) /\ HostKey' = HostKey /\ w \in Words
<1>1. Reading /\ draw \in Draws
  BY DEF Typed, IInv
<1>2. Reading'
  BY <1>1, TakingAWord
<1>3. stream.word < MaxWords /\ word' = w /\ taken = stream.word
  BY <1>1 DEF NextU32, Reading
<1>4. taken' = taken + 1
  <2>1. Current(stream).block[stream.word % BLOCK] = stream.word
    BY <1>1, CurrentHoldsWord DEF Reading
  <2> QED
    BY <1>3, <2>1 DEF NextU32
<1>5. w \in Words /\ draw.seed \in U64 /\ draw.i \in U64
  BY <1>1, DrawFacts
<1>6. /\ stream \in Streams /\ stream.key = StreamKey(draw.seed, draw.i)
      /\ stream' \in Streams /\ stream'.key = StreamKey(draw.seed, draw.i)
  <2>1. DrawStreams \subseteq Streams /\ DrawStreams' = DrawStreams
    BY <1>5, StreamType DEF DrawStreams, Streams
  <2>2. stream \in DrawStreams /\ stream' \in DrawStreams'
    BY <1>1, <1>2 DEF Reading
  <2> QED
    BY <2>1, <2>2 DEF DrawStreams
<1>7. HostKey' = HostKey
  BY <1>6, NoValueAssumption DEF HostKey
<1> QED
  BY <1>3, <1>4, <1>5, <1>7 DEF Host!Take

\* The intensity the device draws is the host's.
LEMMA ThetaIsHosts ==
    ASSUME NormalProducts, Typed, ~Unlaunched, NEW low \in Words, NEW w \in Words
    PROVE  Bits(uniform_f64(low, w, Split(scale)))
             = Host!UniformSample(w * WORD + low, Host!InclusiveScale(draw.theta_max))
<1>1. Walking /\ draw.theta_max \in Nat
  BY DrawFacts DEF Typed, Walking
<1>2. /\ Bits(Split(scale)) = scale
      /\ \/ Split(scale) = Zero
         \/ /\ Split(scale) \in Normals
            /\ Exponent(Split(scale)) \in MANTISSA + 1 .. BIAS + 2
  BY <1>1, ScaleInUse
<1>3. Bits(uniform_f64(low, w, Split(scale))) = Host!UniformSample(w * WORD + low, scale)
  <2> DEFINE by == Split(scale)
  <2>1. by = Zero \/ (by \in Normals /\ Exponent(by) \in MANTISSA + 1 .. BIAS + 2)
    BY <1>2
  <2>2. Bits(by) = scale
    BY <1>2
  <2> HIDE DEF by
  <2>3. Bits(uniform_f64(low, w, by)) = Host!UniformSample(w * WORD + low, Bits(by))
    BY <2>1, IntensityIsHosts
  <2> QED
    BY <2>2, <2>3 DEF by
<1>4. scale = Host!InclusiveScale(draw.theta_max)
  <2> DEFINE q == Host!Quotient(draw.theta_max)
  <2>1. \/ scale = q /\ ~Host!Overshoots(q, draw.theta_max)
        \/ scale = q - 1 /\ Host!Overshoots(q, draw.theta_max)
    BY <1>1 DEF Walking, Unlaunched
  <2>2. Host!InclusiveScale(draw.theta_max)
          = IF Host!Overshoots(q, draw.theta_max) THEN q - 1 ELSE q
    BY <1>1, ScaleIsHosts
  <2> QED
    BY <2>1, <2>2
<1> QED
  BY <1>3, <1>4

\* Every step of the device is a step of the host, or none.
LEMMA HostStep ==
    NormalProducts /\ Typed /\ Typed' /\ [Next]_vars => [Host!Next]_(Host!vars)
<1> SUFFICES ASSUME NormalProducts, Typed, Typed', [Next]_vars
             PROVE  [Host!Next]_(Host!vars)
  OBVIOUS
<1> DEFINE Draw == [draw EXCEPT !.seed = Number(@), !.i = Number(@)]
<1>1. ASSUME UNCHANGED <<draw, stream, taken, word, lo, theta, u, label, hit>>,
             HostPc' = HostPc
      PROVE  UNCHANGED Host!vars
  BY <1>1 DEF Host!vars, HostPc
<1>2. /\ draw \in Draws /\ draw.words \subseteq Words /\ draw.k \in Words \ {0}
      /\ draw.seed \in U64 /\ draw.i \in U64
  BY DrawFacts DEF Typed, Walking
<1>3. /\ Draw.words = draw.words /\ Draw.k = draw.k /\ Draw.base = draw.base
      /\ Draw.theta_max = draw.theta_max
      /\ Draw.seed = Number(draw.seed) /\ Draw.i = Number(draw.i)
  BY <1>2, DrawsAssumption
<1>4. CASE Divide
  BY <1>1, <1>4 DEF Divide, HostPc
<1>5. CASE WalkDown
  BY <1>1, <1>5 DEF WalkDown, HostPc
<1>6. CASE Launch
  <2>1. stream' = stream_new(draw.seed, draw.i) /\ stream'.key = StreamKey(draw.seed, draw.i)
    BY <1>6 DEF Launch, stream_new
  <2>2. stream' # NoValue
    <3>1. ~Unlaunched'
      BY <1>6 DEF Launch, Unlaunched
    <3>2. stream' \in Streams
      <4>1. stream' \in DrawStreams' /\ draw' = draw
        BY <1>6, <3>1 DEF Typed, IInv, Reading, Launch, lane
      <4>2. DrawStreams' \subseteq Streams
        BY <1>2, <4>1, StreamType DEF DrawStreams, Streams
      <4> QED
        BY <4>1, <4>2
    <3> QED
      BY <3>2, NoValueAssumption
  <2>3. StreamKey(draw.seed, draw.i) = Host!ForkKey(Draw.seed, Draw.i)
    BY <1>2, <1>3, SameFork
  <2>4. Host!Fork
    BY <1>6, <2>1, <2>2, <2>3 DEF Host!Fork, Launch, lane
  <2> QED
    BY <2>4 DEF Host!Next
<1>7. ASSUME ~Unlaunched, ~Unlaunched', draw' = draw, NEW w \in draw.words, NextU32(w)
      PROVE  Host!Take(w) /\ HostKey' = HostKey /\ w \in Words
  BY <1>7, TakeIsHosts
<1>8. ASSUME NEW from, NEW to, LowWord(from, to),
             <<from, to>> \in {<<"theta lo", "theta hi">>, <<"u lo", "u hi">>}
      PROVE  Host!LowWord(from, to)
  <2>1. PICK w \in draw.words : NextU32(w) /\ lo' = w
    BY <1>8 DEF LowWord
  <2>2. ~Unlaunched /\ ~Unlaunched' /\ draw' = draw /\ HostPc = from /\ HostPc' = to
    BY <1>8 DEF LowWord, Unlaunched, lane, HostPc
  <2>3. Host!Take(w) /\ HostKey' = HostKey
    BY <1>7, <2>1, <2>2
  <2>4. UNCHANGED <<theta, u, label, hit>> /\ w \in Draw.words
    BY <1>3, <1>8, <2>1 DEF LowWord
  <2> HIDE DEF Draw
  <2> QED
    BY <2>1, <2>2, <2>3, <2>4 DEF Host!LowWord, HostPc, HostKey, Draw
<1>9. CASE LowWord("theta lo", "theta hi")
  BY <1>8, <1>9 DEF Host!Next
<1>10. CASE LowWord("u lo", "u hi")
  BY <1>8, <1>10 DEF Host!Next
<1>11. CASE Theta
  <2>1. PICK w \in draw.words : NextU32(w) /\ theta' = uniform_f64(lo, w, Split(scale))
    BY <1>11 DEF Theta
  <2>2. /\ ~Unlaunched /\ ~Unlaunched' /\ draw' = draw /\ pc = "theta hi" /\ pc' = "u lo"
        /\ lo' = NoValue /\ UNCHANGED <<u, label, hit>>
    BY <1>11 DEF Theta, Unlaunched, lane
  <2>3. Host!Take(w) /\ HostKey' = HostKey /\ w \in Words
    BY <1>7, <2>1, <2>2
  <2>4. lo \in Words /\ theta' # NoValue
    BY <2>2 DEF Typed
  <2>5. Bits(theta') = Host!UniformSample(w * WORD + lo, Host!InclusiveScale(Draw.theta_max))
    BY <1>3, <2>1, <2>2, <2>3, <2>4, ThetaIsHosts
  <2>6. Host!SampleTheta
    BY <1>3, <2>1, <2>2, <2>3, <2>4, <2>5 DEF Host!SampleTheta, HostKey, Bits
  <2> QED
    BY <2>6 DEF Host!Next
<1>12. CASE U
  <2>1. PICK w \in draw.words : NextU32(w) /\ u' = standard_f64(lo, w)
    BY <1>12 DEF U
  <2>2. /\ ~Unlaunched /\ ~Unlaunched' /\ draw' = draw /\ pc = "u hi" /\ pc' = "compare"
        /\ lo' = NoValue /\ UNCHANGED <<theta, label, hit>>
    BY <1>12 DEF U, Unlaunched, lane
  <2>3. Host!Take(w) /\ HostKey' = HostKey /\ w \in Words
    BY <1>7, <2>1, <2>2
  <2>4. lo \in Words /\ u' # NoValue
    BY <2>2 DEF Typed
  <2>5. Bits(u') = Host!StandardSample(w * WORD + lo)
    BY <2>1, <2>3, <2>4, VariateIsHosts
  <2>6. Host!SampleU
    BY <1>3, <2>1, <2>2, <2>3, <2>4, <2>5 DEF Host!SampleU, HostKey, Bits
  <2> QED
    BY <2>6 DEF Host!Next
<1>13. CASE Compare
  <2>1. /\ pc = "compare" /\ theta # NoValue /\ u # NoValue
        /\ theta \in Numbers /\ u \in Numbers
    BY <1>13 DEF Compare, Typed
  <2>2. f64_lt(u, theta) <=> Bits(u) < Bits(theta)
    BY <2>1, LessIsLess
  <2>3. Host!Compare
    BY <1>13, <2>1, <2>2 DEF Compare, Host!Compare, lane
  <2> QED
    BY <2>3 DEF Host!Next
<1>14. CASE Reject
  <2>1. PICK w \in draw.words : ~Accepts(w, draw.k) /\ NextU32(w)
    BY <1>14 DEF Reject
  <2>2. /\ ~Unlaunched /\ ~Unlaunched' /\ draw' = draw /\ pc = "range" /\ pc' = pc
        /\ UNCHANGED <<lo, theta, u, label, hit>>
    BY <1>14 DEF Reject, Unlaunched, lane
  <2>3. Host!Take(w) /\ HostKey' = HostKey /\ w \in Words
    BY <1>7, <2>1, <2>2
  <2>4. ~Host!Accepted(w, Draw.k)
    BY <1>2, <1>3, <2>1, <2>3, RangeIsHosts
  <2>5. Host!Reject
    BY <1>3, <2>1, <2>2, <2>3, <2>4 DEF Host!Reject, HostKey
  <2> QED
    BY <2>5 DEF Host!Next
<1>15. CASE Accept
  <2>1. PICK w \in draw.words :
           Accepts(w, draw.k) /\ NextU32(w) /\ label' = RangeLabel(w, draw.k)
    BY <1>15 DEF Accept
  <2>2. /\ ~Unlaunched /\ ~Unlaunched' /\ draw' = draw /\ pc = "range" /\ pc' = "eval"
        /\ UNCHANGED <<lo, theta, u, hit>>
    BY <1>15 DEF Accept, Unlaunched, lane
  <2>3. Host!Take(w) /\ HostKey' = HostKey /\ w \in Words
    BY <1>7, <2>1, <2>2
  <2>4. Host!Accepted(w, Draw.k) /\ label' = Host!LabelOf(w, Draw.k)
    BY <1>2, <1>3, <2>1, <2>3, RangeIsHosts
  <2>5. Host!Accept
    BY <1>3, <2>1, <2>2, <2>3, <2>4 DEF Host!Accept, HostKey
  <2> QED
    BY <2>5 DEF Host!Next
<1>16. CASE Hit
  <2>1. Host!Eval
    BY <1>3, <1>16 DEF Hit, Host!Eval, lane
  <2> QED
    BY <2>1 DEF Host!Next
<1>17. CASE Stopped \/ UNCHANGED vars
  BY <1>1, <1>17 DEF Stopped, vars, lane, drawn, HostPc
<1> QED
  BY <1>4, <1>5, <1>6, <1>9, <1>10, <1>11, <1>12, <1>13, <1>14, <1>15, <1>16, <1>17
     DEF Next

\* The device's draw is the host's ("bit-identically to the host", config.rs): from
\* the same key it takes the same words in the same order and comes to the same
\* intensity, variate, label and observation, for every width of word, mantissa and
\* exponent, every alphabet, seed and index.  The hypothesis is that of EndIsRespected.
THEOREM DrawIsHosts ==
    ASSUME NormalProducts
    PROVE  Spec => ImplementsHost
<1>1. Init => Typed
  BY TypedInit
<1>2. Init => Host!Init
  <2> SUFFICES ASSUME Init PROVE Host!Init
    OBVIOUS
  <2> DEFINE Draw(d) == [d EXCEPT !.seed = Number(@), !.i = Number(@)]
  <2>1. draw \in Draws
    BY DEF Init
  <2>2. Draw(draw) \in {Draw(d) : d \in Draws}
    BY <2>1
  <2>3. Draw(draw).start = draw.start
    BY <2>1, DrawsAssumption
  <2> QED
    BY <2>2, <2>3 DEF Init, Host!Init
<1>3. Typed /\ [Next]_vars => Typed'
  BY TypedStep
<1>4. Typed /\ Typed' /\ [Next]_vars => [Host!Next]_(Host!vars)
  BY HostStep
<1> QED
  BY <1>1, <1>2, <1>3, <1>4, PTL DEF Spec, ImplementsHost, Host!Spec
=============================================================================
