-------------------------- MODULE DispatchGridProof --------------------------
(***************************************************************************)
(* A dispatch covers its range: the invocations of the grid of threads     *)
(* take every index below threads, each exactly once, and no linear index  *)
(* wraps around in u32 arithmetic.                                         *)
(***************************************************************************)
EXTENDS DispatchGrid, FiniteSetTheorems, WellFoundedInduction, TLAPS

\* MAX_GRID_X * WORKGROUP = 2^21 divides 2^32 in the code.
GridDividesU32 == \E q \in Nat : U32 = q * (MAX_GRID_X * WORKGROUP)

\* The linear index before it is reduced modulo U32.
Raw(threads, inv) == (inv[2] * GridX(threads) + inv[1]) * WORKGROUP + inv[3]

-----------------------------------------------------------------------------
(* Products, quotients and remainders.                                     *)

\* Euclidean division.
LEMMA Division ==
    ASSUME NEW a \in Nat, NEW b \in Nat \ {0}
    PROVE  /\ a \div b \in Nat /\ a % b \in 0 .. b - 1
           /\ a = b * (a \div b) + (a % b)
  OBVIOUS

\* Multiplying by a natural number keeps the order.
LEMMA Monotone ==
    ASSUME NEW a \in Int, NEW b \in Int, NEW c \in Nat, a <= b
    PROVE  a * c <= b * c
  OBVIOUS

\* A positive factor cancels from a strict inequality.
LEMMA CancelFactor ==
    ASSUME NEW a \in Int, NEW b \in Int, NEW c \in Nat \ {0}, a * c < b * c
    PROVE  a < b
  OBVIOUS

\* A mixed-radix representation is unique.
LEMMA Digits ==
    ASSUME NEW a \in Nat, NEW b \in Nat, NEW c \in Nat \ {0},
           NEW u \in 0 .. c - 1, NEW v \in 0 .. c - 1, a * c + u = b * c + v
    PROVE  a = b /\ u = v
  OBVIOUS

\* What is written as a multiple plus a remainder is divided.
LEMMA QuotientRemainder ==
    ASSUME NEW q \in Nat, NEW c \in Nat \ {0}, NEW r \in 0 .. c - 1
    PROVE  (q * c + r) \div c = q /\ (q * c + r) % c = r
<1> DEFINE x == q * c + r
           v == x \div c
           u == x % c
<1>1. x \in Nat
  OBVIOUS
<1>2. v \in Nat /\ u \in 0 .. c - 1 /\ x = c * v + u
  BY <1>1, Division
<1>3. x = q * c + r
  OBVIOUS
<1> HIDE DEF x, v, u
<1>4. v * c + u = q * c + r
  BY <1>2, <1>3
<1>5. v = q /\ u = r
  BY <1>2, <1>4, Digits
<1> QED
  BY <1>5 DEF v, u, x

\* A nonempty set of natural numbers has a least element.
LEMMA Least ==
    ASSUME NEW T \in SUBSET Nat, T # {}
    PROVE  \E m \in T : \A j \in T : m <= j
<1>1. \E m \in T : \A j \in T : ~ (<<j, m>> \in OpToRel(<, Nat))
  BY NatLessThanWellFounded, WFMin, Zenon
<1>2. PICK m \in T : \A j \in T : ~ (<<j, m>> \in OpToRel(<, Nat))
  BY <1>1
<1>3. \A j \in T : ~(j < m)
  BY <1>2 DEF OpToRel
<1> QED
  BY <1>3

-----------------------------------------------------------------------------
(* Powers of two.                                                          *)

\* A power of two is the number of subsets of a set of that size.
LEMMA PowerCounts ==
    ASSUME NEW m \in Nat
    PROVE  /\ IsFiniteSet(SUBSET (1 .. m))
           /\ Cardinality(SUBSET (1 .. m)) = 2 ^ m
<1>1. IsFiniteSet(1 .. m) /\ Cardinality(1 .. m) = m
  BY FS_Interval
<1> QED
  BY <1>1, FS_SUBSET

\* So each is twice the one before: the subsets with the new element and those
\* without it.
LEMMA PowerDoubles ==
    ASSUME NEW m \in Nat
    PROVE  2 ^ m \in Nat \ {0} /\ 2 ^ (m + 1) = 2 * 2 ^ m
<1> DEFINE S == SUBSET (1 .. m)
           T == SUBSET (1 .. m + 1)
           W == {A \cup {m + 1} : A \in S}
           f == [A \in S |-> A \cup {m + 1}]
<1>1. /\ IsFiniteSet(S) /\ Cardinality(S) = 2 ^ m
      /\ IsFiniteSet(T) /\ Cardinality(T) = 2 ^ (m + 1)
  BY PowerCounts
<1>2. m + 1 \notin 1 .. m
  OBVIOUS
<1>3. f \in Bijection(S, W)
  <2>1. \A A, B \in S : A \cup {m + 1} = B \cup {m + 1} => A = B
    BY <1>2
  <2>2. \A A \in S : f[A] = A \cup {m + 1}
    BY Zenon
  <2>3. f \in [S -> W]
    BY Zenon
  <2>4. \A A, B \in S : f[A] = f[B] => A = B
    <3> HIDE DEF f, S
    <3> QED
      BY <2>1, <2>2
  <2>5. \A C \in W : \E A \in S : f[A] = C
    <3> HIDE DEF f, S
    <3> QED
      BY <2>2
  <2> HIDE DEF f, S, W
  <2> QED
    BY <2>3, <2>4, <2>5 DEF Bijection, Injection, Surjection, IsInjective
<1>4. IsFiniteSet(W) /\ Cardinality(W) = Cardinality(S)
  <2> HIDE DEF f, S, W
  <2>1. ExistsBijection(S, W)
    BY <1>3 DEF ExistsBijection
  <2> QED
    BY <1>1, <2>1, FS_Bijection
<1>5. T = S \cup W
  <2>1. ASSUME NEW A \in T PROVE A \in S \cup W
    <3>1. CASE m + 1 \in A
      <4>1. A \ {m + 1} \in S /\ A = (A \ {m + 1}) \cup {m + 1}
        BY <3>1
      <4> QED
        BY <4>1
    <3>2. CASE m + 1 \notin A
      BY <3>2
    <3> QED
      BY <3>1, <3>2
  <2>2. ASSUME NEW A \in S \cup W PROVE A \in T
    OBVIOUS
  <2> QED
    BY <2>1, <2>2
<1>6. S \cap W = {}
  BY <1>2
<1>7. Cardinality(S \cup W) = Cardinality(S) + Cardinality(W) - Cardinality(S \cap W)
  <2> HIDE DEF S, W
  <2> QED
    BY <1>1, <1>4, FS_Union
<1>8. Cardinality(S \cap W) = 0
  BY <1>6, FS_EmptySet
<1>9. Cardinality(S) \in Nat /\ Cardinality(S) # 0
  <2>1. {} \in S
    OBVIOUS
  <2> HIDE DEF S
  <2> QED
    BY <1>1, <2>1, FS_CardinalityType, FS_EmptySet
<1> HIDE DEF S, T, W
<1> QED
  BY <1>1, <1>4, <1>5, <1>7, <1>8, <1>9

-----------------------------------------------------------------------------
(* Division, rounded up.                                                   *)

\* u32::div_ceil rounds up by less than one divisor.
LEMMA CeilDivBounds ==
    ASSUME NEW a \in Nat \ {0}, NEW b \in Nat \ {0}
    PROVE  /\ CeilDiv(a, b) \in Nat \ {0}
           /\ a <= CeilDiv(a, b) * b
           /\ CeilDiv(a, b) * b < a + b
<1> DEFINE c == CeilDiv(a, b)
<1>1. c \in Nat /\ (a + b - 1) % b \in 0 .. b - 1 /\ a + b - 1 = b * c + ((a + b - 1) % b)
  <2>1. a + b - 1 \in Nat
    OBVIOUS
  <2> QED
    BY <2>1, Division DEF CeilDiv
<1>2. b * c = c * b /\ c * b \in Nat
  BY <1>1
<1> HIDE DEF c
<1>3. a <= c * b /\ c * b < a + b
  BY <1>1, <1>2
<1>4. c # 0
  BY <1>1, <1>3
<1> QED
  BY <1>1, <1>3, <1>4 DEF c

\* The rounded quotient of a number below a multiple of the divisor.
LEMMA CeilDivFits ==
    ASSUME NEW a \in Nat \ {0}, NEW b \in Nat \ {0}, NEW q \in Nat, a <= q * b
    PROVE  CeilDiv(a, b) <= q
<1> DEFINE c == CeilDiv(a, b)
<1>1. c \in Nat /\ c * b < a + b
  BY CeilDivBounds
<1> HIDE DEF c
<1>2. (q + 1) * b = q * b + b
  OBVIOUS
<1>3. c * b < (q + 1) * b
  BY <1>1, <1>2
<1>4. c < q + 1
  BY <1>1, <1>3, CancelFactor
<1> QED
  BY <1>1, <1>4 DEF c

-----------------------------------------------------------------------------
(* The shape of the grid.                                                  *)

\* No dimension is empty, and the groups of the grid cover the threads.
LEMMA GridShape ==
    ASSUME NEW threads \in Nat \ {0}
    PROVE  /\ Groups(threads) \in Nat \ {0}
           /\ GridX(threads) \in Nat \ {0}
           /\ GridY(threads) \in Nat \ {0}
           /\ threads <= Groups(threads) * WORKGROUP
           /\ Groups(threads) <= GridY(threads) * GridX(threads)
<1>1. Groups(threads) = CeilDiv(threads, WORKGROUP)
  BY DEF Groups
<1>2. Groups(threads) \in Nat \ {0} /\ threads <= Groups(threads) * WORKGROUP
  BY <1>1, CeilDivBounds, GridAssumption
<1>3. GridX(threads) \in Nat \ {0}
  BY <1>2, GridAssumption DEF GridX
<1>4. GridY(threads) \in Nat \ {0} /\ Groups(threads) <= GridY(threads) * GridX(threads)
  BY <1>2, <1>3, CeilDivBounds DEF GridY
<1> QED
  BY <1>2, <1>3, <1>4

\* A full row of workgroups divides the range of u32.
LEMMA GridDivides == GridDividesU32
<1> DEFINE r == MAX_GRID_X * WORKGROUP
<1>1. r \in Nat \ {0} /\ U32 \in Nat
  BY GridAssumption
<1>2. U32 % r = 0
  BY RowDividesU32
<1> HIDE DEF r
<1>3. U32 \div r \in Nat /\ U32 = r * (U32 \div r) + (U32 % r)
  BY <1>1, Division
<1> DEFINE q == U32 \div r
<1> HIDE DEF q
<1>4. q \in Nat /\ U32 = q * r
  BY <1>1, <1>2, <1>3 DEF q
<1> QED
  BY <1>4 DEF GridDividesU32, r

\* The whole grid, its overshoot included, has no more than U32 invocations.
LEMMA GridFits ==
    ASSUME NEW threads \in 1 .. U32
    PROVE  (GridY(threads) * GridX(threads)) * WORKGROUP <= U32
<1> DEFINE g == Groups(threads)
           x == GridX(threads)
           y == GridY(threads)
<1>1. PICK q \in Nat : U32 = q * (MAX_GRID_X * WORKGROUP)
  BY GridDivides DEF GridDividesU32
<1>2. U32 = (q * MAX_GRID_X) * WORKGROUP /\ q * MAX_GRID_X \in Nat
  BY <1>1, GridAssumption
<1>3. threads \in Nat \ {0}
  BY GridAssumption
<1>4. g \in Nat \ {0} /\ x \in Nat \ {0} /\ y \in Nat \ {0}
  BY <1>3, GridShape
<1>5. g <= q * MAX_GRID_X
  BY <1>2, <1>3, CeilDivFits, GridAssumption DEF Groups
<1>6. y * x <= q * MAX_GRID_X
  <2>1. CASE g <= MAX_GRID_X
    <3>1. x = g
      BY <2>1 DEF GridX
    <3>2. g <= 1 * g
      BY <1>4
    <3>3. y <= 1
      BY <1>4, <3>1, <3>2, CeilDivFits DEF GridY
    <3>4. y = 1
      BY <1>4, <3>3
    <3> HIDE DEF g, x, y
    <3> QED
      BY <1>4, <1>5, <3>1, <3>4
  <2>2. CASE ~(g <= MAX_GRID_X)
    <3>1. x = MAX_GRID_X
      BY <2>2 DEF GridX
    <3>2. y <= q
      BY <1>4, <1>5, <3>1, CeilDivFits, GridAssumption DEF GridY
    <3> HIDE DEF g, x, y
    <3> QED
      BY <1>4, <3>1, <3>2, Monotone, GridAssumption
  <2> QED
    BY <2>1, <2>2
<1> HIDE DEF g, x, y
<1>7. (y * x) * WORKGROUP <= (q * MAX_GRID_X) * WORKGROUP
  <2>1. y * x \in Int
    BY <1>4
  <2> QED
    BY <1>2, <1>6, <2>1, Monotone, GridAssumption
<1> QED
  BY <1>2, <1>7 DEF x, y

\* No invocation's index wraps around.
LEMMA NoWrap ==
    ASSUME NEW threads \in 1 .. U32, NEW inv \in Invocations(threads)
    PROVE  /\ Raw(threads, inv) \in Nat
           /\ LinearIndex(threads, inv) = Raw(threads, inv)
<1> DEFINE x == GridX(threads)
           y == GridY(threads)
           W == WORKGROUP
<1>1. x \in Nat \ {0} /\ y \in Nat \ {0} /\ W \in Nat \ {0} /\ U32 \in Nat \ {0}
  BY GridShape, GridAssumption
<1>2. inv[1] \in 0 .. x - 1 /\ inv[2] \in 0 .. y - 1 /\ inv[3] \in 0 .. W - 1
  BY DEF Invocations
<1>3. (y * x) * W <= U32
  BY GridFits
<1>4. Raw(threads, inv) = (inv[2] * x + inv[1]) * W + inv[3]
  BY DEF Raw
<1>5. LinearIndex(threads, inv) = ((inv[2] * x + inv[1]) * W + inv[3]) % U32
  BY DEF LinearIndex
<1> HIDE DEF x, y, W
<1>6. inv[2] * x + inv[1] \in Nat /\ inv[2] * x + inv[1] <= y * x - 1
  <2>1. inv[2] * x <= (y - 1) * x
    BY <1>1, <1>2, Monotone
  <2>2. (y - 1) * x = y * x - x
    BY <1>1
  <2> QED
    BY <1>1, <1>2, <2>1, <2>2
<1> DEFINE r == inv[2] * x + inv[1]
<1>7. r \in Nat /\ r <= y * x - 1
  BY <1>6
<1> HIDE DEF r
<1>8. r * W <= (y * x - 1) * W
  <2>1. y * x - 1 \in Int
    BY <1>1
  <2> QED
    BY <1>1, <1>7, <2>1, Monotone
<1>9. (y * x - 1) * W = (y * x) * W - W
  BY <1>1
<1>10. r * W + inv[3] \in Nat /\ r * W + inv[3] < U32
  BY <1>1, <1>2, <1>3, <1>7, <1>8, <1>9
<1>11. (r * W + inv[3]) % U32 = r * W + inv[3]
  BY <1>1, <1>10
<1> QED
  BY <1>4, <1>5, <1>10, <1>11 DEF r

-----------------------------------------------------------------------------

\* Every index of the range is taken by some invocation.
THEOREM EveryIndexTaken ==
    ASSUME NEW threads \in 1 .. U32, NEW i \in 0 .. threads - 1
    PROVE  \E inv \in Invocations(threads) : LinearIndex(threads, inv) = i
<1> DEFINE x == GridX(threads)
           y == GridY(threads)
           g == Groups(threads)
           W == WORKGROUP
           w == i \div W
           inv == <<w % x, w \div x, i % W>>
<1>1. /\ x \in Nat \ {0} /\ y \in Nat \ {0} /\ g \in Nat \ {0} /\ W \in Nat \ {0}
      /\ threads \in Nat \ {0} /\ i \in Nat /\ i < threads
      /\ threads <= g * W /\ g <= y * x
  BY GridShape, GridAssumption
<1>2. w \in Nat /\ i % W \in 0 .. W - 1 /\ i = W * w + (i % W)
  BY <1>1, Division
<1>3. w < g
  <2> HIDE DEF w, g, W
  <2>1. W * w = w * W
    BY <1>1, <1>2
  <2>2. w * W < g * W
    BY <1>1, <1>2, <2>1
  <2> QED
    BY <1>1, <1>2, <2>2, CancelFactor
<1>4. w % x \in 0 .. x - 1 /\ w \div x \in Nat /\ w = x * (w \div x) + (w % x)
  <2> HIDE DEF w, x
  <2> QED
    BY <1>1, <1>2, Division
<1>5. w \div x < y
  <2> HIDE DEF w, x, y, g
  <2> DEFINE v == w \div x
  <2>1. x * v = v * x /\ v \in Nat
    BY <1>1, <1>4
  <2> HIDE DEF v
  <2>2. v * x < y * x
    BY <1>1, <1>2, <1>3, <1>4, <2>1 DEF v
  <2> QED
    BY <1>1, <2>1, <2>2, CancelFactor DEF v
<1>6. inv \in Invocations(threads)
  BY <1>1, <1>2, <1>4, <1>5 DEF Invocations
<1>7. Raw(threads, inv) = ((w \div x) * x + (w % x)) * W + (i % W)
  BY DEF Raw
<1>8. (w \div x) * x + (w % x) = w
  <2> HIDE DEF w, x
  <2> QED
    BY <1>1, <1>4
<1>9. Raw(threads, inv) = i
  <2>1. Raw(threads, inv) = w * W + (i % W)
    BY <1>7, <1>8
  <2>2. w * W = W * w
    BY <1>1, <1>2
  <2> QED
    BY <1>2, <2>1, <2>2
<1>10. LinearIndex(threads, inv) = i % U32
  BY <1>9 DEF LinearIndex, Raw
<1>11. i % U32 = i
  BY <1>1, GridAssumption
<1> QED
  BY <1>6, <1>10, <1>11

\* No index, of the range or of its overshoot, is taken twice.
THEOREM NoIndexTakenTwice ==
    ASSUME NEW threads \in 1 .. U32,
           NEW inv \in Invocations(threads), NEW other \in Invocations(threads),
           LinearIndex(threads, inv) = LinearIndex(threads, other)
    PROVE  inv = other
<1> DEFINE x == GridX(threads)
           y == GridY(threads)
           W == WORKGROUP
<1>1. x \in Nat \ {0} /\ y \in Nat \ {0} /\ W \in Nat \ {0}
  BY GridShape, GridAssumption
<1>2. /\ inv[1] \in 0 .. x - 1 /\ inv[2] \in 0 .. y - 1 /\ inv[3] \in 0 .. W - 1
      /\ other[1] \in 0 .. x - 1 /\ other[2] \in 0 .. y - 1 /\ other[3] \in 0 .. W - 1
      /\ inv = <<inv[1], inv[2], inv[3]>> /\ other = <<other[1], other[2], other[3]>>
  BY DEF Invocations
<1>3. Raw(threads, inv) = Raw(threads, other)
  BY NoWrap
<1>4. (inv[2] * x + inv[1]) * W + inv[3] = (other[2] * x + other[1]) * W + other[3]
  BY <1>3 DEF Raw
<1> HIDE DEF x, y, W
<1>5. inv[2] * x + inv[1] \in Nat /\ other[2] * x + other[1] \in Nat
  BY <1>1, <1>2
<1>6. inv[2] * x + inv[1] = other[2] * x + other[1] /\ inv[3] = other[3]
  BY <1>1, <1>2, <1>4, <1>5, Digits
<1>7. inv[2] = other[2] /\ inv[1] = other[1]
  BY <1>1, <1>2, <1>6, Digits
<1> QED
  BY <1>2, <1>6, <1>7
=============================================================================
