------------------------- MODULE DeviceEstimateProof -------------------------
(***************************************************************************)
(* The invocations of a dispatch of the single-precision run never race,   *)
(* none leaves its buffers, and a run computes the estimate of Ensemble,   *)
(* whatever n, d, the workgroup and the grid.                              *)
(*                                                                         *)
(* reduce_columns first: its loop ends, after Levels levels, each of which *)
(* reads one buffer and writes another.  Then the invariant: what is in    *)
(* the queue is well formed, and the invocations under way are those of    *)
(* its head.  Last the contents of the buffers: a level that is done holds *)
(* the nodes of the tree of Ensemble.                                      *)
(***************************************************************************)
EXTENDS DeviceEstimate, DispatchGridProof, SequenceTheorems,
        WellFoundedInduction

-----------------------------------------------------------------------------
(* The loop of reduce_columns.                                             *)

\* The lengths of the first k levels of columns of length m.
IsLevels(m, k, f) == f = [i \in 0 .. k |-> IF i = 0 THEN m ELSE OutLen(f[i - 1])]

\* The lengths of any number of levels exist.
LEMMA LevelsExist == \A m : \A k \in Nat : \E f : IsLevels(m, k, f)
<1> SUFFICES ASSUME NEW m PROVE \A k \in Nat : \E f : IsLevels(m, k, f)
  OBVIOUS
<1> DEFINE T == {k \in Nat : ~ \E f : IsLevels(m, k, f)}
<1>1. ASSUME T # {} PROVE FALSE
  <2>1. PICK k \in T : \A j \in T : k <= j
    BY <1>1, Least
  <2>2. k \in Nat /\ ~ \E f : IsLevels(m, k, f)
    BY <2>1
  <2>3. CASE k = 0
    <3>1. IsLevels(m, 0, [i \in 0 .. 0 |-> m])
      BY DEF IsLevels
    <3> QED
      BY <2>2, <2>3, <3>1
  <2>4. CASE k # 0
    <3>1. k - 1 \in Nat /\ k - 1 \notin T
      BY <2>1, <2>2, <2>4
    <3>2. PICK f : IsLevels(m, k - 1, f)
      BY <3>1
    <3> DEFINE g == [i \in 0 .. k |-> IF i = 0 THEN m ELSE OutLen(f[i - 1])]
    <3>3. ASSUME NEW i \in 0 .. k - 1 PROVE g[i] = f[i]
      BY <2>2, <3>2, <3>3 DEF IsLevels
    <3>4. IsLevels(m, k, g)
      <4>1. ASSUME NEW i \in 0 .. k
            PROVE  g[i] = IF i = 0 THEN m ELSE OutLen(g[i - 1])
        <5>1. CASE i = 0
          BY <5>1
        <5>2. CASE i # 0
          <6>1. i - 1 \in 0 .. k - 1
            BY <2>2, <5>2
          <6>2. g[i - 1] = f[i - 1]
            BY <3>3, <6>1
          <6>3. g[i] = OutLen(f[i - 1])
            BY <5>2
          <6> QED
            BY <5>2, <6>2, <6>3
        <5> QED
          BY <5>1, <5>2
      <4>2. g = [i \in 0 .. k |-> g[i]]
        OBVIOUS
      <4> HIDE DEF g
      <4> QED
        BY <4>1, <4>2 DEF IsLevels
    <3> QED
      BY <2>2, <3>4
  <2> QED
    BY <2>3, <2>4
<1> QED
  BY <1>1

\* What is below comes from the configs.
LEMMA Sizes ==
    ASSUME config \in Configs
    PROVE  /\ n \in 1 .. MaxN /\ d \in Nat \ {0} /\ n \in Nat \ {0} /\ MaxN \in Nat \ {0}
           /\ n * d \in Nat \ {0}
BY BoundsAssumption DEF Configs, n, d

\* The recursive definition of the lengths holds.
LEMMA LevelLenUnfolds ==
    ASSUME config \in Configs
    PROVE  /\ LevelLen[0] = n
           /\ \A i \in 1 .. MaxN : LevelLen[i] = OutLen(LevelLen[i - 1])
<1>1. MaxN \in Nat
  BY Sizes
<1>2. \E f : IsLevels(n, MaxN, f)
  BY <1>1, LevelsExist
<1>3. \E f : f = [i \in 0 .. MaxN |-> IF i = 0 THEN n ELSE OutLen(f[i - 1])]
  BY <1>2 DEF IsLevels
<1>4. LevelLen = CHOOSE f : f = [i \in 0 .. MaxN |-> IF i = 0 THEN n ELSE OutLen(f[i - 1])]
  BY DEF LevelLen
<1>5. LevelLen = [i \in 0 .. MaxN |-> IF i = 0 THEN n ELSE OutLen(LevelLen[i - 1])]
  BY <1>3, <1>4
<1> QED
  BY <1>1, <1>5

\* A level of two elements or more shortens the columns.
LEMMA Shortens ==
    ASSUME NEW len \in Nat \ {0}
    PROVE  /\ OutLen(len) \in 1 .. len
           /\ len > 1 => OutLen(len) < len
BY DEF OutLen

\* After level i the columns have one element, or i fewer than at first.
LEMMA LevelLenBound ==
    ASSUME config \in Configs
    PROVE  \A i \in 0 .. MaxN : LevelLen[i] \in 1 .. n /\ (LevelLen[i] = 1 \/ LevelLen[i] + i <= n)
<1> DEFINE Good(i) == LevelLen[i] \in 1 .. n /\ (LevelLen[i] = 1 \/ LevelLen[i] + i <= n)
           T == {i \in 0 .. MaxN : ~Good(i)}
<1>0. n \in Nat \ {0} /\ MaxN \in Nat
  BY Sizes
<1>1. ASSUME T # {} PROVE FALSE
  <2>0. T \in SUBSET Nat
    BY <1>0
  <2>1. PICK i \in T : \A j \in T : i <= j
    <3> HIDE DEF T
    <3> QED
      BY <1>1, <2>0, Least
  <2>2. i \in 0 .. MaxN /\ ~Good(i)
    BY <2>1
  <2>3. i # 0
    BY <1>0, <2>2, LevelLenUnfolds
  <2>4. i - 1 \in 0 .. MaxN /\ i - 1 \notin T /\ i \in 1 .. MaxN
    BY <1>0, <2>1, <2>2, <2>3
  <2>5. Good(i - 1)
    BY <2>4
  <2>6. LevelLen[i] = OutLen(LevelLen[i - 1])
    BY <2>4, LevelLenUnfolds
  <2> DEFINE a == LevelLen[i - 1]
             b == LevelLen[i]
  <2>7. a \in Nat \ {0} /\ a <= n /\ (a = 1 \/ a + (i - 1) <= n) /\ b = OutLen(a)
    BY <1>0, <2>5, <2>6
  <2> HIDE DEF a
  <2>8. b \in 1 .. a /\ (a > 1 => b < a)
    BY <2>7, Shortens
  <2> HIDE DEF b
  <2>9. b \in 1 .. n /\ (b = 1 \/ b + i <= n)
    BY <1>0, <2>4, <2>7, <2>8
  <2> QED
    BY <2>2, <2>9 DEF b
<1> QED
  BY <1>1

\* The loop ends: Levels is the number of its rounds.
LEMMA LevelsEnd ==
    ASSUME config \in Configs
    PROVE  /\ Levels \in 0 .. MaxN
           /\ LevelLen[Levels] = 1
           /\ \A i \in 0 .. Levels - 1 : LevelLen[i] > 1
<1>1. n \in 1 .. MaxN /\ n \in Nat \ {0} /\ MaxN \in Nat
  BY Sizes
<1> DEFINE T == {i \in 0 .. MaxN : LevelLen[i] = 1}
<1>2. LevelLen[MaxN] = 1
  BY <1>1, LevelLenBound
<1>3. T # {} /\ T \in SUBSET Nat
  BY <1>1, <1>2
<1>4. PICK m \in T : \A j \in T : m <= j
  BY <1>3, Least
<1>5. m \in 0 .. MaxN /\ LevelLen[m] = 1
  BY <1>4
<1>6. ASSUME NEW i \in 0 .. m - 1 PROVE LevelLen[i] > 1
  <2>1. i \in 0 .. MaxN /\ i \notin T
    BY <1>1, <1>4, <1>5
  <2>2. LevelLen[i] \in 1 .. n /\ LevelLen[i] # 1
    BY <2>1, LevelLenBound
  <2> QED
    BY <1>1, <2>2
<1> HIDE DEF T
<1>7. \E k \in 0 .. MaxN : LevelLen[k] = 1 /\ \A i \in 0 .. k - 1 : LevelLen[i] > 1
  BY <1>5, <1>6
<1> QED
  BY <1>7 DEF Levels

-----------------------------------------------------------------------------
(* The commands.                                                           *)

\* A command of an ensemble c: a draw of every row, the collapse of a level
\* from one buffer into another, or the copy of the totals.
Commands(c) ==
    {cmd \in [op : {"draw", "collapse", "copy"}, len : 1 .. c.n, mode : {0, 1},
              read : Buffers \ {"staging"}, write : Buffers, threads : 1 .. c.n * c.d] :
        /\ cmd.op = "draw" => cmd.len = c.n /\ cmd.threads = c.n /\ cmd.write = "ensemble"
        /\ cmd.op = "collapse" =>
              /\ cmd.threads = OutLen(cmd.len) * c.d
              /\ cmd.read # cmd.write /\ cmd.write # "staging"}

\* An admitted ensemble is smaller than u32.
LEMMA InRange ==
    ASSUME config \in Configs, Admitted
    PROVE  n * d \in Nat /\ n * d < U32 /\ n <= n * d /\ d <= n * d /\ U32 \in Nat \ {0}
<1>1. n \in Nat \ {0} /\ d \in Nat \ {0} /\ n * d \in Nat
  BY Sizes
<1>2. n <= n * d /\ d <= n * d
  <2> HIDE DEF n, d
  <2>1. 1 * n <= d * n /\ 1 * d <= n * d
    BY <1>1, Monotone
  <2> QED
    BY <1>1, <2>1
<1>3. MaxBinding \in Nat /\ MaxBinding < U32 /\ n * d <= MaxBinding
  BY BindingFitsU32 DEF Admitted
<1> QED
  BY <1>1, <1>2, <1>3, GridAssumption

\* A part of the ensemble has fewer threads than the ensemble.
LEMMA ThreadsInRange ==
    ASSUME config \in Configs, Admitted, NEW len \in 1 .. n
    PROVE  /\ OutLen(len) \in 1 .. n
           /\ OutLen(len) * d \in 1 .. n * d
           /\ (OutLen(len) * d) % U32 = OutLen(len) * d
<1>1. n \in Nat \ {0} /\ d \in Nat \ {0} /\ n * d < U32 /\ n * d \in Nat /\ U32 \in Nat
  BY Sizes, InRange
<1> DEFINE o == OutLen(len)
<1>2. o \in 1 .. len
  BY <1>1, Shortens
<1> HIDE DEF n, d, o
<1>3. o \in Nat \ {0} /\ o \in 1 .. n /\ o <= n
  BY <1>1, <1>2
<1>4. o * d <= n * d /\ 1 * d <= o * d
  BY <1>1, <1>3, Monotone
<1> DEFINE p == o * d
           q == n * d
<1>5. p \in Nat
  BY <1>1, <1>3
<1>6. p <= q /\ d <= p /\ q \in Nat /\ q < U32
  BY <1>1, <1>4
<1> HIDE DEF p, q
<1>7. p \in 1 .. q /\ p % U32 = p
  BY <1>1, <1>5, <1>6
<1> QED
  BY <1>3, <1>7 DEF o, p, q

\* Every command of a reduction is well formed.
LEMMA ReductionFits ==
    ASSUME config \in Configs, Admitted, NEW mode \in {0, 1}
    PROVE  /\ Reduction(mode) \in Seq(Commands(config))
           /\ Len(Reduction(mode)) = Levels + 1
<1>1. n \in Nat \ {0} /\ d \in Nat \ {0} /\ Levels \in Nat /\ n * d \in Nat
  BY Sizes, LevelsEnd, BoundsAssumption
<1>2. \A i \in Nat : /\ Source(i) \in Buffers \ {"staging"} /\ Target(i) \in Buffers
                     /\ Source(i) # Target(i) /\ Target(i) # "staging"
  BY DEF Source, Target, Buffers
<1>3. n = config.n /\ d = config.d
  BY DEF n, d
<1>4. ASSUME NEW i \in 0 .. Levels - 1
      PROVE  Collapse(i, mode) \in Commands(config)
  <2> DEFINE len == LevelLen[i]
  <2>1. len \in 1 .. n /\ i \in Nat
    <3>1. i \in 0 .. MaxN
      BY Sizes, LevelsEnd
    <3> QED
      BY <3>1, Sizes, LevelLenBound
  <2>2. OutLen(len) * d \in 1 .. n * d /\ (OutLen(len) * d) % U32 = OutLen(len) * d
    BY <2>1, ThreadsInRange
  <2>3. ModeOf(i, mode) \in {0, 1}
    BY DEF ModeOf
  <2>4. Collapse(i, mode) = [op |-> "collapse", len |-> len, mode |-> ModeOf(i, mode),
                             read |-> Source(i), write |-> Target(i),
                             threads |-> OutLen(len) * d]
    BY <2>2 DEF Collapse
  <2> HIDE DEF len
  <2> QED
    BY <1>2, <1>3, <2>1, <2>2, <2>3, <2>4 DEF Commands
<1>5. Copy \in Commands(config)
  <2>1. d \in 1 .. n * d /\ 1 \in 1 .. n
    BY <1>1, InRange
  <2> QED
    BY <1>1, <1>2, <1>3, <2>1 DEF Copy, Commands, Buffers
<1>6. ASSUME NEW i \in 1 .. Levels + 1
      PROVE  (IF i <= Levels THEN Collapse(i - 1, mode) ELSE Copy) \in Commands(config)
  <2>1. i <= Levels => i - 1 \in 0 .. Levels - 1
    BY <1>1
  <2> QED
    BY <1>4, <1>5, <2>1
<1> DEFINE L == Levels + 1
           e(i) == IF i <= Levels THEN Collapse(i - 1, mode) ELSE Copy
<1>7. Reduction(mode) = [i \in 1 .. L |-> e(i)] /\ L \in Nat
  BY <1>1 DEF Reduction
<1>8. \A i \in 1 .. L : e(i) \in Commands(config)
  BY <1>6
<1> HIDE DEF L, e
<1>9. Reduction(mode) \in [1 .. L -> Commands(config)]
  BY <1>7, <1>8
<1>10. Reduction(mode) \in Seq(Commands(config)) /\ Len(Reduction(mode)) = L
  BY <1>7, <1>9
<1> QED
  BY <1>10 DEF L

\* So is the draw.
LEMMA DrawFits ==
    ASSUME config \in Configs, Admitted
    PROVE  DrawAll \in Commands(config)
<1>1. n \in 1 .. n /\ n \in 1 .. n * d /\ n = config.n /\ d = config.d
  BY Sizes, InRange DEF n, d
<1> QED
  BY <1>1 DEF DrawAll, Commands, Buffers

-----------------------------------------------------------------------------
(* What the invocations of a command touch.                                *)

\* A column and a position in it give an offset below the end of the buffers,
\* which does not wrap around.
LEMMA Offsets ==
    ASSUME config \in Configs, Admitted, NEW c \in 0 .. d - 1, NEW x \in 0 .. n - 1
    PROVE  /\ c * n + x \in 0 .. n * d - 1
           /\ (c * n) % U32 = c * n /\ (c * n + x) % U32 = c * n + x
<1>1. n \in Nat \ {0} /\ d \in Nat \ {0} /\ n * d < U32 /\ n * d \in Nat /\ U32 \in Nat
  BY Sizes, InRange
<1> HIDE DEF n, d
<1>2. c \in Nat /\ x \in Nat /\ c <= d - 1
  BY <1>1
<1>3. c * n <= (d - 1) * n
  BY <1>1, <1>2, Monotone
<1>4. (d - 1) * n = n * d - n
  BY <1>1
<1> DEFINE p == c * n
           q == n * d
<1>5. p \in Nat
  BY <1>1, <1>2
<1>6. q \in Nat /\ p <= q - n /\ q < U32
  BY <1>1, <1>3, <1>4
<1> HIDE DEF p, q
<1>7. p + x \in 0 .. q - 1 /\ p % U32 = p /\ (p + x) % U32 = p + x
  BY <1>1, <1>2, <1>5, <1>6
<1> QED
  BY <1>7 DEF p, q

\* Two offsets are equal only for one column and one position.
LEMMA OffsetsDiffer ==
    ASSUME config \in Configs, NEW c \in 0 .. d - 1, NEW x \in 0 .. n - 1,
           NEW b \in 0 .. d - 1, NEW y \in 0 .. n - 1, c * n + x = b * n + y
    PROVE  c = b /\ x = y
<1>1. n \in Nat \ {0} /\ d \in Nat \ {0}
  BY Sizes
<1>2. c \in Nat /\ b \in Nat
  BY <1>1
<1> QED
  BY <1>1, <1>2, Digits

\* A live invocation has an index, which no other has.
LEMMA Indices ==
    ASSUME config \in Configs, Admitted, NEW cmd \in Commands(config),
           NEW inv \in Invocations(cmd.threads), Live(cmd, inv)
    PROVE  /\ Index(cmd, inv) \in 0 .. cmd.threads - 1
           /\ \A other \in Invocations(cmd.threads) :
                 Index(cmd, other) = Index(cmd, inv) => other = inv
<1>1. cmd.threads \in 1 .. n * d
  BY DEF Commands, n, d
<1>2. cmd.threads \in 1 .. U32 /\ cmd.threads \in Nat
  BY <1>1, InRange
<1>4. LinearIndex(cmd.threads, inv) \in Nat
  BY <1>2, NoWrap
<1>5. Index(cmd, inv) = LinearIndex(cmd.threads, inv) /\ Index(cmd, inv) < cmd.threads
  BY DEF Index, Live
<1>6. ASSUME NEW other \in Invocations(cmd.threads), Index(cmd, other) = Index(cmd, inv)
      PROVE  other = inv
  <2>1. LinearIndex(cmd.threads, other) = LinearIndex(cmd.threads, inv)
    BY <1>6 DEF Index
  <2> QED
    BY <1>2, <2>1, NoIndexTakenTwice
<1> QED
  BY <1>2, <1>4, <1>5, <1>6

\* The invocation of a collapse is at an output of a column.
LEMMA CollapseLane ==
    ASSUME config \in Configs, Admitted, NEW cmd \in Commands(config), cmd.op = "collapse",
           NEW inv \in Invocations(cmd.threads), Live(cmd, inv)
    PROVE  /\ Col(cmd, inv) \in 0 .. d - 1
           /\ K(cmd, inv) \in 0 .. OutLen(cmd.len) - 1
           /\ Index(cmd, inv) = Col(cmd, inv) * OutLen(cmd.len) + K(cmd, inv)
           /\ cmd.len \in 1 .. n /\ OutLen(cmd.len) \in 1 .. n
           /\ \A x \in 0 .. n - 1 : /\ At(cmd, inv, x) = Col(cmd, inv) * n + x
                                    /\ At(cmd, inv, x) \in 0 .. n * d - 1
<1> DEFINE t == Index(cmd, inv)
           o == OutLen(cmd.len)
           c == t \div o
<1>1. cmd.len \in 1 .. n /\ cmd.threads = o * d
  BY DEF Commands, n, d
<1>2. o \in 1 .. n /\ n \in Nat \ {0} /\ d \in Nat \ {0}
  BY <1>1, ThreadsInRange, Sizes
<1>3. t \in 0 .. cmd.threads - 1
  BY Indices
<1>4. Col(cmd, inv) = c /\ K(cmd, inv) = t - c * o
  BY DEF Col, K
<1> HIDE DEF t, o, n, d
<1>5. o \in Nat \ {0} /\ o * d \in Nat /\ t \in Nat /\ t < o * d
  BY <1>1, <1>2, <1>3
<1>6. c \in Nat /\ t % o \in 0 .. o - 1 /\ t = o * c + (t % o)
  BY <1>5, Division
<1> DEFINE r == t % o
<1> HIDE DEF c, r
<1>7. r \in 0 .. o - 1 /\ t = c * o + r /\ c \in Nat
  BY <1>5, <1>6 DEF r
<1>8. t - c * o = r
  BY <1>5, <1>7
<1>9. c \in 0 .. d - 1
  <2>1. c * o < d * o
    BY <1>2, <1>5, <1>7
  <2>2. c < d
    BY <1>2, <1>5, <1>7, <2>1, CancelFactor
  <2> QED
    BY <1>2, <1>7, <2>2
<1>10. ASSUME NEW x \in 0 .. n - 1
       PROVE  At(cmd, inv, x) = c * n + x /\ At(cmd, inv, x) \in 0 .. n * d - 1
  <2>1. c * n + x \in 0 .. n * d - 1 /\ (c * n) % U32 = c * n /\ (c * n + x) % U32 = c * n + x
    BY <1>9, Offsets
  <2>2. Off(cmd, inv) = (c * n) % U32
    BY <1>4 DEF Off
  <2>3. At(cmd, inv, x) = (Off(cmd, inv) + x) % U32
    BY DEF At
  <2> QED
    BY <2>1, <2>2, <2>3
<1> QED
  BY <1>1, <1>2, <1>4, <1>7, <1>8, <1>9, <1>10 DEF t, o

\* What a live invocation touches is in its buffers.
LEMMA Inside ==
    ASSUME config \in Configs, Admitted, NEW cmd \in Commands(config), cmd.op # "copy",
           NEW inv \in Invocations(cmd.threads), Live(cmd, inv)
    PROVE  Reads(cmd, inv) \cup Writes(cmd, inv) \subseteq 0 .. n * d - 1
<1>1. n \in Nat \ {0} /\ d \in Nat \ {0}
  BY Sizes
<1>2. CASE cmd.op = "draw"
  <2>1. cmd.threads = n
    BY <1>2 DEF Commands, n
  <2>2. Index(cmd, inv) \in 0 .. n - 1
    BY <2>1, Indices
  <2>3. \A j \in 0 .. d - 1 : (j * n + Index(cmd, inv)) % U32 \in 0 .. n * d - 1
    BY <2>2, Offsets
  <2> QED
    BY <1>2, <2>3 DEF Reads, Writes
<1>3. CASE cmd.op = "collapse"
  <2> DEFINE k == K(cmd, inv)
             len == cmd.len
             o == OutLen(len)
  <2>1. /\ k \in 0 .. o - 1 /\ len \in 1 .. n /\ o \in 1 .. n
        /\ \A x \in 0 .. n - 1 : At(cmd, inv, x) \in 0 .. n * d - 1
    BY <1>3, CollapseLane
  <2>2. /\ Reads(cmd, inv) = IF k < len \div 2 THEN {At(cmd, inv, 2 * k), At(cmd, inv, 2 * k + 1)}
                             ELSE {At(cmd, inv, len - 1)}
        /\ Writes(cmd, inv) = {At(cmd, inv, k)}
    BY <1>3 DEF Reads, Writes
  <2> HIDE DEF k, len, o, n, d
  <2>3. k \in 0 .. n - 1 /\ len - 1 \in 0 .. n - 1
    BY <1>1, <2>1
  <2>4. k < len \div 2 => 2 * k \in 0 .. n - 1 /\ 2 * k + 1 \in 0 .. n - 1
    <3>1. len \div 2 \in Nat /\ 2 * (len \div 2) <= len
      BY <1>1, <2>1
    <3> DEFINE h == len \div 2
    <3> HIDE DEF h
    <3>2. h \in Nat /\ 2 * h <= len
      BY <3>1 DEF h
    <3>3. k < h => 2 * k \in 0 .. n - 1 /\ 2 * k + 1 \in 0 .. n - 1
      BY <1>1, <2>1, <2>3, <3>2
    <3> QED
      BY <3>3 DEF h
  <2> QED
    BY <2>1, <2>2, <2>3, <2>4
<1> QED
  BY <1>2, <1>3 DEF Commands

\* What a live invocation writes no other live invocation reads or writes.
LEMMA Apart ==
    ASSUME config \in Configs, Admitted, NEW cmd \in Commands(config), cmd.op # "copy",
           NEW inv \in Invocations(cmd.threads), Live(cmd, inv),
           NEW other \in Invocations(cmd.threads), Live(cmd, other), other # inv
    PROVE  {<<cmd.write, x>> : x \in Writes(cmd, inv)} \cap Touched(cmd, other) = {}
<1>1. n \in Nat \ {0} /\ d \in Nat \ {0}
  BY Sizes
<1>2. Index(cmd, other) # Index(cmd, inv)
  BY Indices
<1>3. Writes(cmd, inv) \cap Writes(cmd, other) = {}
  <2>1. CASE cmd.op = "draw"
    <3>1. cmd.threads = n
      BY <2>1 DEF Commands, n
    <3>2. Index(cmd, inv) \in 0 .. n - 1 /\ Index(cmd, other) \in 0 .. n - 1
      BY <3>1, Indices
    <3>3. ASSUME NEW c \in 0 .. d - 1, NEW b \in 0 .. d - 1
          PROVE  (c * n + Index(cmd, inv)) % U32 # (b * n + Index(cmd, other)) % U32
      <4>1. /\ (c * n + Index(cmd, inv)) % U32 = c * n + Index(cmd, inv)
            /\ (b * n + Index(cmd, other)) % U32 = b * n + Index(cmd, other)
        BY <3>2, Offsets
      <4>2. c * n + Index(cmd, inv) # b * n + Index(cmd, other)
        BY <1>2, <3>2, OffsetsDiffer
      <4> QED
        BY <4>1, <4>2
    <3> QED
      BY <2>1, <3>3 DEF Writes
  <2>2. CASE cmd.op = "collapse"
    <3> DEFINE k == K(cmd, inv)
               j == K(cmd, other)
               c == Col(cmd, inv)
               b == Col(cmd, other)
               o == OutLen(cmd.len)
    <3>1. /\ k \in 0 .. o - 1 /\ c \in 0 .. d - 1 /\ Index(cmd, inv) = c * o + k
          /\ o \in 1 .. n /\ \A x \in 0 .. n - 1 : At(cmd, inv, x) = c * n + x
      BY <2>2, CollapseLane
    <3>2. /\ j \in 0 .. o - 1 /\ b \in 0 .. d - 1 /\ Index(cmd, other) = b * o + j
          /\ \A x \in 0 .. n - 1 : At(cmd, other, x) = b * n + x
      BY <2>2, CollapseLane
    <3>3. Writes(cmd, inv) = {At(cmd, inv, k)} /\ Writes(cmd, other) = {At(cmd, other, j)}
      BY <2>2 DEF Writes
    <3> HIDE DEF k, j, c, b, o
    <3>4. k \in 0 .. n - 1 /\ j \in 0 .. n - 1
      BY <1>1, <3>1, <3>2
    <3>5. ~(c = b /\ k = j)
      BY <1>2, <3>1, <3>2
    <3>6. c * n + k # b * n + j
      BY <3>1, <3>2, <3>4, <3>5, OffsetsDiffer
    <3>7. At(cmd, inv, k) = c * n + k /\ At(cmd, other, j) = b * n + j
      BY <3>1, <3>2, <3>4
    <3> QED
      BY <3>3, <3>6, <3>7
  <2> QED
    BY <2>1, <2>2 DEF Commands
<1>4. cmd.read # cmd.write \/ Reads(cmd, other) = {}
  BY DEF Commands, Reads
<1> QED
  BY <1>3, <1>4 DEF Touched

-----------------------------------------------------------------------------
(* The invariant.                                                          *)

\* Every command of the queue is well formed, and the host has no more of
\* them in flight than one draw and one reduction, of an admitted ensemble.
QueueOK ==
    /\ queue \in Seq(Commands(config))
    /\ pc \in {"start", "done", "failed"} => queue = << >>
    /\ pc = "drawn" => Len(queue) <= 1
    /\ pc = "sums" => Len(queue) <= Levels + 2
    /\ pc = "squares" => Len(queue) <= Levels + 1
    /\ pc \in {"drawn", "sums", "squares"} => Admitted

\* The invocations under way are those of the head of the queue.
LanesOK ==
    lanes # NotBegun =>
        /\ queue # << >>
        /\ Head(queue).op # "copy"
        /\ DOMAIN lanes = Invocations(Head(queue).threads)
        /\ \A inv \in DOMAIN lanes : lanes[inv].at \in {"ready", "loaded", "done"}

\* No buffer but the staging one, which a copy replaces, changes its size.
MemOK ==
    /\ DOMAIN mem = Buffers
    /\ \A b \in Buffers \ {"staging"} : DOMAIN mem[b] = 0 .. n * d - 1

IInv ==
    /\ config \in Configs
    /\ pc \in {"start", "drawn", "sums", "squares", "done", "failed"}
    /\ QueueOK
    /\ LanesOK
    /\ MemOK

\* What a step leaves alone as long as the config stays.
LEMMA Same ==
    ASSUME config' = config
    PROVE  /\ n' = n /\ d' = d /\ Levels' = Levels
           /\ Admitted' = Admitted /\ Commands(config)' = Commands(config)
<1>1. n' = n /\ d' = d
  BY DEF n, d
<1>2. Admitted' = Admitted
  BY <1>1 DEF Admitted
<1>3. LevelLen' = LevelLen
  BY <1>1 DEF LevelLen
<1>4. Levels' = Levels
  BY <1>3 DEF Levels
<1> QED
  BY <1>1, <1>2, <1>4

\* The head of a queue is a command, and its tail is a shorter queue.
LEMMA HeadTail ==
    ASSUME NEW S, NEW q \in Seq(S), q # << >>
    PROVE  Head(q) \in S /\ Tail(q) \in Seq(S) /\ Len(Tail(q)) = Len(q) - 1 /\ Len(q) \in Nat \ {0}
<1>1. Len(q) \in Nat \ {0} /\ q \in [1 .. Len(q) -> S]
  OBVIOUS
<1>2. Head(q) = q[1]
  OBVIOUS
<1>3. Tail(q) \in Seq(S) /\ Len(Tail(q)) = Len(q) - 1
  BY <1>1
<1> QED
  BY <1>1, <1>2, <1>3

\* The invocations of a lane that has not begun are none.
LEMMA NotBegunEmpty == DOMAIN NotBegun = {}
BY DEF NotBegun

LEMMA InitIInv == Init => IInv
<1> SUFFICES ASSUME Init PROVE IInv
  OBVIOUS
<1>1. QueueOK
  BY DEF Init, QueueOK
<1>2. LanesOK
  BY DEF Init, LanesOK
<1>3. MemOK
  BY DEF Init, MemOK, Fresh
<1> QED
  BY <1>1, <1>2, <1>3 DEF Init, IInv

\* The invariant has the bounds of the type invariant.
LEMMA IInvTypeOK == IInv => TypeOK
<1> SUFFICES ASSUME IInv PROVE TypeOK
  OBVIOUS
<1>1. Levels \in Nat /\ Len(queue) \in Nat /\ queue \in Seq(Commands(config))
  BY LevelsEnd, BoundsAssumption DEF IInv, QueueOK
<1>2. Len(queue) <= Levels + 2
  <2>1. CASE queue = << >>
    BY <1>1, <2>1
  <2>2. CASE queue # << >>
    BY <1>1, <2>2 DEF IInv, QueueOK
  <2> QED
    BY <2>1, <2>2
<1>3. ASSUME NEW i \in 1 .. Len(queue)
      PROVE  queue[i].len \in 1 .. n /\ queue[i].threads \in 1 .. n * d
  <2>1. queue[i] \in Commands(config)
    BY <1>1
  <2> QED
    BY <2>1 DEF Commands, n, d
<1>4. ASSUME NEW inv \in DOMAIN lanes PROVE lanes[inv].at \in {"ready", "loaded", "done"}
  <2>1. lanes # NotBegun
    BY NotBegunEmpty
  <2> QED
    BY <2>1 DEF IInv, LanesOK
<1> QED
  BY <1>2, <1>3, <1>4 DEF IInv, MemOK, TypeOK

\* While a command runs, the ensemble is admitted.
LEMMA RunningAdmitted ==
    ASSUME IInv, queue # << >>
    PROVE  Admitted /\ pc \in {"drawn", "sums", "squares"} /\ Head(queue) \in Commands(config)
<1>1. pc \in {"drawn", "sums", "squares"} /\ Admitted
  BY DEF IInv, QueueOK
<1>2. Head(queue) \in Commands(config)
  BY HeadTail DEF IInv, QueueOK
<1> QED
  BY <1>1, <1>2

\* So no dispatch races, in any state of the invariant.
LEMMA IInvRaceFree == IInv => RaceFree
<1> SUFFICES ASSUME IInv, lanes # NotBegun
             PROVE  LET cmd  == Head(queue)
                        live == {inv \in DOMAIN lanes : Live(cmd, inv)}
                    IN  \A inv \in live :
                          /\ Reads(cmd, inv) \cup Writes(cmd, inv) \subseteq 0 .. n * d - 1
                          /\ \A other \in live \ {inv} :
                                {<<cmd.write, x>> : x \in Writes(cmd, inv)}
                                    \cap Touched(cmd, other) = {}
  BY DEF RaceFree
<1> DEFINE cmd == Head(queue)
<1>1. queue # << >> /\ cmd.op # "copy" /\ DOMAIN lanes = Invocations(cmd.threads)
  BY DEF IInv, LanesOK
<1>2. cmd \in Commands(config) /\ Admitted /\ config \in Configs
  BY <1>1, RunningAdmitted DEF IInv
<1> HIDE DEF cmd
<1>3. ASSUME NEW inv \in DOMAIN lanes, Live(cmd, inv)
      PROVE  Reads(cmd, inv) \cup Writes(cmd, inv) \subseteq 0 .. n * d - 1
  BY <1>1, <1>2, <1>3, Inside
<1>4. ASSUME NEW inv \in DOMAIN lanes, Live(cmd, inv),
             NEW other \in DOMAIN lanes, Live(cmd, other), other # inv
      PROVE  {<<cmd.write, x>> : x \in Writes(cmd, inv)} \cap Touched(cmd, other) = {}
  BY <1>1, <1>2, <1>4, Apart
<1> QED
  BY <1>3, <1>4 DEF cmd

-----------------------------------------------------------------------------
(* No step leaves the invariant.                                           *)

\* The parts of the invariant that a step of the host can disturb are those
\* of its new phase.
LEMMA RefuseIInv == IInv /\ Refuse => IInv'
<1> SUFFICES ASSUME IInv, Refuse PROVE IInv'
  OBVIOUS
<1>1. /\ config' = config /\ queue' = queue /\ lanes' = lanes /\ mem' = mem
      /\ pc = "start" /\ pc' = "failed"
  BY DEF Refuse
<1>2. QueueOK'
  BY <1>1, Same DEF IInv, QueueOK
<1>3. LanesOK'
  BY <1>1 DEF IInv, LanesOK, NotBegun
<1>4. MemOK'
  BY <1>1, Same DEF IInv, MemOK
<1> QED
  BY <1>1, <1>2, <1>3, <1>4 DEF IInv

\* The draw goes into an empty queue.
LEMMA SubmitDrawIInv == IInv /\ SubmitDraw => IInv'
<1> SUFFICES ASSUME IInv, SubmitDraw PROVE IInv'
  OBVIOUS
<1>1. /\ config' = config /\ queue' = Append(queue, DrawAll) /\ lanes' = lanes /\ mem' = mem
      /\ pc = "start" /\ pc' = "drawn" /\ Admitted
  BY DEF SubmitDraw
<1>2. queue = << >> /\ config \in Configs
  BY <1>1 DEF IInv, QueueOK
<1>3. queue' \in Seq(Commands(config)) /\ Len(queue') = 1
  <2>1. DrawAll \in Commands(config)
    BY <1>1, <1>2, DrawFits
  <2> QED
    BY <1>1, <1>2, <2>1
<1>4. QueueOK'
  BY <1>1, <1>3, Same DEF QueueOK
<1>5. LanesOK'
  <2>1. lanes = NotBegun
    BY <1>2 DEF IInv, LanesOK
  <2> QED
    BY <1>1, <2>1 DEF LanesOK, NotBegun
<1>6. MemOK'
  BY <1>1, Same DEF IInv, MemOK
<1> QED
  BY <1>1, <1>2, <1>4, <1>5, <1>6 DEF IInv

\* The first reduction goes behind the draw, whether or not it has run.
LEMMA SubmitSumsIInv == IInv /\ SubmitSums => IInv'
<1> SUFFICES ASSUME IInv, SubmitSums PROVE IInv'
  OBVIOUS
<1>1. /\ config' = config /\ queue' = queue \o Reduction(0) /\ lanes' = lanes /\ mem' = mem
      /\ pc = "drawn" /\ pc' = "sums"
  BY DEF SubmitSums
<1>2. config \in Configs /\ Admitted /\ queue \in Seq(Commands(config)) /\ Len(queue) <= 1
  BY <1>1 DEF IInv, QueueOK
<1>3. Reduction(0) \in Seq(Commands(config)) /\ Len(Reduction(0)) = Levels + 1
  BY <1>2, ReductionFits
<1>4. Levels \in Nat
  BY <1>2, LevelsEnd, BoundsAssumption
<1>5. /\ queue' \in Seq(Commands(config)) /\ Len(queue') <= Levels + 2
      /\ queue # << >> => queue' # << >> /\ Head(queue') = Head(queue)
  <2> DEFINE S == Commands(config)
             r == Reduction(0)
  <2>1. queue \in Seq(S) /\ r \in Seq(S) /\ queue' = queue \o r
    BY <1>1, <1>2, <1>3
  <2> HIDE DEF S, r
  <2>2. queue' \in Seq(S) /\ Len(queue') = Len(queue) + Len(r)
    BY <2>1
  <2>3. queue # << >> => queue' # << >> /\ Head(queue') = Head(queue)
    <3>1. ASSUME queue # << >> PROVE queue' # << >> /\ Head(queue') = Head(queue)
      <4>1. Len(queue) \in Nat \ {0} /\ Len(r) \in Nat
        BY <2>1, <3>1
      <4>2. queue'[1] = queue[1] /\ Len(queue') # 0
        BY <2>1, <2>2, <4>1
      <4> QED
        BY <2>1, <2>2, <3>1, <4>2
    <3> QED
      BY <3>1
  <2> QED
    BY <1>2, <1>3, <1>4, <2>2, <2>3 DEF S, r
<1>6. QueueOK'
  BY <1>1, <1>2, <1>5, Same DEF QueueOK
<1>7. LanesOK'
  BY <1>1, <1>5 DEF IInv, LanesOK, NotBegun, Invocations, GridX, GridY, Groups
<1>8. MemOK'
  BY <1>1, Same DEF IInv, MemOK
<1> QED
  BY <1>1, <1>2, <1>6, <1>7, <1>8 DEF IInv

\* The second reduction goes into an empty queue, with fresh buffers.
LEMMA ReadSumsIInv == IInv /\ ReadSums => IInv'
<1> SUFFICES ASSUME IInv, ReadSums PROVE IInv'
  OBVIOUS
<1>1. /\ config' = config /\ queue' = Reduction(1) /\ lanes' = lanes /\ queue = << >>
      /\ pc = "sums" /\ pc' = "squares"
  BY DEF ReadSums
<1>2. mem' = [mem EXCEPT !["even"] = Fresh, !["odd"] = Fresh, !["staging"] = Fresh]
  BY DEF ReadSums
<1>3. config \in Configs /\ Admitted
  BY <1>1 DEF IInv, QueueOK
<1>4. Reduction(1) \in Seq(Commands(config)) /\ Len(Reduction(1)) = Levels + 1
  BY <1>3, ReductionFits
<1>5. Levels \in Nat
  BY <1>3, LevelsEnd, BoundsAssumption
<1>6. QueueOK'
  BY <1>1, <1>3, <1>4, <1>5, Same DEF QueueOK
<1>7. LanesOK'
  <2>1. lanes = NotBegun
    BY <1>1 DEF IInv, LanesOK
  <2> QED
    BY <1>1, <2>1 DEF LanesOK, NotBegun
<1>8. MemOK'
  <2>1. DOMAIN Fresh = 0 .. n * d - 1
    BY DEF Fresh
  <2>2. DOMAIN mem' = Buffers /\ \A b \in Buffers \ {"staging"} : DOMAIN mem'[b] = 0 .. n * d - 1
    BY <1>2, <2>1 DEF IInv, MemOK, Buffers
  <2> QED
    BY <1>1, <2>2, Same DEF MemOK
<1> QED
  BY <1>1, <1>3, <1>6, <1>7, <1>8 DEF IInv

\* A run that returns has an empty queue.
LEMMA ReturnIInv == IInv /\ (ReturnMean \/ ReturnVariance) => IInv'
<1> SUFFICES ASSUME IInv, ReturnMean \/ ReturnVariance PROVE IInv'
  OBVIOUS
<1>1. /\ config' = config /\ queue' = queue /\ lanes' = lanes /\ mem' = mem
      /\ queue = << >> /\ pc' = "done"
  BY DEF ReturnMean, ReturnVariance
<1>2. QueueOK'
  BY <1>1, Same DEF IInv, QueueOK
<1>3. LanesOK'
  BY <1>1 DEF IInv, LanesOK, NotBegun
<1>4. MemOK'
  BY <1>1, Same DEF IInv, MemOK
<1> QED
  BY <1>1, <1>2, <1>3, <1>4 DEF IInv

\* The head of the queue begins, all its invocations ready.
LEMMA BeginIInv == IInv /\ Begin => IInv'
<1> SUFFICES ASSUME IInv, Begin PROVE IInv'
  OBVIOUS
<1>1. /\ config' = config /\ queue' = queue /\ mem' = mem /\ pc' = pc
      /\ queue # << >> /\ Head(queue).op # "copy"
      /\ lanes' = [inv \in Invocations(Head(queue).threads) |->
                      [at |-> "ready", result |-> Stale]]
  BY DEF Begin
<1>2. QueueOK'
  BY <1>1, Same DEF IInv, QueueOK
<1>3. LanesOK'
  <2>1. Invocations(Head(queue).threads)' = Invocations(Head(queue).threads)
    BY <1>1
  <2>2. DOMAIN lanes' = Invocations(Head(queue).threads)
    BY <1>1
  <2>3. \A inv \in DOMAIN lanes' : lanes'[inv].at \in {"ready", "loaded", "done"}
    BY <1>1, <2>2
  <2> QED
    BY <1>1, <2>1, <2>2, <2>3 DEF LanesOK
<1>4. MemOK'
  BY <1>1, Same DEF IInv, MemOK
<1> QED
  BY <1>1, <1>2, <1>3, <1>4 DEF IInv

\* An invocation moves on: the others stay, and so does the queue.
LEMMA LaneMoves ==
    ASSUME IInv, NEW inv \in DOMAIN lanes, NEW a \in {"ready", "loaded", "done"}, NEW v,
           lanes' = [lanes EXCEPT ![inv] = [at |-> a, result |-> v]],
           queue' = queue, config' = config, pc' = pc
    PROVE  LanesOK' /\ QueueOK'
<1>1. lanes # NotBegun
  BY NotBegunEmpty
<1>2. /\ queue # << >> /\ Head(queue).op # "copy"
      /\ DOMAIN lanes = Invocations(Head(queue).threads)
      /\ \A x \in DOMAIN lanes : lanes[x].at \in {"ready", "loaded", "done"}
  BY <1>1 DEF IInv, LanesOK
<1>3. DOMAIN lanes' = DOMAIN lanes
  OBVIOUS
<1>4. \A x \in DOMAIN lanes' : lanes'[x].at \in {"ready", "loaded", "done"}
  BY <1>2, <1>3
<1>5. Invocations(Head(queue).threads)' = Invocations(Head(queue).threads)
  OBVIOUS
<1>6. LanesOK'
  BY <1>2, <1>3, <1>4, <1>5 DEF LanesOK
<1>7. QueueOK'
  BY Same DEF IInv, QueueOK
<1> QED
  BY <1>6, <1>7

\* What an invocation of the head command writes is one of the sized buffers.
LEMMA WritesSized ==
    ASSUME IInv, NEW inv \in DOMAIN lanes
    PROVE  Head(queue).write \in Buffers \ {"staging"}
<1>1. lanes # NotBegun
  BY NotBegunEmpty
<1>2. queue # << >> /\ Head(queue).op # "copy"
  BY <1>1 DEF IInv, LanesOK
<1>3. Head(queue) \in Commands(config)
  BY <1>2, RunningAdmitted
<1> QED
  BY <1>2, <1>3 DEF Commands, Buffers

\* A step of an invocation.
LEMMA LaneIInv ==
    ASSUME IInv, NEW inv \in DOMAIN lanes,
           Overshoot(inv) \/ DrawRow(inv) \/ Load(inv) \/ Store(inv)
    PROVE  IInv'
<1>1. config' = config /\ pc' = pc /\ queue' = queue
  BY DEF Overshoot, DrawRow, Load, Store
<1>2. LanesOK' /\ QueueOK'
  <2>1. CASE Load(inv)
    <3> DEFINE v == Output(Head(queue), inv)
    <3>1. lanes' = [lanes EXCEPT ![inv] = [at |-> "loaded", result |-> v]]
      BY <2>1 DEF Load
    <3> HIDE DEF v
    <3> QED
      BY <1>1, <3>1, LaneMoves
  <2>2. CASE Overshoot(inv) \/ DrawRow(inv) \/ Store(inv)
    <3>1. lanes' = [lanes EXCEPT ![inv] = [at |-> "done", result |-> Stale]]
      BY <2>2 DEF Overshoot, DrawRow, Store
    <3> QED
      BY <1>1, <3>1, LaneMoves
  <2> QED
    BY <2>1, <2>2
<1>3. MemOK'
  <2>1. CASE Overshoot(inv) \/ Load(inv)
    <3>1. mem' = mem
      BY <2>1 DEF Overshoot, Load
    <3> QED
      BY <1>1, <3>1, Same DEF IInv, MemOK
  <2>2. CASE DrawRow(inv) \/ Store(inv)
    <3>1. \E b \in Buffers \ {"staging"} : \E f :
             mem' = [mem EXCEPT ![b] = f] /\ DOMAIN f = DOMAIN mem[b]
      <4>1. CASE DrawRow(inv)
        <5> DEFINE f == [x \in DOMAIN mem["ensemble"] |->
                            IF x \in Writes(Head(queue), inv)
                            THEN Drawn(x \div n, x % n) ELSE mem["ensemble"][x]]
        <5>1. mem' = [mem EXCEPT !["ensemble"] = f]
          BY <4>1 DEF DrawRow
        <5>2. DOMAIN f = DOMAIN mem["ensemble"] /\ "ensemble" \in Buffers \ {"staging"}
          BY DEF Buffers
        <5> HIDE DEF f
        <5> QED
          BY <5>1, <5>2
      <4>2. CASE Store(inv)
        <5> DEFINE b == Head(queue).write
                   f == [x \in DOMAIN mem[b] |->
                            IF x \in Writes(Head(queue), inv) THEN lanes[inv].result
                            ELSE mem[b][x]]
        <5>1. mem' = [mem EXCEPT ![b] = f]
          BY <4>2 DEF Store
        <5>2. DOMAIN f = DOMAIN mem[b] /\ b \in Buffers \ {"staging"}
          BY WritesSized
        <5> HIDE DEF f, b
        <5> QED
          BY <5>1, <5>2
      <4> QED
        BY <2>2, <4>1, <4>2
    <3>2. PICK b \in Buffers \ {"staging"} : \E f :
             mem' = [mem EXCEPT ![b] = f] /\ DOMAIN f = DOMAIN mem[b]
      BY <3>1
    <3>3. PICK f : mem' = [mem EXCEPT ![b] = f] /\ DOMAIN f = DOMAIN mem[b]
      BY <3>2
    <3>4. DOMAIN mem' = Buffers /\ \A x \in Buffers \ {"staging"} : DOMAIN mem'[x] = DOMAIN mem[x]
      BY <3>3 DEF IInv, MemOK
    <3> QED
      BY <1>1, <3>4, Same DEF IInv, MemOK
  <2> QED
    BY <2>1, <2>2
<1> QED
  BY <1>1, <1>2, <1>3 DEF IInv

\* A command leaves the queue as it retires.
LEMMA Shrinks ==
    ASSUME IInv, queue # << >>, queue' = Tail(queue), config' = config, pc' = pc
    PROVE  QueueOK'
<1>1. queue' \in Seq(Commands(config)) /\ Len(queue') = Len(queue) - 1 /\ Len(queue) \in Nat \ {0}
  BY HeadTail DEF IInv, QueueOK
<1>2. Levels \in Nat
  BY LevelsEnd, BoundsAssumption DEF IInv
<1>3. pc \in {"drawn", "sums", "squares"}
  BY DEF IInv, QueueOK
<1> QED
  BY <1>1, <1>2, <1>3, Same DEF IInv, QueueOK

LEMMA RetireIInv == IInv /\ Retire => IInv'
<1> SUFFICES ASSUME IInv, Retire PROVE IInv'
  OBVIOUS
<1>1. /\ config' = config /\ pc' = pc /\ mem' = mem /\ queue' = Tail(queue)
      /\ lanes # NotBegun /\ lanes' = NotBegun
  BY DEF Retire
<1>2. QueueOK'
  BY <1>1, Shrinks DEF IInv, LanesOK
<1>3. LanesOK'
  BY <1>1 DEF LanesOK, NotBegun
<1>4. MemOK'
  BY <1>1, Same DEF IInv, MemOK
<1> QED
  BY <1>1, <1>2, <1>3, <1>4 DEF IInv

\* The copy has no invocations, and replaces the staging buffer alone.
LEMMA CopyIInv == IInv /\ CopyToStaging => IInv'
<1> SUFFICES ASSUME IInv, CopyToStaging PROVE IInv'
  OBVIOUS
<1>1. /\ config' = config /\ pc' = pc /\ lanes' = lanes /\ queue' = Tail(queue)
      /\ queue # << >> /\ Head(queue).op = "copy"
  BY DEF CopyToStaging
<1>2. QueueOK'
  BY <1>1, Shrinks
<1>3. LanesOK'
  <2>1. lanes = NotBegun
    BY <1>1 DEF IInv, LanesOK
  <2> QED
    BY <1>1, <2>1 DEF LanesOK, NotBegun
<1>4. MemOK'
  <2> DEFINE f == [c \in 0 .. d - 1 |-> mem[Head(queue).read][c * n]]
  <2>1. mem' = [mem EXCEPT !["staging"] = f]
    BY DEF CopyToStaging
  <2> HIDE DEF f
  <2>2. DOMAIN mem' = Buffers /\ \A b \in Buffers \ {"staging"} : mem'[b] = mem[b]
    BY <2>1 DEF IInv, MemOK
  <2> QED
    BY <1>1, <2>2, Same DEF IInv, MemOK
<1> QED
  BY <1>1, <1>2, <1>3, <1>4 DEF IInv

LEMMA StutterIInv == IInv /\ UNCHANGED vars => IInv'
<1> SUFFICES ASSUME IInv, UNCHANGED vars PROVE IInv'
  OBVIOUS
<1>1. config' = config /\ pc' = pc /\ lanes' = lanes /\ queue' = queue /\ mem' = mem
  BY DEF vars
<1>2. QueueOK'
  BY <1>1, Same DEF IInv, QueueOK
<1>3. LanesOK'
  BY <1>1 DEF IInv, LanesOK, NotBegun
<1>4. MemOK'
  BY <1>1, Same DEF IInv, MemOK
<1> QED
  BY <1>1, <1>2, <1>3, <1>4 DEF IInv

\* Every step keeps the invariant.
LEMMA NextIInv == IInv /\ [Next]_vars => IInv'
<1> SUFFICES ASSUME IInv, [Next]_vars PROVE IInv'
  OBVIOUS
<1>1. CASE Host
  BY <1>1, RefuseIInv, SubmitDrawIInv, SubmitSumsIInv, ReadSumsIInv, ReturnIInv DEF Host
<1>2. CASE Device
  <2>1. CASE Begin \/ Retire \/ CopyToStaging
    BY <2>1, BeginIInv, RetireIInv, CopyIInv
  <2>2. CASE \E inv \in DOMAIN lanes :
                 Overshoot(inv) \/ DrawRow(inv) \/ Load(inv) \/ Store(inv)
    BY <2>2, LaneIInv
  <2> QED
    BY <1>2, <2>1, <2>2 DEF Device
<1>3. CASE Ended
  BY <1>3, StutterIInv DEF Ended
<1>4. CASE UNCHANGED vars
  BY <1>4, StutterIInv
<1> QED
  BY <1>1, <1>2, <1>3, <1>4 DEF Next

\* The invariant holds in every state.
LEMMA Invariance == Spec => []IInv
<1> QED
  BY InitIInv, NextIInv, PTL DEF Spec

\* The type invariant, for every bound on the ensemble and every grid: the
\* host has no more in flight than one draw and one reduction, and every
\* command is in the range of its buffers.
THEOREM TypeCorrect == Spec => []TypeOK
<1>1. IInv => TypeOK
  BY IInvTypeOK
<1> QED
  BY <1>1, Invariance, PTL

\* In no dispatch of Context::evaluate do two invocations touch the same
\* element when one of them writes it, and no invocation leaves its buffers:
\* for every n, d, workgroup and grid, so long as the ensemble fits a binding
\* that a u32 measures.  This is the claim of reduce.wgsl's comment.
THEOREM DispatchRaceFree == Spec => []RaceFree
<1>1. IInv => RaceFree
  BY IInvRaceFree
<1> QED
  BY <1>1, Invariance, PTL
-----------------------------------------------------------------------------
(* The levels of the device are those of the closed form of the tree.      *)

\* Level L over the level b below it, for a vector of length m.
Above(b, m, L) ==
    [i \in Nat |-> IF (2 * i + 1) * 2 ^ (L - 1) < m
                   THEN Add(b[2 * i], b[2 * i + 1]) ELSE b[2 * i]]

\* The first levels of the tree over f.
IsTree(f, m, h, g) == g = [L \in 0 .. h |-> IF L = 0 THEN f ELSE Above(g[L - 1], m, L)]

\* Any number of levels exists.
LEMMA TreesExist == \A f, m : \A h \in Nat : \E g : IsTree(f, m, h, g)
<1> SUFFICES ASSUME NEW f, NEW m PROVE \A h \in Nat : \E g : IsTree(f, m, h, g)
  OBVIOUS
<1> DEFINE T == {h \in Nat : ~ \E g : IsTree(f, m, h, g)}
<1>1. ASSUME T # {} PROVE FALSE
  <2>1. PICK h \in T : \A j \in T : h <= j
    BY <1>1, Least
  <2>2. h \in Nat /\ ~ \E g : IsTree(f, m, h, g)
    BY <2>1
  <2>3. CASE h = 0
    <3>1. IsTree(f, m, 0, [L \in 0 .. 0 |-> f])
      BY DEF IsTree
    <3> QED
      BY <2>2, <2>3, <3>1
  <2>4. CASE h # 0
    <3>1. h - 1 \in Nat /\ h - 1 \notin T
      BY <2>1, <2>2, <2>4
    <3>2. PICK e : IsTree(f, m, h - 1, e)
      BY <3>1
    <3> DEFINE g == [L \in 0 .. h |-> IF L = 0 THEN f ELSE Above(e[L - 1], m, L)]
    <3>3. ASSUME NEW L \in 0 .. h - 1 PROVE g[L] = e[L]
      BY <2>2, <3>2, <3>3 DEF IsTree
    <3>4. IsTree(f, m, h, g)
      <4>1. ASSUME NEW L \in 0 .. h
            PROVE  g[L] = IF L = 0 THEN f ELSE Above(g[L - 1], m, L)
        <5>1. CASE L = 0
          BY <5>1
        <5>2. CASE L # 0
          <6>1. L - 1 \in 0 .. h - 1
            BY <2>2, <5>2
          <6>2. g[L - 1] = e[L - 1]
            BY <3>3, <6>1
          <6>3. g[L] = Above(e[L - 1], m, L)
            BY <5>2
          <6> QED
            BY <5>2, <6>2, <6>3
        <5> QED
          BY <5>1, <5>2
      <4>2. g = [L \in 0 .. h |-> g[L]]
        OBVIOUS
      <4> HIDE DEF g
      <4> QED
        BY <4>1, <4>2 DEF IsTree
    <3> QED
      BY <2>2, <3>4
  <2> QED
    BY <2>3, <2>4
<1> QED
  BY <1>1

\* The recursive definition of the tree holds.
LEMMA LevelsUnfold ==
    ASSUME NEW f, NEW m \in Nat
    PROVE  /\ Tree!Levels(f, m)[0] = f
           /\ \A L \in 1 .. m : Tree!Levels(f, m)[L] = Above(Tree!Levels(f, m)[L - 1], m, L)
<1> DEFINE t == Tree!Levels(f, m)
<1>1. \E g : IsTree(f, m, m, g)
  BY TreesExist
<1>2. \E g : g = [L \in 0 .. m |-> IF L = 0 THEN f ELSE Above(g[L - 1], m, L)]
  BY <1>1 DEF IsTree
<1>3. t = CHOOSE g : g = [L \in 0 .. m |-> IF L = 0 THEN f ELSE Above(g[L - 1], m, L)]
  BY DEF Tree!Levels, Above
<1> HIDE DEF t
<1>4. t = [L \in 0 .. m |-> IF L = 0 THEN f ELSE Above(t[L - 1], m, L)]
  BY <1>2, <1>3
<1>5. t[0] = f /\ \A L \in 1 .. m : t[L] = Above(t[L - 1], m, L)
  BY <1>4
<1> QED
  BY <1>5 DEF t

\* l nodes of 2 ^ L elements cover a vector of length m, the last one perhaps cut.
Covers(L, l, m) == (l - 1) * 2 ^ L < m /\ m <= l * 2 ^ L

\* A level collapsed in pairs, its odd last element carried, is the next level of
\* the tree.
LEMMA LevelAbove ==
    ASSUME NEW f, NEW m \in Nat, NEW L \in Nat, NEW l \in Nat, l > 1,
           L + 1 <= m, Covers(L, l, m)
    PROVE  /\ Covers(L + 1, OutLen(l), m)
           /\ \A i \in 0 .. OutLen(l) - 1 :
                 Tree!Levels(f, m)[L + 1][i] =
                     IF i < l \div 2
                     THEN Add(Tree!Levels(f, m)[L][2 * i], Tree!Levels(f, m)[L][2 * i + 1])
                     ELSE Tree!Levels(f, m)[L][l - 1]
<1> DEFINE p == 2 ^ L
           q == 2 ^ (L + 1)
           w == OutLen(l)
           t == Tree!Levels(f, m)
<1>1. p \in Nat \ {0} /\ q = 2 * p
  BY PowerDoubles
<1>2. (l - 1) * p < m /\ m <= l * p
  BY DEF Covers
<1>3. w \in Nat /\ l <= 2 * w /\ 2 * w <= l + 1 /\ w < l
  BY DEF OutLen
<1>4. t[L + 1] = Above(t[L], m, L + 1)
  <2>1. L + 1 \in 1 .. m /\ (L + 1) - 1 = L
    OBVIOUS
  <2> HIDE DEF t
  <2>2. \A j \in 1 .. m : t[j] = Above(t[j - 1], m, j)
    BY LevelsUnfold DEF t
  <2> QED
    BY <2>1, <2>2
<1>5. Covers(L + 1, w, m)
  <2> HIDE DEF p, q, w
  <2>1. (w - 1) * q = (2 * w - 2) * p /\ w * q = (2 * w) * p
    BY <1>1, <1>3
  <2>2. (2 * w - 2) * p <= (l - 1) * p /\ l * p <= (2 * w) * p
    BY <1>1, <1>3, Monotone
  <2>3. /\ (2 * w - 2) * p \in Int /\ (l - 1) * p \in Int
        /\ l * p \in Int /\ (2 * w) * p \in Int
    BY <1>1, <1>3
  <2>4. (w - 1) * q < m /\ m <= w * q
    BY <1>2, <2>1, <2>2, <2>3
  <2> QED
    BY <2>4 DEF Covers, q
<1>6. ASSUME NEW i \in 0 .. w - 1
      PROVE  t[L + 1][i] = IF i < l \div 2 THEN Add(t[L][2 * i], t[L][2 * i + 1])
                           ELSE t[L][l - 1]
  <2> DEFINE full == (2 * i + 1) * 2 ^ ((L + 1) - 1) < m
  <2>1. /\ i \in Nat
        /\ t[L + 1][i] = IF full THEN Add(t[L][2 * i], t[L][2 * i + 1])
                         ELSE t[L][2 * i]
    <3>1. i \in Nat
      BY <1>3
    <3> HIDE DEF t, w
    <3> QED
      BY <3>1, <1>4 DEF Above
  <2>2. full <=> (2 * i + 1) * p < m
    <3>1. (L + 1) - 1 = L
      OBVIOUS
    <3> QED
      BY <3>1
  <2>3. i < w /\ w = (l \div 2) + (l % 2)
    BY <1>3 DEF OutLen
  <2> HIDE DEF full, t, p, q
  <2>4. CASE i < l \div 2
    <3>1. 2 * i + 1 <= l - 1
      BY <2>1, <2>4
    <3>2. (2 * i + 1) * p <= (l - 1) * p
      BY <1>1, <2>1, <3>1, Monotone
    <3>3. full
      BY <1>1, <1>2, <2>1, <2>2, <3>2
    <3> QED
      BY <2>1, <2>4, <3>3
  <2>5. CASE ~(i < l \div 2)
    <3> HIDE DEF w
    <3>1. 2 * i = l - 1
      BY <1>3, <2>1, <2>3, <2>5
    <3>2. 2 * i + 1 = l
      BY <3>1
    <3>3. ~full
      BY <1>1, <1>2, <2>2, <3>2
    <3> QED
      BY <2>1, <2>5, <3>1, <3>3
  <2> QED
    BY <2>4, <2>5
<1> QED
  BY <1>5, <1>6

\* Above a level of one node the first node stays what it is.
LEMMA Settled ==
    ASSUME NEW f, NEW m \in Nat, NEW L \in 0 .. m, m <= 2 ^ L
    PROVE  Tree!TreeSum(f, m) = Tree!Levels(f, m)[L][0]
<1> DEFINE t == Tree!Levels(f, m)
           Good(j) == t[j][0] = t[L][0] /\ m <= 2 ^ j
           T == {j \in L .. m : ~Good(j)}
<1>1. ASSUME T # {} PROVE FALSE
  <2>1. PICK j \in T : \A k \in T : j <= k
    <3>1. T \in SUBSET Nat
      OBVIOUS
    <3> HIDE DEF T
    <3> QED
      BY <1>1, <3>1, Least
  <2>2. j \in L .. m /\ ~Good(j) /\ j # L
    BY <2>1
  <2>3. j - 1 \in L .. m /\ j - 1 \in Nat /\ j - 1 \notin T
    BY <2>1, <2>2
  <2>4. t[j - 1][0] = t[L][0] /\ m <= 2 ^ (j - 1)
    BY <2>3
  <2>5. m <= 2 ^ j
    <3>1. 2 ^ (j - 1) \in Nat /\ 2 ^ ((j - 1) + 1) = 2 * 2 ^ (j - 1) /\ (j - 1) + 1 = j
      BY <2>2, <2>3, PowerDoubles
    <3> DEFINE p == 2 ^ (j - 1)
    <3> HIDE DEF p
    <3> QED
      BY <2>4, <3>1 DEF p
  <2>6. t[j] = Above(t[j - 1], m, j)
    <3>1. j \in 1 .. m
      BY <2>2
    <3> HIDE DEF t
    <3>2. \A k \in 1 .. m : t[k] = Above(t[k - 1], m, k)
      BY LevelsUnfold DEF t
    <3> QED
      BY <3>1, <3>2
  <2>7. t[j][0] = t[j - 1][0]
    <3>1. 2 ^ (j - 1) \in Nat
      BY <2>3, PowerDoubles
    <3>2. ~((2 * 0 + 1) * 2 ^ (j - 1) < m)
      BY <2>4, <3>1
    <3> HIDE DEF t
    <3> QED
      BY <2>6, <3>2 DEF Above
  <2> QED
    BY <2>2, <2>4, <2>5, <2>7
<1>2. m \in L .. m
  OBVIOUS
<1>3. t[m][0] = t[L][0]
  BY <1>1, <1>2
<1> QED
  BY <1>3 DEF Tree!TreeSum

\* The levels of reduce_columns cover the columns, and there are fewer of them than
\* elements.
LEMMA LevelCovers ==
    ASSUME config \in Configs
    PROVE  \A i \in 0 .. Levels : Covers(i, LevelLen[i], n) /\ i + LevelLen[i] <= n
<1> DEFINE Good(i) == Covers(i, LevelLen[i], n) /\ i + LevelLen[i] <= n
           T == {i \in 0 .. Levels : ~Good(i)}
<1>1. /\ n \in Nat \ {0} /\ Levels \in 0 .. MaxN /\ MaxN \in Nat
      /\ \A i \in 0 .. Levels - 1 : LevelLen[i] > 1
      /\ \A i \in 0 .. MaxN : LevelLen[i] \in 1 .. n
  BY Sizes, LevelsEnd, LevelLenBound
<1>2. ASSUME T # {} PROVE FALSE
  <2>1. PICK i \in T : \A j \in T : i <= j
    <3>1. T \in SUBSET Nat
      BY <1>1
    <3> HIDE DEF T
    <3> QED
      BY <1>2, <3>1, Least
  <2>2. i \in 0 .. Levels /\ ~Good(i) /\ i \in Nat
    BY <1>1, <2>1
  <2>3. CASE i = 0
    <3>1. LevelLen[0] = n /\ 2 ^ 0 = 1
      BY LevelLenUnfolds
    <3>2. Covers(0, n, n)
      BY <1>1, <3>1 DEF Covers
    <3> QED
      BY <1>1, <2>2, <2>3, <3>1, <3>2
  <2>4. CASE i # 0
    <3> DEFINE L == i - 1
               l == LevelLen[L]
    <3>1. L \in Nat /\ L \in 0 .. Levels /\ L \in 0 .. Levels - 1 /\ L \notin T /\ L + 1 = i
      BY <1>1, <2>1, <2>2, <2>4
    <3>2. Covers(L, l, n) /\ L + l <= n
      BY <3>1
    <3>3. l > 1 /\ l \in Nat
      <4>1. L \in 0 .. MaxN
        BY <1>1, <3>1
      <4> QED
        BY <1>1, <3>1, <4>1
    <3>4. LevelLen[i] = OutLen(l)
      <4>1. i \in 1 .. MaxN
        BY <1>1, <2>2, <2>4
      <4> QED
        BY <4>1, LevelLenUnfolds
    <3> HIDE DEF L, l
    <3>5. OutLen(l) < l /\ OutLen(l) \in Nat
      BY <3>3, Shortens
    <3>6. L + 1 <= n
      BY <1>1, <3>1, <3>2, <3>3
    <3>7. Covers(L + 1, OutLen(l), n)
      BY <1>1, <3>1, <3>2, <3>3, <3>6, LevelAbove
    <3>8. i + OutLen(l) <= n
      BY <1>1, <3>1, <3>2, <3>3, <3>5
    <3> QED
      BY <2>2, <3>1, <3>4, <3>7, <3>8
  <2> QED
    BY <2>3, <2>4
<1> QED
  BY <1>2

\* Column j of the ensemble c as the reduction reads it: the draws, or in mode 1 the
\* squares of their deviations from the mean.
Leaves(c, m, j) ==
    IF m = 0 THEN [i \in 0 .. c.n - 1 |-> Drawn(j, i)]
    ELSE LET dev(i) == Sub(Drawn(j, i), MeanOf(SumOf(c, j), c.n))
         IN  [i \in 0 .. c.n - 1 |-> Mul(dev(i), dev(i))]

\* Node i of level L of the tree over it.
Node(c, m, j, L, i) == Tree!Levels(Leaves(c, m, j), c.n)[L][i]

\* The elements of column j.
LEMMA NodeZero ==
    ASSUME config \in Configs, NEW m \in {0, 1}, NEW j, NEW i \in 0 .. n - 1
    PROVE  /\ Node(config, 0, j, 0, i) = Drawn(j, i)
           /\ Node(config, 1, j, 0, i) =
                 LET dv == Sub(Drawn(j, i), MeanOf(SumOf(config, j), n)) IN Mul(dv, dv)
<1>1. n \in Nat /\ n = config.n
  BY Sizes DEF n
<1>2. \A f : Tree!Levels(f, n)[0] = f
  BY <1>1, LevelsUnfold
<1>3. Leaves(config, 0, j)[i] = Drawn(j, i)
  BY <1>1 DEF Leaves
<1>4. Leaves(config, 1, j)[i] =
         LET dv == Sub(Drawn(j, i), MeanOf(SumOf(config, j), n)) IN Mul(dv, dv)
  BY <1>1 DEF Leaves
<1> QED
  BY <1>1, <1>2, <1>3, <1>4 DEF Node

\* A level of reduce_columns makes the nodes of the next level.
LEMMA NodeAbove ==
    ASSUME config \in Configs, NEW m \in {0, 1}, NEW j, NEW L \in 0 .. Levels - 1,
           NEW i \in 0 .. OutLen(LevelLen[L]) - 1
    PROVE  Node(config, m, j, L + 1, i) =
               IF i < LevelLen[L] \div 2
               THEN Add(Node(config, m, j, L, 2 * i), Node(config, m, j, L, 2 * i + 1))
               ELSE Node(config, m, j, L, LevelLen[L] - 1)
<1> DEFINE l == LevelLen[L]
           f == Leaves(config, m, j)
<1>1. /\ n \in Nat /\ n = config.n /\ Levels \in 0 .. MaxN /\ MaxN \in Nat
      /\ \A x \in 0 .. Levels - 1 : LevelLen[x] > 1
      /\ \A x \in 0 .. MaxN : LevelLen[x] \in 1 .. n
  BY Sizes, LevelsEnd, LevelLenBound DEF n
<1>2. L \in Nat /\ L \in 0 .. Levels /\ L \in 0 .. MaxN
  BY <1>1
<1>3. l > 1 /\ l \in Nat
  BY <1>1, <1>2
<1>4. Covers(L, l, n) /\ L + l <= n
  BY <1>2, LevelCovers
<1> HIDE DEF l, f
<1>5. L + 1 <= n
  BY <1>1, <1>2, <1>3, <1>4
<1>6. i \in 0 .. OutLen(l) - 1
  BY DEF l
<1>7. Tree!Levels(f, n)[L + 1][i] =
          IF i < l \div 2
          THEN Add(Tree!Levels(f, n)[L][2 * i], Tree!Levels(f, n)[L][2 * i + 1])
          ELSE Tree!Levels(f, n)[L][l - 1]
  BY <1>1, <1>2, <1>3, <1>4, <1>5, <1>6, LevelAbove
<1> QED
  BY <1>1, <1>7 DEF Node, f, l

\* The top of the last level is the sum of the column.
LEMMA NodeTop ==
    ASSUME config \in Configs, NEW j
    PROVE  /\ Node(config, 0, j, Levels, 0) = SumOf(config, j)
           /\ Node(config, 1, j, Levels, 0) = SquaresOf(config, j)
<1>1. n \in Nat /\ n = config.n /\ Levels \in Nat /\ LevelLen[Levels] = 1
  BY Sizes, LevelsEnd DEF n
<1>2. Covers(Levels, 1, n) /\ Levels + 1 <= n
  BY <1>1, LevelCovers
<1>3. n <= 2 ^ Levels /\ Levels \in 0 .. n
  <2>1. 2 ^ Levels \in Nat
    BY <1>1, PowerDoubles
  <2> QED
    BY <1>1, <1>2, <2>1 DEF Covers
<1>4. \A f : Tree!TreeSum(f, n) = Tree!Levels(f, n)[Levels][0]
  BY <1>1, <1>3, Settled
<1>5. SumOf(config, j) = Tree!TreeSum(Leaves(config, 0, j), n)
  BY <1>1 DEF SumOf, Leaves
<1>6. SquaresOf(config, j) = Tree!TreeSum(Leaves(config, 1, j), n)
  BY <1>1 DEF SquaresOf, Leaves
<1> QED
  BY <1>1, <1>4, <1>5, <1>6 DEF Node

-----------------------------------------------------------------------------
(* The value of a run.                                                     *)

\* The accumulation over the first h columns of the numbers v of the columns.
Accumulates(acc, h, m, v) ==
    acc = [j \in 0 .. h |-> IF j = 0 THEN Zero ELSE Accumulate(acc[j - 1], v[j - 1], m)]

\* It exists.
LEMMA AccumulationExists == \A m, v : \A h \in Nat : \E acc : Accumulates(acc, h, m, v)
<1> SUFFICES ASSUME NEW m, NEW v PROVE \A h \in Nat : \E acc : Accumulates(acc, h, m, v)
  OBVIOUS
<1> DEFINE T == {h \in Nat : ~ \E acc : Accumulates(acc, h, m, v)}
<1>1. ASSUME T # {} PROVE FALSE
  <2>1. PICK h \in T : \A j \in T : h <= j
    BY <1>1, Least
  <2>2. h \in Nat /\ ~ \E acc : Accumulates(acc, h, m, v)
    BY <2>1
  <2>3. CASE h = 0
    <3>1. Accumulates([j \in 0 .. 0 |-> Zero], 0, m, v)
      BY DEF Accumulates
    <3> QED
      BY <2>2, <2>3, <3>1
  <2>4. CASE h # 0
    <3>1. h - 1 \in Nat /\ h - 1 \notin T
      BY <2>1, <2>2, <2>4
    <3>2. PICK e : Accumulates(e, h - 1, m, v)
      BY <3>1
    <3> DEFINE g == [j \in 0 .. h |->
                       IF j = 0 THEN Zero ELSE Accumulate(e[j - 1], v[j - 1], m)]
    <3>3. ASSUME NEW j \in 0 .. h - 1 PROVE g[j] = e[j]
      BY <2>2, <3>2, <3>3 DEF Accumulates
    <3>4. Accumulates(g, h, m, v)
      <4>1. ASSUME NEW j \in 0 .. h
            PROVE  g[j] = IF j = 0 THEN Zero ELSE Accumulate(g[j - 1], v[j - 1], m)
        <5>1. CASE j = 0
          BY <5>1
        <5>2. CASE j # 0
          <6>1. j - 1 \in 0 .. h - 1
            BY <2>2, <5>2
          <6>2. g[j - 1] = e[j - 1]
            BY <3>3, <6>1
          <6>3. g[j] = Accumulate(e[j - 1], v[j - 1], m)
            BY <5>2
          <6> QED
            BY <5>2, <6>2, <6>3
        <5> QED
          BY <5>1, <5>2
      <4>2. g = [j \in 0 .. h |-> g[j]]
        OBVIOUS
      <4> HIDE DEF g
      <4> QED
        BY <4>1, <4>2 DEF Accumulates
    <3> QED
      BY <2>2, <3>4
  <2> QED
    BY <2>3, <2>4
<1> QED
  BY <1>1

\* It is determined by the numbers of the columns.
LEMMA AccumulationUnique ==
    ASSUME NEW h \in Nat, NEW m, NEW v, NEW w, \A j \in 0 .. h - 1 : v[j] = w[j],
           NEW a, Accumulates(a, h, m, v), NEW b, Accumulates(b, h, m, w)
    PROVE  a[h] = b[h]
<1> DEFINE T == {j \in 0 .. h : a[j] # b[j]}
<1>1. \A j \in 0 .. h : a[j] = IF j = 0 THEN Zero ELSE Accumulate(a[j - 1], v[j - 1], m)
  BY DEF Accumulates
<1>2. \A j \in 0 .. h : b[j] = IF j = 0 THEN Zero ELSE Accumulate(b[j - 1], w[j - 1], m)
  BY DEF Accumulates
<1>3. ASSUME T # {} PROVE FALSE
  <2>1. PICK j \in T : \A k \in T : j <= k
    <3>1. T \in SUBSET Nat
      OBVIOUS
    <3> HIDE DEF T
    <3> QED
      BY <1>3, <3>1, Least
  <2>2. j \in 0 .. h /\ a[j] # b[j]
    BY <2>1
  <2>3. j # 0
    BY <1>1, <1>2, <2>2
  <2>4. j - 1 \in 0 .. h - 1 /\ j - 1 \in 0 .. h /\ j - 1 \notin T
    BY <2>1, <2>2, <2>3
  <2>5. a[j - 1] = b[j - 1] /\ v[j - 1] = w[j - 1]
    BY <2>4
  <2> QED
    BY <1>1, <1>2, <2>2, <2>3, <2>5
<1> QED
  BY <1>3

\* The variance that the host accumulates is the value of the config when every
\* column has the sum of squares that the config gives it.
LEMMA VarianceIsValue ==
    ASSUME config \in Configs, config.kind = "gaussian",
           \A j \in 0 .. d - 1 : Centred(j) = SquaresOf(config, j), ReturnVariance
    PROVE  value' = ValueOf(config)
<1> DEFINE v == [j \in 0 .. d - 1 |-> Centred(j)]
           w == [j \in 0 .. d - 1 |-> SquaresOf(config, j)]
           a == CHOOSE g : g = [c \in 0 .. d |->
                   IF c = 0 THEN Zero ELSE Accumulate(g[c - 1], Centred(c - 1), n)]
           b == CHOOSE g : g = [j \in 0 .. config.d |->
                   IF j = 0 THEN Zero
                   ELSE Accumulate(g[j - 1], SquaresOf(config, j - 1), config.n)]
<1>1. d \in Nat /\ d = config.d /\ n = config.n
  BY Sizes DEF d, n
<1>2. value' = a[d]
  BY DEF ReturnVariance
<1>3. ValueOf(config) = b[config.d]
  BY DEF ValueOf
<1>4. ASSUME NEW g
      PROVE  /\ Accumulates(g, d, n, v) <=> g = [c \in 0 .. d |->
                   IF c = 0 THEN Zero ELSE Accumulate(g[c - 1], Centred(c - 1), n)]
             /\ Accumulates(g, d, n, w) <=> g = [j \in 0 .. config.d |->
                   IF j = 0 THEN Zero
                   ELSE Accumulate(g[j - 1], SquaresOf(config, j - 1), config.n)]
  <2>1. \A j \in 0 .. d : j # 0 => v[j - 1] = Centred(j - 1)
    BY <1>1
  <2>2. \A j \in 0 .. d : j # 0 => w[j - 1] = SquaresOf(config, j - 1)
    BY <1>1
  <2> HIDE DEF v, w
  <2> QED
    BY <1>1, <2>1, <2>2 DEF Accumulates
<1> HIDE DEF v, w
<1>5. Accumulates(a, d, n, v)
  <2>1. \E g : Accumulates(g, d, n, v)
    BY <1>1, AccumulationExists
  <2> QED
    BY <1>4, <2>1
<1>6. Accumulates(b, d, n, w)
  <2>1. \E g : Accumulates(g, d, n, w)
    BY <1>1, AccumulationExists
  <2> QED
    BY <1>4, <2>1
<1> HIDE DEF a, b
<1>7. \A j \in 0 .. d - 1 : v[j] = w[j]
  BY DEF v, w
<1> QED
  BY <1>1, <1>2, <1>3, <1>5, <1>6, <1>7, AccumulationUnique

-----------------------------------------------------------------------------
(* What the buffers hold.                                                  *)

\* The batch of the last reduction that was submitted: its mode, and the place in it
\* of the head of the queue.  Place 0 is the draw, Levels + 1 the copy.
Busy == pc \in {"drawn", "sums", "squares"}
Mode == IF pc = "squares" THEN 1 ELSE 0
Turn == (IF pc = "drawn" THEN 1 ELSE Levels + 2) - Len(queue)
CommandAt(t) == IF t = 0 THEN DrawAll ELSE Reduction(Mode)[t]

\* The queue is what is left of the batch, in order.
InOrder ==
    /\ Turn \in (IF pc = "squares" THEN 1 ELSE 0) .. Levels + 2
    /\ \A i \in 1 .. Len(queue) : queue[i] = CommandAt(Turn + i - 1)

\* Between two commands: the ensemble is drawn, the last level that was collapsed is
\* that of the tree, the staging buffer has the totals.
Columns == 0 .. d - 1

RowsDrawn == \A j \in Columns, i \in 0 .. n - 1 : mem["ensemble"][j * n + i] = Drawn(j, i)

LevelStored(L) ==
    \A j \in Columns, i \in 0 .. LevelLen[L] - 1 :
        mem[Source(L)][j * n + i] = Node(config, Mode, j, L, i)

Staged ==
    \A j \in Columns :
        mem["staging"][j] = IF Levels = 0 THEN Drawn(j, 0) ELSE Node(config, Mode, j, Levels, 0)

Stored ==
    /\ Turn >= 1 => RowsDrawn
    /\ pc = "squares" =>
          /\ config.kind = "gaussian"
          /\ \A j \in Columns : means[j] = MeanOf(SumOf(config, j), n)
    /\ Turn \in 2 .. Levels + 1 => LevelStored(Turn - 1)
    /\ Turn = Levels + 2 => Staged

\* Within a command: an invocation has computed the node of its output, and one that
\* has ended has stored it.
Result(inv, x) ==
    IF Turn = 0 THEN Drawn(x \div n, x % n)
    ELSE Node(config, Mode, Col(Head(queue), inv), Turn, K(Head(queue), inv))

LaneHolds(inv) ==
    /\ lanes[inv].at = "loaded" =>
          /\ Turn \in 1 .. Levels /\ Live(Head(queue), inv)
          /\ lanes[inv].result = Result(inv, 0)
    /\ lanes[inv].at = "done" /\ Live(Head(queue), inv) =>
          \A x \in Writes(Head(queue), inv) : mem[Head(queue).write][x] = Result(inv, x)

LanesHold == \A inv \in DOMAIN lanes : LaneHolds(inv)

Contents == Busy => InOrder /\ Stored /\ LanesHold

\* The numbers of an admitted batch.
LEMMA BatchFacts ==
    ASSUME IInv, Busy
    PROVE  /\ config \in Configs /\ Admitted /\ Levels \in Nat /\ Levels \in 0 .. MaxN
           /\ queue \in Seq(Commands(config)) /\ Len(queue) \in Nat
           /\ n \in Nat \ {0} /\ d \in Nat \ {0}
           /\ \A i \in 0 .. Levels : LevelLen[i] \in 1 .. n
<1>1. config \in Configs /\ Admitted /\ queue \in Seq(Commands(config))
  BY DEF IInv, QueueOK, Busy
<1>2. Levels \in 0 .. MaxN /\ MaxN \in Nat
  BY <1>1, LevelsEnd, Sizes
<1>3. \A i \in 0 .. Levels : LevelLen[i] \in 1 .. n
  <2>1. \A i \in 0 .. Levels : i \in 0 .. MaxN
    BY <1>2
  <2> QED
    BY <1>1, <2>1, LevelLenBound
<1> QED
  BY <1>1, <1>2, <1>3, Sizes

\* The buffers of the levels.
LEMMA BufferFacts ==
    ASSUME NEW i \in Nat
    PROVE  /\ Target(i) = Source(i + 1) /\ Target(i) # Source(i) /\ Target(i) # "ensemble"
           /\ i # 0 => Source(i) # "ensemble"
           /\ Source(0) = "ensemble"
  BY DEF Source, Target

\* The head of the queue is the command whose turn it is.
LEMMA HeadFacts ==
    ASSUME IInv, Busy, InOrder, queue # << >>
    PROVE  LET cmd == Head(queue)
           IN  /\ Turn \in 0 .. Levels + 1 /\ cmd \in Commands(config)
               /\ Turn = 0 => cmd.op = "draw" /\ cmd.write = "ensemble" /\ cmd.threads = n
               /\ Turn \in 1 .. Levels =>
                     /\ cmd.op = "collapse" /\ cmd.len = LevelLen[Turn - 1]
                     /\ cmd.mode = ModeOf(Turn - 1, Mode)
                     /\ cmd.read = Source(Turn - 1) /\ cmd.write = Target(Turn - 1)
               /\ Turn = Levels + 1 => cmd.op = "copy" /\ cmd.read = Source(Levels)
<1> DEFINE cmd == Head(queue)
<1>1. /\ Levels \in Nat /\ queue \in Seq(Commands(config)) /\ Len(queue) \in Nat \ {0}
      /\ cmd \in Commands(config)
  BY BatchFacts, HeadTail
<1>2. pc = "drawn" => Len(queue) <= 1
  BY DEF IInv, QueueOK
<1>3. Turn \in 0 .. Levels + 1
  <2>1. Turn \in 0 .. Levels + 2
    BY <1>1 DEF InOrder
  <2>2. Turn < Levels + 2
    BY <1>1, <1>2 DEF Turn
  <2> QED
    BY <1>1, <2>1, <2>2
<1>4. cmd = CommandAt(Turn)
  <2>1. queue[1] = CommandAt(Turn + 1 - 1)
    BY <1>1 DEF InOrder
  <2>2. Turn + 1 - 1 = Turn /\ cmd = queue[1]
    BY <1>1, <1>3
  <2> QED
    BY <2>1, <2>2
<1>5. ASSUME Turn = 0
      PROVE  cmd.op = "draw" /\ cmd.write = "ensemble" /\ cmd.threads = n
  BY <1>4, <1>5 DEF CommandAt, DrawAll
<1>6. Turn # 0 => cmd = IF Turn <= Levels THEN Collapse(Turn - 1, Mode) ELSE Copy
  BY <1>1, <1>3, <1>4 DEF CommandAt, Reduction
<1>7. ASSUME Turn \in 1 .. Levels
      PROVE  /\ cmd.op = "collapse" /\ cmd.len = LevelLen[Turn - 1]
             /\ cmd.mode = ModeOf(Turn - 1, Mode)
             /\ cmd.read = Source(Turn - 1) /\ cmd.write = Target(Turn - 1)
  <2>1. cmd = Collapse(Turn - 1, Mode)
    BY <1>6, <1>7
  <2> HIDE DEF cmd
  <2> QED
    BY <2>1 DEF Collapse
<1>8. ASSUME Turn = Levels + 1
      PROVE  cmd.op = "copy" /\ cmd.read = Source(Levels)
  <2>1. cmd = Copy
    BY <1>1, <1>6, <1>8
  <2> HIDE DEF cmd
  <2> QED
    BY <2>1 DEF Copy
<1> QED
  BY <1>1, <1>3, <1>5, <1>7, <1>8

\* A live invocation of a level reads nodes of the level below.
LEMMA OperandIsNode ==
    ASSUME IInv, Busy, InOrder, Stored, queue # << >>, Turn \in 1 .. Levels,
           NEW inv \in Invocations(Head(queue).threads), Live(Head(queue), inv),
           NEW x \in 0 .. LevelLen[Turn - 1] - 1
    PROVE  Operand(Head(queue), inv, At(Head(queue), inv, x)) =
               Node(config, Mode, Col(Head(queue), inv), Turn - 1, x)
<1> DEFINE cmd == Head(queue)
           j == Col(cmd, inv)
<1>1. /\ config \in Configs /\ Admitted /\ n \in Nat \ {0} /\ Levels \in Nat
      /\ \A i \in 0 .. Levels : LevelLen[i] \in 1 .. n
  BY BatchFacts
<1>2. /\ cmd \in Commands(config) /\ cmd.op = "collapse" /\ cmd.len = LevelLen[Turn - 1]
      /\ cmd.mode = ModeOf(Turn - 1, Mode) /\ cmd.read = Source(Turn - 1)
  BY HeadFacts
<1>3. j \in Columns /\ \A y \in 0 .. n - 1 : At(cmd, inv, y) = j * n + y
  BY <1>1, <1>2, CollapseLane DEF Columns
<1>4. LevelLen[Turn - 1] \in 1 .. n /\ x \in 0 .. n - 1
  <2>1. Turn - 1 \in 0 .. Levels
    BY <1>1
  <2> QED
    BY <1>1, <2>1
<1>5. At(cmd, inv, x) = j * n + x
  BY <1>3, <1>4
<1>6. Turn >= 1
  BY <1>1
<1> HIDE DEF cmd, j
<1>7. CASE Turn = 1
  <2>1. cmd.mode = Mode /\ cmd.read = "ensemble" /\ Turn - 1 = 0
    BY <1>2, <1>7 DEF ModeOf, Source
  <2>2. mem["ensemble"][j * n + x] = Drawn(j, x)
    BY <1>3, <1>4, <1>6 DEF Stored, RowsDrawn
  <2>3. CASE Mode = 0
    <3>1. Operand(cmd, inv, At(cmd, inv, x)) = Drawn(j, x)
      BY <1>5, <2>1, <2>2, <2>3 DEF Operand
    <3> QED
      BY <1>1, <1>4, <2>1, <2>3, <3>1, NodeZero DEF cmd, j
  <2>4. CASE Mode = 1
    <3>1. means[j] = MeanOf(SumOf(config, j), n)
      BY <1>3, <2>4 DEF Stored, Mode
    <3>2. Operand(cmd, inv, At(cmd, inv, x)) =
             LET dv == Sub(Drawn(j, x), MeanOf(SumOf(config, j), n)) IN Mul(dv, dv)
      BY <1>5, <2>1, <2>2, <2>4, <3>1 DEF Operand, j
    <3> QED
      BY <1>1, <1>4, <2>1, <2>4, <3>2, NodeZero DEF cmd, j
  <2> QED
    BY <2>3, <2>4 DEF Mode
<1>8. CASE Turn # 1
  <2>1. cmd.mode = 0 /\ Turn \in 2 .. Levels + 1
    BY <1>1, <1>2, <1>8 DEF ModeOf
  <2>2. mem[cmd.read][j * n + x] = Node(config, Mode, j, Turn - 1, x)
    BY <1>2, <1>3, <2>1 DEF Stored, LevelStored
  <2>3. Operand(cmd, inv, At(cmd, inv, x)) = mem[cmd.read][j * n + x]
    BY <1>5, <2>1 DEF Operand
  <2> QED
    BY <2>2, <2>3 DEF cmd, j
<1> QED
  BY <1>7, <1>8

\* So it computes a node of the level above.
LEMMA OutputIsNode ==
    ASSUME IInv, Busy, InOrder, Stored, queue # << >>, Turn \in 1 .. Levels,
           NEW inv \in Invocations(Head(queue).threads), Live(Head(queue), inv)
    PROVE  Output(Head(queue), inv) = Result(inv, 0)
<1> DEFINE cmd == Head(queue)
           j == Col(cmd, inv)
           i == K(cmd, inv)
           l == LevelLen[Turn - 1]
           N(x) == Node(config, Mode, j, Turn - 1, x)
<1>1. /\ config \in Configs /\ Admitted /\ n \in Nat \ {0} /\ Levels \in Nat
      /\ \A x \in 0 .. Levels : LevelLen[x] \in 1 .. n
  BY BatchFacts
<1>2. cmd \in Commands(config) /\ cmd.op = "collapse" /\ cmd.len = l
  BY HeadFacts
<1>3. i \in 0 .. OutLen(l) - 1
  BY <1>1, <1>2, CollapseLane
<1>4. Turn - 1 \in 0 .. Levels - 1 /\ (Turn - 1) + 1 = Turn /\ l \in Nat \ {0}
  <2>1. Turn - 1 \in 0 .. Levels
    BY <1>1
  <2> QED
    BY <1>1, <2>1
<1>5. \A x \in 0 .. l - 1 : Operand(cmd, inv, At(cmd, inv, x)) = N(x)
  BY OperandIsNode
<1>6. Node(config, Mode, j, Turn, i) =
         IF i < l \div 2 THEN Add(N(2 * i), N(2 * i + 1)) ELSE N(l - 1)
  <2>1. Mode \in {0, 1}
    BY DEF Mode
  <2>2. Node(config, Mode, j, (Turn - 1) + 1, i) =
         IF i < l \div 2 THEN Add(N(2 * i), N(2 * i + 1)) ELSE N(l - 1)
    BY <1>1, <1>3, <1>4, <2>1, NodeAbove
  <2> QED
    BY <1>4, <2>2
<1>7. Output(cmd, inv) =
         IF i < l \div 2
         THEN Add(Operand(cmd, inv, At(cmd, inv, 2 * i)),
                  Operand(cmd, inv, At(cmd, inv, 2 * i + 1)))
         ELSE Operand(cmd, inv, At(cmd, inv, l - 1))
  BY <1>2 DEF Output
<1>8. Result(inv, 0) = Node(config, Mode, j, Turn, i)
  BY <1>4 DEF Result
<1> HIDE DEF cmd, j, i, l, N
<1>9. CASE i < l \div 2
  <2>1. 2 * i \in 0 .. l - 1 /\ 2 * i + 1 \in 0 .. l - 1
    BY <1>3, <1>4, <1>9
  <2> QED
    BY <1>5, <1>6, <1>7, <1>8, <1>9, <2>1 DEF cmd
<1>10. CASE ~(i < l \div 2)
  <2>1. l - 1 \in 0 .. l - 1
    BY <1>4
  <2> QED
    BY <1>5, <1>6, <1>7, <1>8, <1>10, <2>1 DEF cmd
<1> QED
  BY <1>9, <1>10

-----------------------------------------------------------------------------
(* No step spoils them.                                                    *)

\* What else a step leaves alone as long as the config stays.
LEMMA SameBatch ==
    ASSUME config' = config
    PROVE  /\ LevelLen' = LevelLen /\ Columns' = Columns
           /\ DrawAll' = DrawAll /\ \A m : Reduction(m)' = Reduction(m)
<1>1. n' = n /\ d' = d /\ Levels' = Levels
  BY Same
<1>2. LevelLen' = LevelLen
  BY <1>1 DEF LevelLen
<1>3. DrawAll' = DrawAll /\ Columns' = Columns
  BY <1>1 DEF DrawAll, Columns
<1>4. Copy' = Copy
  BY <1>1 DEF Copy, Source
<1>5. \A i, m : Collapse(i, m)' = Collapse(i, m)
  BY <1>1, <1>2 DEF Collapse, ModeOf, Source, Target
<1>6. \A m : Reduction(m)' = Reduction(m)
  BY <1>1, <1>4, <1>5 DEF Reduction
<1> QED
  BY <1>2, <1>3, <1>6

\* A step that leaves the queue alone keeps its place in the batch.
LEMMA SamePlace ==
    ASSUME config' = config, pc' = pc, queue' = queue
    PROVE  /\ Busy' = Busy /\ Mode' = Mode /\ Turn' = Turn
           /\ InOrder => InOrder'
<1>1. Levels' = Levels
  BY Same
<1>2. Busy' = Busy /\ Mode' = Mode /\ Turn' = Turn
  BY <1>1 DEF Busy, Mode, Turn
<1>3. \A t : CommandAt(t)' = CommandAt(t)
  BY <1>2, SameBatch DEF CommandAt
<1>4. InOrder => InOrder'
  BY <1>1, <1>2, <1>3 DEF InOrder
<1> QED
  BY <1>2, <1>4

\* What an invocation computes depends on the command alone.
LEMMA SameLane ==
    ASSUME config' = config, pc' = pc, Turn' = Turn, Head(queue') = Head(queue), NEW inv
    PROVE  /\ Live(Head(queue), inv)' = Live(Head(queue), inv)
           /\ Writes(Head(queue), inv)' = Writes(Head(queue), inv)
           /\ \A x : Result(inv, x)' = Result(inv, x)
<1>1. n' = n /\ d' = d /\ Mode' = Mode
  BY Same DEF Mode
<1>2. Live(Head(queue), inv)' = Live(Head(queue), inv)
  BY DEF Live, Index
<1>3. /\ Col(Head(queue), inv)' = Col(Head(queue), inv)
      /\ K(Head(queue), inv)' = K(Head(queue), inv)
  BY DEF Col, K, Index
<1>4. Writes(Head(queue), inv)' = Writes(Head(queue), inv)
  BY <1>1, <1>3 DEF Writes, At, Off, Index, Col, K
<1>5. \A x : Result(inv, x)' = Result(inv, x)
  BY <1>1, <1>3 DEF Result
<1> QED
  BY <1>2, <1>4, <1>5

\* The batch after a step, from the one before it.
LEMMA NextBatch ==
    ASSUME config' = config, NEW t, Turn' = t,
           t \in (IF pc' = "squares" THEN 1 ELSE 0) .. Levels + 2,
           \A i \in 1 .. Len(queue') :
               queue'[i] = IF t + i - 1 = 0 THEN DrawAll ELSE Reduction(Mode')[t + i - 1]
    PROVE  InOrder'
<1>1. \A x : CommandAt(x)' = IF x = 0 THEN DrawAll ELSE Reduction(Mode')[x]
  BY SameBatch DEF CommandAt
<1>2. \A i \in 1 .. Len(queue') : queue'[i] = CommandAt(t + i - 1)'
  BY <1>1
<1>3. Levels' = Levels
  BY Same
<1> QED
  BY <1>2, <1>3 DEF InOrder

\* A step that leaves the buffers alone too keeps what they hold.
LEMMA StoredStays ==
    ASSUME config' = config, pc' = pc, queue' = queue, mem' = mem, means' = means, Stored
    PROVE  Stored'
<1>1. n' = n /\ Levels' = Levels /\ LevelLen' = LevelLen /\ Columns' = Columns
  BY Same, SameBatch
<1>2. Turn' = Turn /\ Mode' = Mode
  BY SamePlace
<1>3. RowsDrawn => RowsDrawn'
  BY <1>1 DEF RowsDrawn
<1>4. LevelStored(Turn - 1) => LevelStored(Turn - 1)'
  BY <1>1, <1>2 DEF LevelStored, Source
<1>5. Staged => Staged'
  BY <1>1, <1>2 DEF Staged
<1> QED
  BY <1>1, <1>2, <1>3, <1>4, <1>5 DEF Stored

\* The draw is the first command of its batch.
LEMMA SubmitDrawContents == IInv /\ Contents /\ SubmitDraw => Contents'
<1> SUFFICES ASSUME IInv, Contents, SubmitDraw PROVE Contents'
  OBVIOUS
<1>1. /\ config' = config /\ queue' = Append(queue, DrawAll) /\ lanes' = lanes
      /\ pc = "start" /\ pc' = "drawn"
  BY DEF SubmitDraw
<1>2. queue = << >> /\ config \in Configs /\ lanes = NotBegun
  BY <1>1 DEF IInv, QueueOK, LanesOK
<1>3. queue' = <<DrawAll>>
  BY <1>1, <1>2
<1>4. Turn' = 0 /\ Levels' \in Nat /\ Levels \in Nat /\ Len(queue') = 1
  <2>1. Levels \in Nat
    BY <1>2, LevelsEnd, Sizes
  <2>2. Len(queue') = 1
    BY <1>3
  <2> QED
    BY <1>1, <2>1, <2>2, Same DEF Turn
<1>5. InOrder'
  <2>1. \A i \in 1 .. Len(queue') : 0 + i - 1 = 0 /\ queue'[i] = DrawAll
    BY <1>3, <1>4
  <2> QED
    BY <1>1, <1>4, <2>1, NextBatch
<1>6. Stored'
  <2>1. ~(Turn' >= 1) /\ ~(Turn' \in 2 .. Levels' + 1) /\ Turn' # Levels' + 2
    <3>1. \A L \in Nat : ~(0 >= 1) /\ ~(0 \in 2 .. L + 1) /\ 0 # L + 2
      OBVIOUS
    <3> QED
      BY <1>4, <3>1
  <2>2. pc' # "squares"
    BY <1>1
  <2> QED
    BY <2>1, <2>2 DEF Stored
<1>7. LanesHold'
  BY <1>1, <1>2, NotBegunEmpty DEF LanesHold
<1> QED
  BY <1>5, <1>6, <1>7 DEF Contents

\* The reduction takes its place behind the draw.
LEMMA SubmitSumsContents == IInv /\ Contents /\ SubmitSums => Contents'
<1> SUFFICES ASSUME IInv, Contents, SubmitSums PROVE Contents'
  OBVIOUS
<1>1. /\ config' = config /\ queue' = queue \o Reduction(0) /\ lanes' = lanes /\ mem' = mem
      /\ pc = "drawn" /\ pc' = "sums" /\ means' = means
  BY DEF SubmitSums
<1>2. Busy /\ InOrder /\ Stored /\ LanesHold
  BY <1>1 DEF Contents, Busy
<1>3. /\ config \in Configs /\ Admitted /\ Levels \in Nat /\ Len(queue) \in Nat
      /\ queue \in Seq(Commands(config)) /\ Len(queue) <= 1
  BY <1>1, <1>2, BatchFacts DEF IInv, QueueOK
<1>4. Reduction(0) \in Seq(Commands(config)) /\ Len(Reduction(0)) = Levels + 1
  BY <1>3, ReductionFits
<1>5. Len(queue') = Len(queue) + (Levels + 1)
  BY <1>1, <1>3, <1>4
<1>6. Turn' = 1 - Len(queue) /\ Turn = 1 - Len(queue)
  BY <1>1, <1>3, <1>5, Same DEF Turn
<1>7. Mode = 0 /\ Mode' = 0
  BY <1>1 DEF Mode
<1>8. InOrder'
  <2> DEFINE t == 1 - Len(queue)
  <2>1. ASSUME NEW i \in 1 .. Len(queue')
        PROVE  queue'[i] = IF t + i - 1 = 0 THEN DrawAll ELSE Reduction(0)[t + i - 1]
    <3>1. CASE i <= Len(queue)
      <4>1. i \in Nat \ {0}
        BY <1>3, <1>5
      <4>2. Len(queue) \in Nat /\ Len(queue) <= 1 /\ i <= Len(queue)
        BY <1>3, <3>1
      <4>3. \A x \in Nat \ {0} : \A l \in Nat :
               x <= l /\ l <= 1 => x = 1 /\ l = 1 /\ (1 - l) + x - 1 = 0 /\ 1 - l = 0
        OBVIOUS
      <4>4. i = 1 /\ Len(queue) = 1 /\ t + i - 1 = 0 /\ Turn = 0
        BY <1>6, <4>1, <4>2, <4>3
      <4>5. queue'[i] = queue[i]
        BY <1>1, <1>3, <1>4, <3>1
      <4>6. queue[1] = CommandAt(Turn + 1 - 1) /\ Turn + 1 - 1 = 0
        BY <1>2, <4>4 DEF InOrder
      <4> QED
        BY <4>4, <4>5, <4>6 DEF CommandAt
    <3>2. CASE ~(i <= Len(queue))
      <4>1. i - Len(queue) # 0 /\ t + i - 1 = i - Len(queue)
        BY <1>3, <1>5, <3>2
      <4>2. queue'[i] = Reduction(0)[i - Len(queue)]
        BY <1>1, <1>3, <1>4, <1>5, <3>2
      <4> QED
        BY <4>1, <4>2
    <3> QED
      BY <3>1, <3>2
  <2>2. t \in 0 .. Levels + 2
    BY <1>3
  <2> QED
    BY <1>1, <1>6, <1>7, <2>1, <2>2, NextBatch
<1>9. Stored'
  <2>1. Turn >= 1 => RowsDrawn'
    BY <1>1, <1>2, Same, SameBatch DEF Stored, RowsDrawn
  <2>2. Turn < 2 /\ Turn # Levels + 2
    BY <1>3, <1>6
  <2> QED
    BY <1>1, <1>3, <1>6, <2>1, <2>2, Same DEF Stored
<1>10. LanesHold'
  <2>1. ASSUME NEW inv \in DOMAIN lanes PROVE LaneHolds(inv)'
    <3>1. queue # << >> /\ LaneHolds(inv)
      BY <1>2, <2>1, NotBegunEmpty DEF IInv, LanesOK, LanesHold
    <3>2. Head(queue') = Head(queue)
      <4> DEFINE S == Commands(config)
                 r == Reduction(0)
      <4>1. queue \in Seq(S) /\ r \in Seq(S) /\ queue' = queue \o r /\ queue # << >>
        BY <1>1, <1>3, <1>4, <3>1
      <4> HIDE DEF S, r
      <4>2. Len(queue) \in Nat \ {0} /\ Len(r) \in Nat /\ queue' \in Seq(S)
            /\ Len(queue') = Len(queue) + Len(r)
        BY <4>1
      <4>3. queue'[1] = queue[1]
        BY <4>1, <4>2
      <4> QED
        BY <4>1, <4>2, <4>3
    <3>3. Turn' = Turn
      BY <1>6
    <3>4. Levels' = Levels
      BY <1>1, Same
    <3>5. /\ Live(Head(queue), inv)' = Live(Head(queue), inv)
          /\ Writes(Head(queue), inv)' = Writes(Head(queue), inv)
      BY <1>1, <3>2, Same DEF Live, Index, Writes, At, Off, Col, K
    <3>6. \A x : Result(inv, x)' = Result(inv, x)
      <4>1. n' = n /\ Mode' = Mode
        BY <1>1, <1>7, Same
      <4>2. /\ Col(Head(queue), inv)' = Col(Head(queue), inv)
            /\ K(Head(queue), inv)' = K(Head(queue), inv)
        BY <3>2 DEF Col, K, Index
      <4> QED
        BY <1>1, <3>3, <4>1, <4>2 DEF Result
    <3> QED
      BY <1>1, <3>1, <3>2, <3>3, <3>4, <3>5, <3>6 DEF LaneHolds
  <2> QED
    BY <1>1, <2>1 DEF LanesHold
<1> QED
  BY <1>8, <1>9, <1>10 DEF Contents

\* What was staged is the sums of the columns.
LEMMA StagedSums ==
    ASSUME IInv, Contents, pc = "sums", queue = << >>
    PROVE  \A j \in Columns : mem["staging"][j] = SumOf(config, j)
<1>1. Busy /\ Stored /\ Mode = 0
  BY DEF Contents, Busy, Mode
<1>2. config \in Configs /\ Levels \in Nat /\ n \in Nat \ {0}
  BY <1>1, BatchFacts
<1>3. Len(queue) = 0
  OBVIOUS
<1>4. Staged
  BY <1>1, <1>2, <1>3 DEF Stored, Turn
<1>5. ASSUME NEW j \in Columns PROVE mem["staging"][j] = SumOf(config, j)
  <2>1. Node(config, 0, j, Levels, 0) = SumOf(config, j)
    BY <1>2, NodeTop
  <2>2. CASE Levels = 0
    <3>1. Node(config, 0, j, 0, 0) = Drawn(j, 0)
      BY <1>2, NodeZero
    <3> QED
      BY <1>4, <2>1, <2>2, <3>1 DEF Staged
  <2>3. CASE Levels # 0
    BY <1>1, <1>4, <2>1, <2>3 DEF Staged
  <2> QED
    BY <2>2, <2>3
<1> QED
  BY <1>5

\* The second reduction starts from the same draws, and from the means.
LEMMA ReadSumsContents == IInv /\ Contents /\ ReadSums => Contents'
<1> SUFFICES ASSUME IInv, Contents, ReadSums PROVE Contents'
  OBVIOUS
<1>1. /\ config' = config /\ queue' = Reduction(1) /\ lanes' = lanes /\ queue = << >>
      /\ pc = "sums" /\ pc' = "squares" /\ config.kind = "gaussian"
      /\ means' = [c \in 0 .. d - 1 |-> MeanOf(mem["staging"][c], n)]
      /\ mem' = [mem EXCEPT !["even"] = Fresh, !["odd"] = Fresh, !["staging"] = Fresh]
  BY DEF ReadSums
<1>2. Busy /\ InOrder /\ Stored /\ LanesHold
  BY <1>1 DEF Contents, Busy
<1>3. config \in Configs /\ Admitted /\ Levels \in Nat /\ lanes = NotBegun
  BY <1>1, <1>2, BatchFacts DEF IInv, LanesOK
<1>4. Reduction(1) \in Seq(Commands(config)) /\ Len(Reduction(1)) = Levels + 1
  BY <1>3, ReductionFits
<1>5. Turn' = 1 /\ Mode' = 1 /\ Len(queue') = Levels + 1
  BY <1>1, <1>3, <1>4, Same DEF Turn, Mode
<1>6. InOrder'
  <2>1. \A i \in 1 .. Len(queue') : 1 + i - 1 = i /\ i # 0 /\ queue'[i] = Reduction(1)[i]
    BY <1>1, <1>3, <1>5
  <2>2. 1 \in 1 .. Levels + 2
    BY <1>3
  <2> QED
    BY <1>1, <1>5, <2>1, <2>2, NextBatch
<1>7. Stored'
  <2>1. Turn = Levels + 2
    BY <1>1, <1>3 DEF Turn
  <2>2. RowsDrawn
    BY <1>2, <1>3, <2>1 DEF Stored
  <2>3. mem'["ensemble"] = mem["ensemble"]
    BY <1>1 DEF IInv, MemOK, Buffers
  <2>4. RowsDrawn'
    BY <1>1, <2>2, <2>3, Same, SameBatch DEF RowsDrawn
  <2>5. \A j \in Columns : means'[j] = MeanOf(SumOf(config, j), n)
    BY <1>1, StagedSums DEF Columns
  <2>6. ~(Turn' \in 2 .. Levels' + 1) /\ Turn' # Levels' + 2
    BY <1>1, <1>3, <1>5, Same
  <2>7. n' = n /\ Columns' = Columns
    BY <1>1, Same, SameBatch
  <2> QED
    BY <1>1, <2>4, <2>5, <2>6, <2>7 DEF Stored
<1>8. LanesHold'
  BY <1>1, <1>3, NotBegunEmpty DEF LanesHold
<1> QED
  BY <1>6, <1>7, <1>8 DEF Contents

\* A run that returns or refuses has no batch.
LEMMA EndContents == Refuse \/ ReturnMean \/ ReturnVariance => Contents'
  BY DEF Refuse, ReturnMean, ReturnVariance, Contents, Busy

\* The invocations of a command start with nothing to show.
LEMMA BeginContents == IInv /\ Contents /\ Begin => Contents'
<1> SUFFICES ASSUME IInv, Contents, Begin, Busy PROVE (InOrder /\ Stored /\ LanesHold)'
  <2>1. Begin => Busy' = Busy
    BY DEF Begin, Busy
  <2> QED
    BY <2>1 DEF Contents
<1>1. /\ config' = config /\ queue' = queue /\ mem' = mem /\ pc' = pc /\ means' = means
      /\ lanes' = [inv \in Invocations(Head(queue).threads) |->
                      [at |-> "ready", result |-> Stale]]
  BY DEF Begin
<1>2. InOrder /\ Stored
  BY DEF Contents
<1>3. InOrder'
  BY <1>1, <1>2, SamePlace
<1>4. Stored'
  BY <1>1, <1>2, StoredStays
<1>5. \A inv \in DOMAIN lanes' : lanes'[inv].at = "ready"
  BY <1>1
<1>6. LanesHold'
  BY <1>5 DEF LanesHold, LaneHolds
<1> QED
  BY <1>3, <1>4, <1>6

\* A step of an invocation: the others have what they had.
LEMMA OthersHold ==
    ASSUME IInv, Contents, Busy, NEW inv \in DOMAIN lanes, NEW other \in DOMAIN lanes,
           other # inv, NEW v, lanes' = [lanes EXCEPT ![inv] = v],
           config' = config, pc' = pc, queue' = queue,
           Live(Head(queue), other) =>
               \A x \in Writes(Head(queue), other) :
                  lanes[other].at = "done" =>
                      \/ mem'[Head(queue).write][x] = mem[Head(queue).write][x]
                      \/ mem'[Head(queue).write][x] = Result(other, x)
    PROVE  LaneHolds(other)'
<1>1. lanes'[other] = lanes[other]
  OBVIOUS
<1>2. Levels' = Levels /\ Turn' = Turn
  BY Same, SamePlace
<1>3. /\ Live(Head(queue), other)' = Live(Head(queue), other)
      /\ Writes(Head(queue), other)' = Writes(Head(queue), other)
      /\ \A x : Result(other, x)' = Result(other, x)
  BY <1>2, SameLane
<1>4. LaneHolds(other)
  BY DEF Contents, LanesHold
<1>5. Head(queue') = Head(queue)
  OBVIOUS
<1>6. lanes'[other].at = "loaded" =>
          /\ Turn' \in 1 .. Levels' /\ Live(Head(queue), other)'
          /\ lanes'[other].result = Result(other, 0)'
  BY <1>1, <1>2, <1>3, <1>4 DEF LaneHolds
<1>7. lanes'[other].at = "done" /\ Live(Head(queue), other)' =>
          \A x \in Writes(Head(queue), other)' :
             mem'[Head(queue').write][x] = Result(other, x)'
  BY <1>1, <1>3, <1>4, <1>5 DEF LaneHolds
<1> QED
  BY <1>6, <1>7 DEF LaneHolds

\* The command that an invocation under way belongs to.
LEMMA LaneCommand ==
    ASSUME IInv, Contents, NEW inv \in DOMAIN lanes
    PROVE  /\ Busy /\ InOrder /\ Stored /\ LanesHold /\ queue # << >>
           /\ Head(queue) \in Commands(config) /\ Head(queue).op # "copy"
           /\ inv \in Invocations(Head(queue).threads)
           /\ DOMAIN lanes = Invocations(Head(queue).threads)
           /\ Turn \in 0 .. Levels /\ Levels \in Nat
<1>1. lanes # NotBegun
  BY NotBegunEmpty
<1>2. /\ queue # << >> /\ Head(queue).op # "copy"
      /\ DOMAIN lanes = Invocations(Head(queue).threads)
  BY <1>1 DEF IInv, LanesOK
<1>3. Busy /\ Head(queue) \in Commands(config)
  BY <1>2, RunningAdmitted DEF Busy
<1>4. InOrder /\ Stored /\ LanesHold
  BY <1>3 DEF Contents
<1>5. Turn \in 0 .. Levels + 1 /\ (Turn = Levels + 1 => Head(queue).op = "copy")
      /\ Levels \in Nat
  BY <1>2, <1>3, <1>4, HeadFacts, BatchFacts
<1>6. Turn \in 0 .. Levels
  BY <1>2, <1>5
<1> QED
  BY <1>2, <1>3, <1>4, <1>5, <1>6

\* An invocation out of range does nothing, and a load only remembers.
LEMMA ReadStepContents ==
    ASSUME IInv, Contents, NEW inv \in DOMAIN lanes, Overshoot(inv) \/ Load(inv)
    PROVE  Contents'
<1>1. /\ config' = config /\ pc' = pc /\ queue' = queue /\ mem' = mem /\ means' = means
      /\ \E v : lanes' = [lanes EXCEPT ![inv] = v]
  BY DEF Overshoot, Load
<1>2. Busy /\ InOrder /\ Stored /\ LanesHold /\ queue # << >> /\ Turn \in 0 .. Levels
  BY LaneCommand
<1>3. InOrder' /\ Stored'
  BY <1>1, <1>2, SamePlace, StoredStays
<1>4. ASSUME NEW other \in DOMAIN lanes, other # inv PROVE LaneHolds(other)'
  BY <1>1, <1>2, <1>4, OthersHold
<1>5. /\ Live(Head(queue), inv)' = Live(Head(queue), inv)
      /\ \A x : Result(inv, x)' = Result(inv, x)
      /\ Levels' = Levels /\ Turn' = Turn
  BY <1>1, Same, SamePlace, SameLane
<1>6. LaneHolds(inv)'
  <2>1. CASE Overshoot(inv)
    <3>1. lanes'[inv].at = "done" /\ ~Live(Head(queue), inv)
      BY <2>1 DEF Overshoot
    <3> QED
      BY <3>1, <1>5 DEF LaneHolds
  <2>2. CASE Load(inv)
    <3>1. /\ lanes'[inv].at = "loaded" /\ lanes'[inv].result = Output(Head(queue), inv)
          /\ Live(Head(queue), inv) /\ Head(queue).op = "collapse"
      BY <2>2 DEF Load
    <3>2. Turn \in 1 .. Levels
      <4>1. Turn # 0
        BY <1>2, <3>1, HeadFacts
      <4> QED
        BY <1>2, <4>1, LaneCommand
    <3>3. lanes'[inv].result = Result(inv, 0)
      BY <1>2, <3>1, <3>2, LaneCommand, OutputIsNode
    <3> QED
      BY <1>5, <3>1, <3>2, <3>3 DEF LaneHolds
  <2> QED
    BY <2>1, <2>2
<1>7. DOMAIN lanes' = DOMAIN lanes
  BY <1>1
<1>8. LanesHold'
  BY <1>4, <1>6, <1>7 DEF LanesHold
<1> QED
  BY <1>3, <1>8 DEF Contents

\* A row of the ensemble.
LEMMA DrawRowContents ==
    ASSUME IInv, Contents, NEW inv \in DOMAIN lanes, DrawRow(inv)
    PROVE  Contents'
<1> DEFINE cmd == Head(queue)
           f == [x \in DOMAIN mem["ensemble"] |->
                    IF x \in Writes(cmd, inv) THEN Drawn(x \div n, x % n)
                    ELSE mem["ensemble"][x]]
<1>1. /\ config' = config /\ pc' = pc /\ queue' = queue /\ means' = means
      /\ lanes' = [lanes EXCEPT ![inv] = [at |-> "done", result |-> Stale]]
      /\ mem' = [mem EXCEPT !["ensemble"] = f]
      /\ cmd.op = "draw" /\ Live(cmd, inv)
  BY DEF DrawRow
<1>2. /\ Busy /\ InOrder /\ Stored /\ LanesHold /\ queue # << >>
      /\ Turn \in 0 .. Levels /\ Levels \in Nat
      /\ cmd \in Commands(config) /\ DOMAIN lanes = Invocations(cmd.threads)
  BY LaneCommand
<1>3. Turn = 0 /\ cmd.write = "ensemble"
  <2>1. ~(Turn \in 1 .. Levels)
    BY <1>1, <1>2, HeadFacts
  <2>2. Turn = 0
    BY <1>2, <2>1
  <2> QED
    BY <1>2, <2>2, HeadFacts
<1>4. config \in Configs /\ Admitted
  BY <1>2, BatchFacts
<1>5. mem'["ensemble"] = f /\ DOMAIN mem["ensemble"] = 0 .. n * d - 1
  <2> HIDE DEF f
  <2> QED
    BY <1>1 DEF IInv, MemOK, Buffers
<1>6. InOrder'
  BY <1>1, <1>2, SamePlace
<1>7. Stored'
  <2>1. Turn' = 0 /\ Levels' = Levels /\ pc' # "squares"
    <3>1. pc # "squares"
      BY <1>2, <1>3 DEF InOrder
    <3> QED
      BY <1>1, <1>3, <3>1, Same, SamePlace
  <2>2. \A L \in Nat : ~(0 >= 1) /\ ~(0 \in 2 .. L + 1) /\ 0 # L + 2
    OBVIOUS
  <2> QED
    BY <1>2, <2>1, <2>2 DEF Stored
<1>8. ASSUME NEW other \in DOMAIN lanes, Live(cmd, other), NEW x \in Writes(cmd, other)
      PROVE  /\ x \in DOMAIN mem["ensemble"]
             /\ f[x] = mem["ensemble"][x] \/ f[x] = Result(other, x)
             /\ other = inv => f[x] = Result(other, x)
  <2>1. x \in DOMAIN mem["ensemble"]
    BY <1>1, <1>2, <1>4, <1>5, <1>8, Inside
  <2>2. Result(other, x) = Drawn(x \div n, x % n)
    BY <1>3 DEF Result
  <2> QED
    BY <1>8, <2>1, <2>2
<1>9. ASSUME NEW other \in DOMAIN lanes, other # inv PROVE LaneHolds(other)'
  <2> HIDE DEF f
  <2>1. Live(cmd, other) =>
           \A x \in Writes(cmd, other) : mem'[cmd.write][x] = mem[cmd.write][x]
                                         \/ mem'[cmd.write][x] = Result(other, x)
    BY <1>3, <1>5, <1>8
  <2> HIDE DEF cmd
  <2> QED
    BY <1>1, <1>2, <1>9, <2>1, OthersHold DEF cmd
<1>10. LaneHolds(inv)'
  <2>1. /\ Writes(cmd, inv)' = Writes(cmd, inv)
        /\ \A x : Result(inv, x)' = Result(inv, x)
    BY <1>1, SamePlace, SameLane
  <2>2. lanes'[inv].at = "done"
    BY <1>1
  <2>3. \A x \in Writes(cmd, inv) : mem'[cmd.write][x] = Result(inv, x)
    <3> HIDE DEF f
    <3> QED
      BY <1>1, <1>3, <1>5, <1>8
  <2>4. Head(queue') = cmd
    BY <1>1
  <2> QED
    BY <2>1, <2>2, <2>3, <2>4 DEF LaneHolds
<1>11. DOMAIN lanes' = DOMAIN lanes
  BY <1>1
<1>12. LanesHold'
  BY <1>9, <1>10, <1>11 DEF LanesHold
<1> QED
  BY <1>6, <1>7, <1>12 DEF Contents

\* A node of the next level.  No other invocation has the element it stores to.
LEMMA StoreContents ==
    ASSUME IInv, Contents, NEW inv \in DOMAIN lanes, Store(inv)
    PROVE  Contents'
<1> DEFINE cmd == Head(queue)
           w == cmd.write
           v == lanes[inv].result
           f == [x \in DOMAIN mem[w] |-> IF x \in Writes(cmd, inv) THEN v ELSE mem[w][x]]
<1>1. /\ config' = config /\ pc' = pc /\ queue' = queue /\ means' = means
      /\ lanes[inv].at = "loaded"
      /\ lanes' = [lanes EXCEPT ![inv] = [at |-> "done", result |-> Stale]]
      /\ mem' = [mem EXCEPT ![w] = f]
  BY DEF Store
<1>2. /\ Busy /\ InOrder /\ Stored /\ LanesHold /\ queue # << >>
      /\ Turn \in 0 .. Levels /\ Levels \in Nat
      /\ cmd \in Commands(config) /\ cmd.op # "copy"
      /\ DOMAIN lanes = Invocations(cmd.threads)
  BY LaneCommand
<1>3. LaneHolds(inv)
  BY <1>2 DEF LanesHold
<1>4. Turn \in 1 .. Levels /\ Live(cmd, inv) /\ v = Result(inv, 0)
  BY <1>1, <1>3 DEF LaneHolds
<1>5. \A x : Result(inv, x) = v
  <2>1. Turn # 0
    BY <1>4
  <2> HIDE DEF v
  <2> QED
    BY <1>4, <2>1 DEF Result
<1>6. w = Target(Turn - 1) /\ Turn - 1 \in Nat
  BY <1>2, <1>4, HeadFacts
<1>7. w # "ensemble" /\ w # Source(Turn - 1)
  <2> HIDE DEF w
  <2> QED
    BY <1>6, BufferFacts
<1>8. config \in Configs /\ Admitted
  BY <1>2, BatchFacts
<1>9. w \in Buffers \ {"staging"} /\ DOMAIN mem = Buffers /\ DOMAIN mem[w] = 0 .. n * d - 1
  BY WritesSized DEF IInv, MemOK
<1>10. mem'[w] = f /\ \A b \in Buffers \ {w} : mem'[b] = mem[b]
  <2> HIDE DEF f, w
  <2> QED
    BY <1>1, <1>9
<1>11. InOrder'
  BY <1>1, <1>2, SamePlace
<1>12. /\ n' = n /\ Levels' = Levels /\ LevelLen' = LevelLen /\ Columns' = Columns
       /\ Turn' = Turn /\ Mode' = Mode
  BY <1>1, Same, SameBatch, SamePlace
<1>13. Stored'
  <2>1. "ensemble" \in Buffers /\ Source(Turn - 1) \in Buffers
    BY DEF Buffers, Source
  <2>2. mem'["ensemble"] = mem["ensemble"] /\ mem'[Source(Turn - 1)] = mem[Source(Turn - 1)]
    <3> HIDE DEF w, f
    <3> QED
      BY <1>7, <1>10, <2>1
  <2>3. RowsDrawn => RowsDrawn'
    BY <1>12, <2>2 DEF RowsDrawn
  <2>4. LevelStored(Turn - 1) => LevelStored(Turn - 1)'
    <3>1. Source(Turn - 1)' = Source(Turn - 1)
      BY <1>12 DEF Source
    <3> QED
      BY <1>1, <1>12, <2>2, <3>1 DEF LevelStored
  <2>5. Turn # Levels + 2
    BY <1>2, <1>4
  <2> QED
    BY <1>1, <1>2, <1>12, <2>3, <2>4, <2>5 DEF Stored
<1>14. ASSUME NEW other \in DOMAIN lanes, Live(cmd, other), NEW x \in Writes(cmd, other)
       PROVE  /\ x \in DOMAIN mem[w]
              /\ other # inv => f[x] = mem[w][x]
              /\ other = inv => f[x] = v
  <2>1. x \in DOMAIN mem[w]
    BY <1>2, <1>8, <1>9, <1>14, Inside
  <2>2. ASSUME other # inv PROVE x \notin Writes(cmd, inv)
    <3>1. {<<cmd.write, y>> : y \in Writes(cmd, other)} \cap Touched(cmd, inv) = {}
      BY <1>2, <1>4, <1>8, <1>14, <2>2, Apart
    <3>2. <<cmd.write, x>> \in {<<cmd.write, y>> : y \in Writes(cmd, other)}
      BY <1>14
    <3>3. x \in Writes(cmd, inv) => <<cmd.write, x>> \in Touched(cmd, inv)
      BY DEF Touched
    <3> QED
      BY <3>1, <3>2, <3>3
  <2> QED
    BY <1>14, <2>1, <2>2
<1>15. ASSUME NEW other \in DOMAIN lanes, other # inv PROVE LaneHolds(other)'
  <2>1. Live(cmd, other) => \A x \in Writes(cmd, other) : mem'[w][x] = mem[w][x]
    <3> HIDE DEF f, w, v
    <3> QED
      BY <1>10, <1>14, <1>15
  <2> HIDE DEF f
  <2> QED
    BY <1>1, <1>2, <1>15, <2>1, OthersHold
<1>16. LaneHolds(inv)'
  <2>1. /\ Writes(cmd, inv)' = Writes(cmd, inv)
        /\ \A x : Result(inv, x)' = Result(inv, x)
    BY <1>1, SamePlace, SameLane
  <2>2. lanes'[inv].at = "done"
    BY <1>1
  <2>3. \A x \in Writes(cmd, inv) : mem'[w][x] = v
    <3> HIDE DEF f, w, v
    <3> QED
      BY <1>4, <1>10, <1>14
  <2>4. Head(queue') = cmd
    BY <1>1
  <2> HIDE DEF v
  <2> QED
    BY <1>5, <2>1, <2>2, <2>3, <2>4 DEF LaneHolds
<1>17. DOMAIN lanes' = DOMAIN lanes
  BY <1>1
<1>18. LanesHold'
  BY <1>15, <1>16, <1>17 DEF LanesHold
<1> QED
  BY <1>11, <1>13, <1>18 DEF Contents

\* When every invocation of the draw has ended, every row is drawn.
LEMMA AllDrawn ==
    ASSUME IInv, Contents, Retire, Turn = 0
    PROVE  RowsDrawn
<1> DEFINE cmd == Head(queue)
<1>1. /\ lanes # NotBegun /\ \A inv \in DOMAIN lanes : lanes[inv].at = "done"
      /\ queue # << >> /\ DOMAIN lanes = Invocations(cmd.threads)
  BY DEF Retire, IInv, LanesOK
<1>2. Busy /\ InOrder /\ LanesHold
  BY <1>1, RunningAdmitted DEF Busy, Contents
<1>3. cmd.op = "draw" /\ cmd.write = "ensemble" /\ cmd.threads = n
  BY <1>1, <1>2, HeadFacts
<1>4. config \in Configs /\ Admitted /\ n \in Nat \ {0} /\ n \in 1 .. U32
  BY <1>2, BatchFacts, InRange
<1>5. ASSUME NEW j \in Columns, NEW i \in 0 .. n - 1
      PROVE  mem["ensemble"][j * n + i] = Drawn(j, i)
  <2>1. PICK inv \in Invocations(n) : LinearIndex(n, inv) = i
    BY <1>4, EveryIndexTaken
  <2>2. inv \in DOMAIN lanes /\ Index(cmd, inv) = i
    BY <1>1, <1>3, <2>1 DEF Index
  <2>3. Live(cmd, inv)
    BY <1>3, <1>4, <2>2 DEF Live
  <2>4. j * n + i \in Writes(cmd, inv)
    <3>1. j \in 0 .. d - 1 /\ (j * n + i) % U32 = j * n + i
      BY <1>4, Offsets DEF Columns
    <3> HIDE DEF cmd
    <3> QED
      BY <1>3, <2>2, <3>1 DEF Writes
  <2>5. mem["ensemble"][j * n + i] = Drawn((j * n + i) \div n, (j * n + i) % n)
    BY <1>1, <1>2, <1>3, <2>2, <2>3, <2>4 DEF LanesHold, LaneHolds, Result
  <2>6. j \in Nat
    BY <1>4, BatchFacts, <1>2 DEF Columns
  <2>7. (j * n + i) \div n = j /\ (j * n + i) % n = i
    BY <1>4, <2>6, QuotientRemainder
  <2> QED
    BY <2>5, <2>7
<1> QED
  BY <1>5 DEF RowsDrawn

\* When every invocation of a level has ended, the level is stored.
LEMMA AllCollapsed ==
    ASSUME IInv, Contents, Retire, Turn \in 1 .. Levels
    PROVE  LevelStored(Turn)
<1> DEFINE cmd == Head(queue)
           o == OutLen(LevelLen[Turn - 1])
<1>1. /\ lanes # NotBegun /\ \A inv \in DOMAIN lanes : lanes[inv].at = "done"
      /\ queue # << >> /\ DOMAIN lanes = Invocations(cmd.threads)
  BY DEF Retire, IInv, LanesOK
<1>2. Busy /\ InOrder /\ LanesHold /\ cmd \in Commands(config)
  BY <1>1, RunningAdmitted DEF Busy, Contents
<1>3. cmd.op = "collapse" /\ cmd.len = LevelLen[Turn - 1] /\ cmd.write = Target(Turn - 1)
  BY <1>1, <1>2, HeadFacts
<1>4. /\ config \in Configs /\ Admitted /\ n \in Nat \ {0} /\ d \in Nat \ {0}
      /\ Levels \in Nat /\ Levels \in 0 .. MaxN /\ MaxN \in Nat
      /\ \A i \in 0 .. Levels : LevelLen[i] \in 1 .. n
  BY <1>2, BatchFacts, BoundsAssumption
<1>5. LevelLen[Turn] = o /\ Turn - 1 \in Nat
  <2>1. Turn \in 1 .. MaxN
    BY <1>4
  <2> QED
    BY <1>4, <2>1, LevelLenUnfolds
<1>6. cmd.threads = o * d /\ cmd.threads \in 1 .. n * d
  <2>1. cmd.threads = OutLen(cmd.len) * d /\ cmd.threads \in 1 .. n * d
    BY <1>2, <1>3 DEF Commands, n, d
  <2> QED
    BY <1>3, <2>1
<1>7. cmd.threads \in 1 .. U32 /\ U32 \in Nat
  BY <1>4, <1>6, InRange
<1>8. o \in 1 .. n
  <2>1. Turn \in 0 .. Levels
    BY <1>4
  <2> QED
    BY <1>4, <1>5, <2>1
<1>9. Target(Turn - 1) = Source(Turn)
  <2>1. (Turn - 1) + 1 = Turn
    BY <1>4
  <2> QED
    BY <1>5, <2>1, BufferFacts
<1>10. ASSUME NEW j \in Columns, NEW i \in 0 .. o - 1
       PROVE  mem[Source(Turn)][j * n + i] = Node(config, Mode, j, Turn, i)
  <2> DEFINE x == j * o + i
  <2>1. x \in 0 .. cmd.threads - 1 /\ j \in Nat /\ j \in 0 .. d - 1
    <3>1. j \in Nat /\ j <= d - 1 /\ j \in 0 .. d - 1
      BY <1>4 DEF Columns
    <3> HIDE DEF cmd, o
    <3>2. j * o <= (d - 1) * o /\ (d - 1) * o = o * d - o
      BY <1>4, <1>8, <3>1, Monotone
    <3>3. j * o \in Nat /\ o * d \in Nat
      BY <1>4, <1>8, <3>1
    <3> DEFINE p == j * o
               q == o * d
    <3> HIDE DEF p, q
    <3>4. p \in Nat /\ q \in Nat /\ p <= q - o /\ o \in 1 .. n /\ n \in Nat
      BY <1>4, <1>8, <3>1, <3>2, <3>3 DEF p, q
    <3>5. p + i \in 0 .. q - 1
      BY <3>4
    <3> QED
      BY <1>6, <3>1, <3>5 DEF p, q
  <2> HIDE DEF x
  <2>2. PICK inv \in Invocations(cmd.threads) : LinearIndex(cmd.threads, inv) = x
    BY <1>7, <2>1, EveryIndexTaken
  <2>3. inv \in DOMAIN lanes /\ Index(cmd, inv) = x
    BY <1>1, <2>2 DEF Index
  <2>4. Live(cmd, inv)
    BY <1>7, <2>1, <2>3 DEF Live
  <2> DEFINE b == Col(cmd, inv)
             k == K(cmd, inv)
  <2>5. /\ b \in 0 .. d - 1 /\ k \in 0 .. o - 1 /\ x = b * o + k
        /\ \A y \in 0 .. n - 1 : At(cmd, inv, y) = b * n + y
    BY <1>2, <1>3, <1>4, <2>2, <2>3, <2>4, CollapseLane
  <2>6. b = j /\ k = i
    <3> HIDE DEF b, k, o
    <3>1. b \in Nat /\ o \in Nat \ {0}
      BY <1>4, <1>8, <2>5
    <3>2. j * o + i = b * o + k
      BY <2>5 DEF x
    <3> QED
      BY <2>1, <2>5, <3>1, <3>2, Digits
  <2>7. j * n + i \in Writes(cmd, inv)
    <3>1. Writes(cmd, inv) = {At(cmd, inv, k)}
      BY <1>3 DEF Writes
    <3> HIDE DEF b, k, o
    <3>2. i \in 0 .. n - 1
      BY <1>4, <1>8
    <3> QED
      BY <2>5, <2>6, <3>1, <3>2
  <2>8. mem[cmd.write][j * n + i] = Result(inv, j * n + i)
    BY <1>1, <1>2, <2>3, <2>4, <2>7 DEF LanesHold, LaneHolds
  <2>9. Result(inv, j * n + i) = Node(config, Mode, b, Turn, k)
    <3>1. Turn # 0
      BY <1>4
    <3> QED
      BY <3>1 DEF Result
  <2> HIDE DEF b, k, cmd
  <2> QED
    BY <1>3, <1>9, <2>6, <2>8, <2>9
<1> QED
  BY <1>5, <1>10 DEF LevelStored

\* The next command's turn.
LEMMA NextTurn ==
    ASSUME IInv, Busy, InOrder, queue # << >>, queue' = Tail(queue),
           config' = config, pc' = pc
    PROVE  Turn' = Turn + 1 /\ Mode' = Mode /\ InOrder'
<1>1. /\ queue \in Seq(Commands(config)) /\ Len(queue) \in Nat \ {0}
      /\ Len(queue') = Len(queue) - 1 /\ Levels \in Nat /\ Turn \in 0 .. Levels + 1
  BY BatchFacts, HeadTail, HeadFacts
<1>2. Levels' = Levels /\ Mode' = Mode
  BY Same DEF Mode
<1>3. Turn' = Turn + 1
  BY <1>1, <1>2 DEF Turn
<1>4. ASSUME NEW i \in 1 .. Len(queue')
      PROVE  queue'[i] = IF (Turn + 1) + i - 1 = 0 THEN DrawAll
                         ELSE Reduction(Mode)[(Turn + 1) + i - 1]
  <2>1. i \in Nat \ {0} /\ i + 1 \in 1 .. Len(queue)
    BY <1>1
  <2>2. queue'[i] = queue[i + 1]
    BY <1>1
  <2>3. queue[i + 1] = CommandAt(Turn + (i + 1) - 1)
    BY <2>1 DEF InOrder
  <2>4. Turn + (i + 1) - 1 = (Turn + 1) + i - 1
    BY <1>1, <2>1
  <2> QED
    BY <2>2, <2>3, <2>4 DEF CommandAt
<1>5. Turn + 1 \in (IF pc = "squares" THEN 1 ELSE 0) .. Levels + 2
  BY <1>1
<1>6. InOrder'
  BY <1>2, <1>3, <1>4, <1>5, NextBatch
<1> QED
  BY <1>2, <1>3, <1>6

\* A level that is stored stays so while the buffers and the batch do.
LEMMA LevelAfter ==
    ASSUME NEW t, Turn' - 1 = t, LevelStored(t),
           config' = config, Mode' = Mode, mem' = mem, n' = n,
           LevelLen' = LevelLen, Columns' = Columns
    PROVE  LevelStored(Turn - 1)'
<1>1. \A j \in Columns, i \in 0 .. LevelLen[t] - 1 :
         mem[Source(t)][j * n + i] = Node(config, Mode, j, t, i)
  BY DEF LevelStored
<1>2. \A j \in Columns', i \in 0 .. LevelLen'[t] - 1 :
         mem'[Source(t)][j * n' + i] = Node(config', Mode', j, t, i)
  BY <1>1
<1> QED
  BY <1>2 DEF LevelStored

\* A command that ends leaves what the next one starts from.
LEMMA RetireContents == IInv /\ Contents /\ Retire => Contents'
<1> SUFFICES ASSUME IInv, Contents, Retire PROVE Contents'
  OBVIOUS
<1>1. /\ config' = config /\ pc' = pc /\ mem' = mem /\ means' = means
      /\ queue' = Tail(queue) /\ lanes # NotBegun /\ lanes' = NotBegun
  BY DEF Retire
<1>2. queue # << >> /\ Head(queue).op # "copy"
  BY <1>1 DEF IInv, LanesOK
<1>3. Busy /\ InOrder /\ Stored
  BY <1>2, RunningAdmitted DEF Busy, Contents
<1>4. Turn \in 0 .. Levels /\ Levels \in Nat
  <2>1. Turn \in 0 .. Levels + 1 /\ (Turn = Levels + 1 => Head(queue).op = "copy")
    BY <1>2, <1>3, HeadFacts
  <2>2. Levels \in Nat
    BY <1>3, BatchFacts
  <2> QED
    BY <1>2, <2>1, <2>2
<1>5. Turn' = Turn + 1 /\ Mode' = Mode /\ InOrder'
  BY <1>1, <1>2, <1>3, NextTurn
<1>6. n' = n /\ Levels' = Levels /\ LevelLen' = LevelLen /\ Columns' = Columns
  BY <1>1, Same, SameBatch
<1>7. RowsDrawn
  <2>1. CASE Turn = 0
    BY <2>1, AllDrawn
  <2>2. CASE Turn # 0
    <3>1. Turn >= 1
      BY <1>4, <2>2
    <3> QED
      BY <1>3, <3>1 DEF Stored
  <2> QED
    BY <2>1, <2>2
<1>8. RowsDrawn'
  BY <1>1, <1>6, <1>7 DEF RowsDrawn
<1>9. ASSUME Turn \in 1 .. Levels PROVE LevelStored(Turn - 1)'
  <2>1. LevelStored(Turn)
    BY <1>9, AllCollapsed
  <2>2. Turn' - 1 = Turn
    BY <1>4, <1>5
  <2> QED
    BY <1>1, <1>6, <1>5, <2>1, <2>2, LevelAfter
<1>10. Stored'
  <2>1. (Turn \in 2 .. Levels + 1)' => Turn \in 1 .. Levels
    BY <1>4, <1>5, <1>6
  <2>2. (Turn # Levels + 2)'
    BY <1>4, <1>5, <1>6
  <2>3. pc' = "squares" =>
           /\ config'.kind = "gaussian"
           /\ \A j \in Columns' : means'[j] = MeanOf(SumOf(config', j), n')
    BY <1>1, <1>3, <1>6 DEF Stored
  <2> QED
    BY <1>8, <1>9, <2>1, <2>2, <2>3 DEF Stored
<1>11. LanesHold'
  BY <1>1, NotBegunEmpty DEF LanesHold, NotBegun
<1> QED
  BY <1>5, <1>10, <1>11 DEF Contents

\* The copy takes the first element of every column, its total.
LEMMA CopyContents == IInv /\ Contents /\ CopyToStaging => Contents'
<1> SUFFICES ASSUME IInv, Contents, CopyToStaging PROVE Contents'
  OBVIOUS
<1> DEFINE b == Head(queue).read
           f == [c \in 0 .. d - 1 |-> mem[b][c * n]]
<1>1. /\ config' = config /\ pc' = pc /\ lanes' = lanes /\ means' = means
      /\ queue' = Tail(queue) /\ queue # << >> /\ Head(queue).op = "copy"
      /\ mem' = [mem EXCEPT !["staging"] = f]
  BY DEF CopyToStaging
<1>2. lanes = NotBegun
  BY <1>1 DEF IInv, LanesOK
<1>3. Busy /\ InOrder /\ Stored
  BY <1>1, RunningAdmitted DEF Busy, Contents
<1>4. /\ config \in Configs /\ Levels \in Nat /\ n \in Nat \ {0} /\ d \in Nat \ {0}
      /\ LevelLen[Levels] = 1
  BY <1>3, BatchFacts, LevelsEnd
<1>5. Turn = Levels + 1 /\ b = Source(Levels)
  <2>1. /\ Turn \in 0 .. Levels + 1 /\ (Turn = 0 => Head(queue).op = "draw")
        /\ (Turn \in 1 .. Levels => Head(queue).op = "collapse")
        /\ (Turn = Levels + 1 => b = Source(Levels))
    BY <1>1, <1>3, HeadFacts
  <2> HIDE DEF b
  <2> QED
    BY <1>1, <1>4, <2>1
<1>6. Turn' = Turn + 1 /\ Mode' = Mode /\ InOrder'
  BY <1>1, <1>3, NextTurn
<1>7. n' = n /\ Levels' = Levels /\ Columns' = Columns
  BY <1>1, Same, SameBatch
<1>8. mem'["staging"] = f /\ mem'["ensemble"] = mem["ensemble"]
  <2> HIDE DEF f
  <2> QED
    BY <1>1 DEF IInv, MemOK, Buffers
<1>9. RowsDrawn /\ RowsDrawn'
  <2>1. RowsDrawn
    BY <1>3, <1>4, <1>5 DEF Stored
  <2> QED
    BY <1>1, <1>7, <1>8, <2>1 DEF RowsDrawn
<1>10. ASSUME NEW j \in Columns
       PROVE  f[j] = IF Levels = 0 THEN Drawn(j, 0) ELSE Node(config, Mode, j, Levels, 0)
  <2>1. f[j] = mem[b][j * n] /\ j \in Nat /\ j * n + 0 = j * n
    BY <1>4 DEF Columns
  <2> HIDE DEF f, b
  <2>2. CASE Levels = 0
    <3>1. b = "ensemble" /\ 0 \in 0 .. n - 1
      BY <1>4, <1>5, <2>2 DEF Source
    <3>2. mem["ensemble"][j * n + 0] = Drawn(j, 0)
      BY <1>9, <3>1 DEF RowsDrawn
    <3> QED
      BY <2>1, <2>2, <3>1, <3>2
  <2>3. CASE Levels # 0
    <3>1. Turn \in 2 .. Levels + 1 /\ Turn - 1 = Levels
      BY <1>4, <1>5, <2>3
    <3>2. LevelStored(Levels)
      BY <1>3, <3>1 DEF Stored
    <3>3. 0 \in 0 .. LevelLen[Levels] - 1
      BY <1>4
    <3>4. mem[Source(Levels)][j * n + 0] = Node(config, Mode, j, Levels, 0)
      BY <3>2, <3>3 DEF LevelStored
    <3> QED
      BY <1>5, <2>1, <2>3, <3>4
  <2> QED
    BY <2>2, <2>3
<1> HIDE DEF f, b
<1>11. Staged'
  BY <1>1, <1>6, <1>7, <1>8, <1>10 DEF Staged
<1>12. Stored'
  <2>1. Turn' = Levels' + 2 /\ ~(Turn' \in 2 .. Levels' + 1)
    BY <1>4, <1>5, <1>6, <1>7
  <2>2. pc' = "squares" =>
           /\ config'.kind = "gaussian"
           /\ \A j \in Columns' : means'[j] = MeanOf(SumOf(config', j), n')
    BY <1>1, <1>3, <1>7 DEF Stored
  <2> QED
    BY <1>9, <1>11, <2>1, <2>2 DEF Stored
<1>13. LanesHold'
  BY <1>1, <1>2, NotBegunEmpty DEF LanesHold, NotBegun
<1> QED
  BY <1>6, <1>12, <1>13 DEF Contents

\* A step that changes nothing.
LEMMA StutterContents == Contents /\ UNCHANGED vars => Contents'
<1> SUFFICES ASSUME Contents, UNCHANGED vars, Busy' PROVE (InOrder /\ Stored /\ LanesHold)'
  BY DEF Contents
<1>1. /\ config' = config /\ pc' = pc /\ lanes' = lanes /\ queue' = queue /\ mem' = mem
      /\ means' = means
  BY DEF vars
<1>2. InOrder /\ Stored /\ LanesHold
  BY <1>1 DEF Contents, Busy
<1>3. Levels' = Levels /\ Turn' = Turn
  BY <1>1, Same, SamePlace
<1>4. ASSUME NEW inv \in DOMAIN lanes PROVE LaneHolds(inv)'
  <2>1. /\ Live(Head(queue), inv)' = Live(Head(queue), inv)
        /\ Writes(Head(queue), inv)' = Writes(Head(queue), inv)
        /\ \A x : Result(inv, x)' = Result(inv, x)
    BY <1>1, <1>3, SameLane
  <2> QED
    BY <1>1, <1>2, <1>3, <2>1 DEF LanesHold, LaneHolds
<1>5. LanesHold'
  BY <1>1, <1>4 DEF LanesHold
<1> QED
  BY <1>1, <1>2, <1>5, SamePlace, StoredStays

\* Every step keeps the contents.
LEMMA NextContents == IInv /\ Contents /\ [Next]_vars => Contents'
<1> SUFFICES ASSUME IInv, Contents, [Next]_vars PROVE Contents'
  OBVIOUS
<1>1. CASE Host
  BY <1>1, SubmitDrawContents, SubmitSumsContents, ReadSumsContents, EndContents DEF Host
<1>2. CASE Device
  <2>1. CASE Begin
    <3>1. Busy' = Busy
      BY <2>1 DEF Begin, Busy
    <3> QED
      BY <2>1, BeginContents
  <2>2. CASE Retire \/ CopyToStaging
    BY <2>2, RetireContents, CopyContents
  <2>3. CASE \E inv \in DOMAIN lanes :
                 Overshoot(inv) \/ DrawRow(inv) \/ Load(inv) \/ Store(inv)
    BY <2>3, ReadStepContents, DrawRowContents, StoreContents
  <2> QED
    BY <1>2, <2>1, <2>2, <2>3 DEF Device
<1>3. CASE Ended \/ UNCHANGED vars
  BY <1>3, StutterContents DEF Ended
<1> QED
  BY <1>1, <1>2, <1>3 DEF Next

\* Together with the first invariant they hold in every state.
LEMMA ContentsAlways == Spec => [](IInv /\ Contents)
<1>1. Init => Contents
  BY DEF Init, Contents, Busy
<1> QED
  BY <1>1, InitIInv, NextIInv, NextContents, PTL DEF Spec

-----------------------------------------------------------------------------
(* The refinement.                                                         *)

\* The totals of the second reduction, centred on the host if there was no level.
LEMMA CentredSquares ==
    ASSUME IInv, Contents, pc = "squares", queue = << >>
    PROVE  \A j \in Columns : Centred(j) = SquaresOf(config, j)
<1>1. Busy /\ Stored /\ Mode = 1
  BY DEF Contents, Busy, Mode
<1>2. config \in Configs /\ Levels \in Nat /\ n \in Nat \ {0}
  BY <1>1, BatchFacts
<1>3. Staged
  <2>1. Len(queue) = 0
    OBVIOUS
  <2> QED
    BY <1>1, <1>2, <2>1 DEF Stored, Turn
<1>4. ASSUME NEW j \in Columns PROVE Centred(j) = SquaresOf(config, j)
  <2>1. Node(config, 1, j, Levels, 0) = SquaresOf(config, j)
    BY <1>2, NodeTop
  <2>2. CASE Levels = 0
    <3>1. Node(config, 1, j, 0, 0) =
             LET dv == Sub(Drawn(j, 0), MeanOf(SumOf(config, j), n)) IN Mul(dv, dv)
      BY <1>2, NodeZero
    <3>2. mem["staging"][j] = Drawn(j, 0) /\ means[j] = MeanOf(SumOf(config, j), n)
      BY <1>1, <1>3, <2>2 DEF Staged, Stored
    <3> QED
      BY <2>1, <2>2, <3>1, <3>2 DEF Centred
  <2>3. CASE Levels # 0
    BY <1>1, <1>3, <2>1, <2>3 DEF Staged, Centred
  <2> QED
    BY <2>2, <2>3
<1> QED
  BY <1>4

\* For every n and d, every grid and workgroup size, and every order in which the
\* device runs the invocations: Context::evaluate returns the one value of its
\* config, the host's reduction tree over the draws, column by column, or refuses
\* it.  Neither the ping-pong of the buffers nor the second reduction shows.
THEOREM EstimateImplementsEnsemble == Spec => ImplementsEnsemble
<1>1. Init => Reference!Init
  BY DEF Init, Reference!Init
<1>2. IInv /\ Contents /\ [Next]_vars => [Reference!Next]_(Reference!vars)
  <2> SUFFICES ASSUME IInv, Contents, [Next]_vars
               PROVE  Reference!Next \/ UNCHANGED Reference!vars
    OBVIOUS
  <2>1. config \in Configs /\ n = config.n /\ d = config.d /\ Fits(config) = Admitted
    BY DEF IInv, n, d, Fits, Admitted
  <2>2. CASE Refuse
    BY <2>1, <2>2 DEF Refuse, Reference!Next, Reference!Fail
  <2>3. CASE SubmitDraw \/ SubmitSums \/ ReadSums
    BY <2>3 DEF SubmitDraw, SubmitSums, ReadSums, Reference!vars
  <2>4. CASE ReturnMean
    <3>1. /\ pc = "sums" /\ queue = << >> /\ config.kind = "scalar" /\ pc' = "done"
          /\ config' = config /\ value' = Accumulate(Zero, mem["staging"][0], n)
      BY <2>4 DEF ReturnMean
    <3>2. 0 \in Columns
      BY <2>1, Sizes DEF Columns
    <3>3. mem["staging"][0] = SumOf(config, 0)
      BY <3>1, <3>2, StagedSums
    <3>4. value' = ValueOf(config)
      BY <2>1, <3>1, <3>3 DEF ValueOf
    <3>5. Admitted
      BY <3>1 DEF IInv, QueueOK
    <3> QED
      BY <2>1, <3>1, <3>4, <3>5 DEF Reference!Next, Reference!Return
  <2>5. CASE ReturnVariance
    <3>1. /\ pc = "squares" /\ queue = << >> /\ pc' = "done" /\ config' = config
      BY <2>5 DEF ReturnVariance
    <3>2. config.kind = "gaussian"
      BY <3>1 DEF Contents, Busy, Stored
    <3>3. \A j \in 0 .. d - 1 : Centred(j) = SquaresOf(config, j)
      BY <3>1, CentredSquares DEF Columns
    <3>4. value' = ValueOf(config)
      BY <2>1, <2>5, <3>2, <3>3, VarianceIsValue
    <3>5. Admitted
      BY <3>1 DEF IInv, QueueOK
    <3> QED
      BY <2>1, <3>1, <3>4, <3>5 DEF Reference!Next, Reference!Return
  <2>6. CASE Device
    <3>1. UNCHANGED <<config, pc, value>>
      BY <2>6 DEF Device, Begin, Retire, CopyToStaging, Overshoot, DrawRow, Load, Store
    <3> QED
      BY <3>1 DEF Reference!vars
  <2>7. CASE Ended \/ UNCHANGED vars
    BY <2>7 DEF Ended, vars, Reference!vars
  <2> QED
    BY <2>2, <2>3, <2>4, <2>5, <2>6, <2>7 DEF Next, Host
<1> QED
  BY <1>1, <1>2, ContentsAlways, PTL DEF Spec, ImplementsEnsemble, Reference!Spec
=============================================================================
