------------------------- MODULE HostReductionProof -------------------------
(***************************************************************************)
(* HostReduction implements TreeReduction for vectors of every length, on  *)
(* every vector path, for every addition.                                  *)
(***************************************************************************)
EXTENDS HostReduction, FiniteSets, FiniteSetTheorems, WellFoundedInduction, TLAPS

\* The length of the scratch buffer while a call uses it.
BufLen == IF kernel = "sum" THEN n ELSE (n + 1) \div 2

\* start is the vector the call reduces: nothing has been added yet.
StartIsInput == start = [i \in 0 .. len - 1 |-> Leaf(kernel, i)]

\* The outputs of the level computed so far.
Computed == \A i \in 0 .. k - 1 : buf[i] = Add(start[2 * i], start[2 * i + 1])

\* The inductive invariant.  A level in place has written its first k outputs
\* over its first k operands and left every other operand as it was; a fused
\* level has written its first k outputs and reads operands it computes.
IInv ==
    /\ TypeOK
    /\ pc = "entry" => len = n /\ StartIsInput
    /\ pc \in {"fused", "loop", "collapse"} =>
          /\ n > 1
          /\ DOMAIN buf = 0 .. BufLen - 1
    /\ pc = "fused" => len = n /\ kernel # "sum" /\ StartIsInput /\ Computed
    /\ pc = "loop" => len \in 1 .. BufLen /\ \A i \in 0 .. len - 1 : buf[i] = start[i]
    /\ pc = "collapse" =>
          /\ len \in 2 .. BufLen
          /\ Computed
          /\ \A i \in k .. len - 1 : buf[i] = start[i]

-----------------------------------------------------------------------------
(* The vector units put the sum of pair j in lane j.                       *)

\* vpaddq_f64 needs no permutation: lane j is the sum of pair j.
LEMMA NeonLanes ==
    ASSUME path = "neon", NEW j \in 0 .. 1, k \in Nat
    PROVE  Stored[j] = Add(Operand(2 * (k + j)), Operand(2 * (k + j) + 1))
<1>1. CASE j = 0
  BY <1>1 DEF Stored, Vpaddq, Load
<1>2. CASE j = 1
  BY <1>2 DEF Stored, Vpaddq, Load
<1> QED
  BY <1>1, <1>2

\* The selector 0b11_01_10_00 undoes the interleaving of _mm256_hadd_pd.
LEMMA Avx2Lanes ==
    ASSUME path = "avx2", NEW j \in 0 .. 3, k \in Nat
    PROVE  Stored[j] = Add(Operand(2 * (k + j)), Operand(2 * (k + j) + 1))
<1> DEFINE a == Load(2 * k, 4)
           b == Load(2 * k + 4, 4)
           h == HaddPd(a, b)
<1>1. Stored = [i \in 0 .. 3 |-> h[Selected(DEINTERLEAVE, i)]]
  BY DEF Stored, Permute4x64
<1>2. /\ Selected(DEINTERLEAVE, 0) = 0
      /\ Selected(DEINTERLEAVE, 1) = 2
      /\ Selected(DEINTERLEAVE, 2) = 1
      /\ Selected(DEINTERLEAVE, 3) = 3
  BY DEF Selected, DEINTERLEAVE
<1>3. /\ h[0] = Add(a[0], a[1])
      /\ h[1] = Add(b[0], b[1])
      /\ h[2] = Add(a[2], a[3])
      /\ h[3] = Add(b[2], b[3])
  BY DEF HaddPd
<1>4. \A i \in 0 .. 3 : a[i] = Operand(2 * k + i) /\ b[i] = Operand(2 * k + 4 + i)
  BY DEF Load
<1> HIDE DEF a, b, h
<1>5. CASE j = 0
  BY <1>1, <1>2, <1>3, <1>4, <1>5
<1>6. CASE j = 1
  BY <1>1, <1>2, <1>3, <1>4, <1>6
<1>7. CASE j = 2
  BY <1>1, <1>2, <1>3, <1>4, <1>7
<1>8. CASE j = 3
  BY <1>1, <1>2, <1>3, <1>4, <1>8
<1> QED
  BY <1>5, <1>6, <1>7, <1>8

-----------------------------------------------------------------------------
(* The invariant is inductive.                                             *)

LEMMA IndexedInit == Init => IInv
<1> SUFFICES ASSUME Init PROVE IInv
  OBVIOUS
<1>1. path \in Paths
  BY DEF Init, ActiveBackend, Paths
<1>2. MaxLen + 1 \in 0 .. MaxLen + 1 /\ buf = [i \in 0 .. (MaxLen + 1) - 1 |-> buf[i]]
  BY MaxLenAssumption DEF Init
<1> QED
  BY <1>1, <1>2, MaxLenAssumption DEF Init, IInv, TypeOK, Kernels, Collapsing

\* While a level is collapsed its outputs fit the scratch buffer.
LEMMA LevelFits ==
    ASSUME IInv, Collapsing
    PROVE  /\ len \in Nat /\ len > 1
           /\ Half \in Nat /\ Half >= 1 /\ 2 * Half <= len
           /\ k \in 0 .. Half
           /\ BufLen \in Nat /\ DOMAIN buf = 0 .. BufLen - 1
           /\ (len + 1) \div 2 <= BufLen
           /\ Computed
           /\ \A i \in 2 * k .. len - 1 : Operand(i) = start[i]
<1>1. /\ n \in Nat /\ n > 1
      /\ len \in Nat
      /\ k \in Nat /\ k <= Half
      /\ DOMAIN buf = 0 .. BufLen - 1
  BY MaxLenAssumption DEF IInv, TypeOK, Collapsing
<1>2. BufLen \in Nat
  BY <1>1 DEF BufLen
<1>3. len > 1 /\ (len + 1) \div 2 <= BufLen /\ Computed
  <2>1. CASE pc = "fused"
    BY <1>1, <2>1 DEF IInv, BufLen
  <2>2. CASE pc = "collapse"
    <3>1. len \in 2 .. BufLen /\ Computed
      BY <2>2 DEF IInv
    <3> QED
      BY <1>1, <1>2, <3>1
  <2> QED
    BY <2>1, <2>2 DEF Collapsing
<1>4. Half \in Nat /\ Half >= 1 /\ 2 * Half <= len
  BY <1>1, <1>3 DEF Half
<1>5. ASSUME NEW i \in 2 * k .. len - 1
      PROVE  Operand(i) = start[i]
  <2>1. i \in 0 .. len - 1 /\ i \in k .. len - 1
    BY <1>1, <1>5
  <2>2. CASE pc = "fused"
    BY <2>1, <2>2 DEF IInv, Operand, StartIsInput
  <2>3. CASE pc = "collapse"
    BY <2>1, <2>3 DEF IInv, Operand
  <2> QED
    BY <2>2, <2>3 DEF Collapsing
<1> QED
  BY <1>1, <1>2, <1>3, <1>4, <1>5

\* A vector iteration computes the next LANES outputs of the level.
LEMMA VectorOutputs ==
    ASSUME IInv, VectorStep
    PROVE  /\ k' \in k .. Half
           /\ DOMAIN buf' = DOMAIN buf
           /\ buf' = [i \in DOMAIN buf |-> buf'[i]]
           /\ \A i \in DOMAIN buf : i >= k' => buf'[i] = buf[i]
           /\ \A i \in 0 .. k' - 1 : buf'[i] = Add(start[2 * i], start[2 * i + 1])
<1> DEFINE w == Lanes(path)
<1> USE LevelFits DEF VectorStep
<1>1. /\ w \in {2, 4}
      /\ path = "neon" \/ path = "avx2"
      /\ path = "neon" => w = 2
      /\ path = "avx2" => w = 4
      /\ k + w <= Half
  BY DEF IInv, TypeOK, VectorFits, Lanes, Paths
<1>2. len \in Nat /\ k \in Nat /\ Half \in Nat /\ 2 * Half <= len
  OBVIOUS
<1>3. DOMAIN buf = 0 .. BufLen - 1 /\ Half <= BufLen /\ BufLen \in Nat
  BY DEF Half
<1> HIDE LevelFits DEF w, VectorStep
<1>4. buf' = [i \in DOMAIN buf |->
                 IF i \in k .. k + w - 1 THEN Stored[i - k] ELSE buf[i]]
  BY DEF VectorStep, w
<1>5. \A j \in 0 .. w - 1 :
         Stored[j] = Add(Operand(2 * (k + j)), Operand(2 * (k + j) + 1))
  BY <1>1, <1>2, NeonLanes, Avx2Lanes
<1>6. \A i \in 2 * k .. len - 1 : Operand(i) = start[i]
  BY LevelFits DEF VectorStep
<1>7. ASSUME NEW i \in 0 .. k + w - 1
      PROVE  buf'[i] = Add(start[2 * i], start[2 * i + 1])
  <2>1. i \in DOMAIN buf
    BY <1>1, <1>2, <1>3
  <2>2. CASE i < k
    <3>1. buf'[i] = buf[i]
      BY <1>1, <1>2, <1>4, <2>1, <2>2
    <3>2. Computed
      BY LevelFits DEF VectorStep
    <3> QED
      BY <1>1, <1>2, <2>2, <3>1, <3>2 DEF Computed
  <2>3. CASE i >= k
    <3>1. PICK j \in 0 .. w - 1 : i = k + j
      BY <1>1, <1>2, <2>3
    <3>2. buf'[i] = Stored[j]
      BY <1>1, <1>2, <1>4, <2>1, <3>1
    <3>3. 2 * i \in 2 * k .. len - 1 /\ 2 * i + 1 \in 2 * k .. len - 1
      BY <1>1, <1>2, <2>3
    <3>4. Stored[j] = Add(Operand(2 * i), Operand(2 * i + 1))
      BY <1>5, <3>1
    <3> QED
      BY <1>6, <3>2, <3>3, <3>4
  <2> QED
    BY <1>1, <1>2, <2>2, <2>3
<1>8. \A i \in DOMAIN buf : i >= k + w => buf'[i] = buf[i]
  BY <1>1, <1>2, <1>3, <1>4
<1>9. DOMAIN buf' = DOMAIN buf /\ buf' = [i \in DOMAIN buf |-> buf'[i]]
  BY <1>4
<1>10. k' = k + w
  BY DEF VectorStep, w
<1>11. k' \in k .. Half
  BY <1>1, <1>2, <1>10
<1>12. \A i \in DOMAIN buf : i >= k' => buf'[i] = buf[i]
  BY <1>8, <1>10
<1>13. \A i \in 0 .. k' - 1 : buf'[i] = Add(start[2 * i], start[2 * i + 1])
  BY <1>1, <1>2, <1>7, <1>10
<1> QED
  BY <1>9, <1>11, <1>12, <1>13

\* A scalar iteration computes the next output of the level.
LEMMA ScalarOutputs ==
    ASSUME IInv, ScalarStep
    PROVE  /\ k + 1 \in 0 .. Half
           /\ DOMAIN buf' = DOMAIN buf
           /\ buf' = [i \in DOMAIN buf |-> buf'[i]]
           /\ \A i \in DOMAIN buf : i >= k + 1 => buf'[i] = buf[i]
           /\ \A i \in 0 .. k : buf'[i] = Add(start[2 * i], start[2 * i + 1])
<1>1. k \in Nat /\ len \in Nat /\ Half \in Nat /\ k < Half /\ 2 * Half <= len
  BY LevelFits DEF ScalarStep
<1>2. DOMAIN buf = 0 .. BufLen - 1 /\ Half <= BufLen /\ BufLen \in Nat
  BY LevelFits DEF ScalarStep, Half
<1>3. buf' = [buf EXCEPT ![k] = Add(Operand(2 * k), Operand(2 * k + 1))]
  BY DEF ScalarStep
<1>4. Operand(2 * k) = start[2 * k] /\ Operand(2 * k + 1) = start[2 * k + 1]
  BY <1>1, LevelFits DEF ScalarStep
<1>5. buf = [i \in DOMAIN buf |-> buf[i]]
  BY DEF IInv, TypeOK
<1>6. Computed
  BY LevelFits DEF ScalarStep
<1>7. buf'[k] = Add(start[2 * k], start[2 * k + 1])
  BY <1>1, <1>2, <1>3, <1>4
<1>8. \A i \in DOMAIN buf : i # k => buf'[i] = buf[i]
  BY <1>3
<1>9. \A i \in 0 .. k : buf'[i] = Add(start[2 * i], start[2 * i + 1])
  <2>1. \A i \in 0 .. k - 1 : buf'[i] = buf[i]
    BY <1>1, <1>2, <1>8
  <2>2. \A i \in 0 .. k - 1 : buf[i] = Add(start[2 * i], start[2 * i + 1])
    BY <1>6 DEF Computed
  <2>3. \A i \in 0 .. k : i = k \/ i \in 0 .. k - 1
    BY <1>1
  <2> QED
    BY <1>7, <2>1, <2>2, <2>3
<1>10. DOMAIN buf' = DOMAIN buf /\ buf' = [i \in DOMAIN buf |-> buf'[i]]
  BY <1>3, <1>5
<1> QED
  BY <1>1, <1>2, <1>8, <1>9, <1>10

\* The carry leaves in the buffer the next level of the reference reduction.
LEMMA CarryOutputs ==
    ASSUME IInv, Carry
    PROVE  /\ len > 1
           /\ len' = (len + 1) \div 2
           /\ len' \in 1 .. BufLen
           /\ DOMAIN buf' = DOMAIN buf
           /\ buf' = [i \in DOMAIN buf |-> buf'[i]]
           /\ start' = [i \in 0 .. len' - 1 |-> buf'[i]]
           /\ start' = Tree!NextLevel(start, len)
<1>1. len \in Nat /\ len > 1 /\ k = Half /\ Half = len \div 2
  BY LevelFits DEF Carry, Half
<1>2. len' = (len + 1) \div 2 /\ len' = Half + (len % 2) /\ len' >= 1
  BY <1>1 DEF Carry, Carried
<1>3. DOMAIN buf = 0 .. BufLen - 1 /\ BufLen \in Nat /\ len' <= BufLen
  BY <1>2, LevelFits DEF Carry
<1>4. buf = [i \in DOMAIN buf |-> buf[i]]
  BY DEF IInv, TypeOK
<1>5. buf' = IF len % 2 = 1 THEN [buf EXCEPT ![Half] = Operand(len - 1)] ELSE buf
  BY DEF Carry
<1>6. DOMAIN buf' = DOMAIN buf /\ buf' = [i \in DOMAIN buf |-> buf'[i]]
  BY <1>4, <1>5
<1>7. \A i \in 0 .. Half - 1 : buf'[i] = Add(start[2 * i], start[2 * i + 1])
  <2>1. Computed
    BY LevelFits DEF Carry
  <2>2. \A i \in 0 .. Half - 1 : i \in DOMAIN buf /\ buf'[i] = buf[i]
    BY <1>1, <1>2, <1>3, <1>5
  <2> QED
    BY <1>1, <2>1, <2>2 DEF Computed
<1>8. ASSUME len % 2 = 1
      PROVE  buf'[Half] = start[len - 1]
  <2>1. Half \in DOMAIN buf
    BY <1>1, <1>2, <1>3, <1>8
  <2>2. buf'[Half] = Operand(len - 1)
    BY <1>5, <1>8, <2>1
  <2>3. Operand(len - 1) = start[len - 1]
    <3>1. len - 1 \in 2 * k .. len - 1
      BY <1>1, <1>2, <1>8
    <3> QED
      BY <3>1, LevelFits DEF Carry
  <2> QED
    BY <2>2, <2>3
<1>9. start' = [i \in 0 .. len' - 1 |-> buf'[i]]
  BY DEF Carry
<1>10. start' = [i \in 0 .. ((len + 1) \div 2) - 1 |->
                   IF i < len \div 2 THEN Add(start[2 * i], start[2 * i + 1])
                   ELSE start[len - 1]]
  <2>1. \A i \in 0 .. len' - 1 :
           buf'[i] = IF i < len \div 2 THEN Add(start[2 * i], start[2 * i + 1])
                     ELSE start[len - 1]
    <3> SUFFICES ASSUME NEW i \in 0 .. len' - 1
                 PROVE  buf'[i] = IF i < len \div 2
                                  THEN Add(start[2 * i], start[2 * i + 1])
                                  ELSE start[len - 1]
      OBVIOUS
    <3>1. CASE i < len \div 2
      BY <1>1, <1>7, <3>1
    <3>2. CASE ~(i < len \div 2)
      <4>1. i = Half /\ len % 2 = 1
        BY <1>1, <1>2, <3>2
      <4> QED
        BY <1>1, <1>8, <3>2, <4>1
    <3> QED
      BY <3>1, <3>2
  <2> QED
    BY <1>2, <1>9, <2>1
<1> QED
  BY <1>1, <1>2, <1>3, <1>6, <1>9, <1>10 DEF Tree!NextLevel

-----------------------------------------------------------------------------
(* One lemma per action: the invariant holds after it, and it is a step of *)
(* the reference reduction or leaves the reference's state alone.          *)

LEMMA CallStep ==
    ASSUME IInv, NEW kern \in Kernels, NEW m \in 0 .. MaxLen, Call(kern, m)
    PROVE  IInv' /\ Tree!Call
<1>1. IInv'
  BY MaxLenAssumption
     DEF Call, IInv, TypeOK, Collapsing, StartIsInput, Kernels, Paths
<1>2. Tree!Call
  BY DEF Call, Tree!Call, Tree!Kernels, Kernels
<1> QED
  BY <1>1, <1>2

LEMMA MismatchStep ==
    ASSUME IInv, Mismatch
    PROVE  IInv' /\ Tree!Refuse
<1>1. IInv'
  BY DEF Mismatch, IInv, TypeOK, Collapsing, Half
<1>2. Tree!Refuse
  BY DEF Mismatch, Tree!Refuse
<1> QED
  BY <1>1, <1>2

LEMMA ReturnEarlyStep ==
    ASSUME IInv, ReturnEarly
    PROVE  IInv' /\ Tree!Return
<1>1. IInv'
  BY DEF ReturnEarly, args, IInv, TypeOK, Collapsing, Half
<1>2. n \in Nat /\ len = n /\ start = [i \in 0 .. len - 1 |-> Leaf(kernel, i)]
  BY MaxLenAssumption DEF ReturnEarly, IInv, TypeOK, StartIsInput
<1>3. n # 0 => start[0] = Leaf(kernel, 0)
  BY <1>2 DEF ReturnEarly
<1>4. Tree!Return
  BY <1>2, <1>3 DEF ReturnEarly, args, Tree!Return
<1> QED
  BY <1>1, <1>4

LEMMA CopyInStep ==
    ASSUME IInv, CopyIn
    PROVE  IInv' /\ UNCHANGED Tree!vars
<1>1. n \in 0 .. MaxLen /\ n > 1 /\ len = n /\ kernel = "sum"
  BY DEF CopyIn, IInv, TypeOK
<1>2. buf' = [i \in 0 .. n - 1 |-> X(i)] /\ n \in 0 .. MaxLen + 1
  BY <1>1, MaxLenAssumption DEF CopyIn
<1>3. \A i \in 0 .. len - 1 : buf'[i] = start[i]
  BY <1>1, <1>2 DEF CopyIn, IInv, StartIsInput, Leaf
<1>4. TypeOK'
  <2>1. \E c \in 0 .. MaxLen + 1 : buf' = [i \in 0 .. c - 1 |-> buf'[i]]
    BY <1>2
  <2> QED
    BY <2>1 DEF CopyIn, args, IInv, TypeOK, Collapsing
<1>5. IInv'
  BY <1>1, <1>2, <1>3, <1>4, MaxLenAssumption
     DEF CopyIn, args, IInv, BufLen
<1>6. UNCHANGED Tree!vars
  BY DEF CopyIn, args, Tree!vars
<1> QED
  BY <1>5, <1>6

LEMMA AllocateStep ==
    ASSUME IInv, Allocate
    PROVE  IInv' /\ UNCHANGED Tree!vars
<1>1. n \in 0 .. MaxLen /\ n > 1 /\ len = n /\ kernel # "sum" /\ StartIsInput
  BY DEF Allocate, IInv, TypeOK
<1>2. Carried = (n + 1) \div 2 /\ Carried \in 0 .. MaxLen + 1 /\ Half \in Nat
  BY <1>1, MaxLenAssumption DEF Carried, Half
<1>3. buf' = [i \in 0 .. Carried - 1 |-> Zero]
  BY DEF Allocate
<1>4. TypeOK'
  <2>1. \E c \in 0 .. MaxLen + 1 : buf' = [i \in 0 .. c - 1 |-> buf'[i]]
    BY <1>2, <1>3
  <2>2. Half' = Half
    BY DEF Allocate, Half
  <2>3. k' \in 0 .. MaxLen /\ k' <= Half'
    BY <1>2, <2>2, MaxLenAssumption DEF Allocate
  <2> QED
    BY <2>1, <2>3 DEF Allocate, args, IInv, TypeOK, Collapsing
<1>5. Computed' /\ StartIsInput'
  BY <1>1 DEF Allocate, args, Computed, StartIsInput
<1>6. IInv'
  BY <1>1, <1>2, <1>3, <1>4, <1>5 DEF Allocate, args, IInv, BufLen
<1>7. UNCHANGED Tree!vars
  BY DEF Allocate, args, Tree!vars
<1> QED
  BY <1>6, <1>7

LEMMA VectorStepStep ==
    ASSUME IInv, VectorStep
    PROVE  IInv' /\ UNCHANGED Tree!vars
<1>1. k' \in k .. Half /\ k \in Nat /\ Half' = Half /\ Half \in Nat
  BY VectorOutputs, LevelFits DEF VectorStep, Half
<1>2. Computed'
  <2>1. \A i \in 0 .. k' - 1 : buf'[i] = Add(start[2 * i], start[2 * i + 1])
    BY VectorOutputs
  <2>2. start' = start
    BY DEF VectorStep
  <2> QED
    BY <2>1, <2>2, Zenon DEF Computed
<1>3. TypeOK'
  <2>1. \E c \in 0 .. MaxLen + 1 : buf' = [i \in 0 .. c - 1 |-> buf'[i]]
    BY VectorOutputs DEF IInv, TypeOK
  <2>2. k' \in 0 .. MaxLen /\ k' <= Half'
    <3>1. k' \in 0 .. Half
      BY <1>1
    <3>2. len \in 0 .. n /\ n \in 0 .. MaxLen /\ Half \in Nat /\ 2 * Half <= len
      BY LevelFits DEF IInv, TypeOK, VectorStep
    <3> QED
      BY <1>1, <3>1, <3>2, MaxLenAssumption
  <2> QED
    BY <2>1, <2>2 DEF VectorStep, args, IInv, TypeOK, Collapsing
<1>4. pc = "collapse" => \A i \in k' .. len - 1 : buf'[i] = start[i]
  <2> SUFFICES ASSUME pc = "collapse", NEW i \in k' .. len - 1
               PROVE  buf'[i] = start[i]
    OBVIOUS
  <2>1. k \in Nat /\ k' >= k /\ len \in Nat /\ len <= BufLen /\ BufLen \in Nat
    BY <1>1, LevelFits DEF VectorStep, IInv
  <2>2. i \in DOMAIN buf /\ i \in k .. len - 1
    BY <1>1, <2>1, LevelFits DEF VectorStep
  <2> QED
    BY <1>1, <2>1, <2>2, VectorOutputs DEF IInv
<1>5. IInv'
  BY <1>2, <1>3, <1>4, VectorOutputs
     DEF VectorStep, args, IInv, Collapsing, BufLen, StartIsInput
<1>6. UNCHANGED Tree!vars
  BY DEF VectorStep, args, Tree!vars
<1> QED
  BY <1>5, <1>6

LEMMA ScalarStepStep ==
    ASSUME IInv, ScalarStep
    PROVE  IInv' /\ UNCHANGED Tree!vars
<1>1. k' = k + 1 /\ Half' = Half /\ k \in Nat
  BY ScalarOutputs, LevelFits DEF ScalarStep, Half
<1>2. Computed'
  BY <1>1, ScalarOutputs DEF ScalarStep, Computed
<1>3. TypeOK'
  <2>1. \E c \in 0 .. MaxLen + 1 : buf' = [i \in 0 .. c - 1 |-> buf'[i]]
    BY ScalarOutputs DEF IInv, TypeOK
  <2>2. k' \in 0 .. MaxLen /\ k' <= Half'
    <3>1. k' \in 0 .. Half
      BY <1>1, ScalarOutputs
    <3>2. len \in 0 .. n /\ n \in 0 .. MaxLen /\ Half \in Nat /\ 2 * Half <= len
      BY LevelFits DEF IInv, TypeOK, ScalarStep
    <3> QED
      BY <1>1, <3>1, <3>2, MaxLenAssumption
  <2> QED
    BY <2>1, <2>2 DEF ScalarStep, args, IInv, TypeOK, Collapsing
<1>4. pc = "collapse" => \A i \in k' .. len - 1 : buf'[i] = start[i]
  <2> SUFFICES ASSUME pc = "collapse", NEW i \in k' .. len - 1
               PROVE  buf'[i] = start[i]
    OBVIOUS
  <2>1. len \in Nat /\ len <= BufLen /\ BufLen \in Nat
    BY LevelFits DEF ScalarStep, IInv
  <2>2. i \in DOMAIN buf /\ i \in k .. len - 1 /\ i >= k + 1
    BY <1>1, <2>1, LevelFits DEF ScalarStep
  <2> QED
    BY <2>2, ScalarOutputs DEF IInv
<1>5. IInv'
  BY <1>2, <1>3, <1>4, ScalarOutputs
     DEF ScalarStep, args, IInv, Collapsing, BufLen, StartIsInput
<1>6. UNCHANGED Tree!vars
  BY DEF ScalarStep, args, Tree!vars
<1> QED
  BY <1>5, <1>6

LEMMA CarryStep ==
    ASSUME IInv, Carry
    PROVE  IInv' /\ Tree!Collapse
<1>1. UNCHANGED <<path, kernel, n, k, ret>> /\ pc' = "loop" /\ BufLen' = BufLen
  BY DEF Carry, args, BufLen
<1>2. n \in Nat /\ BufLen \in Nat /\ BufLen <= n /\ n > 1 /\ DOMAIN buf = 0 .. BufLen - 1
  <2>1. n \in Nat /\ n > 1 /\ DOMAIN buf = 0 .. BufLen - 1
    BY MaxLenAssumption DEF IInv, TypeOK, Carry, Collapsing
  <2> QED
    BY <2>1 DEF BufLen
<1>3. len' \in 1 .. BufLen /\ len' \in 0 .. n
  <2>1. len' \in 1 .. BufLen
    BY CarryOutputs
  <2> QED
    BY <1>2, <2>1
<1>4. \A i \in 0 .. len' - 1 : buf'[i] = start'[i]
  BY CarryOutputs
<1>5. TypeOK'
  <2>1. \E c \in 0 .. MaxLen + 1 : buf' = [i \in 0 .. c - 1 |-> buf'[i]]
    BY CarryOutputs DEF IInv, TypeOK
  <2>2. start' = [i \in 0 .. len' - 1 |-> start'[i]]
    BY CarryOutputs, <1>4
  <2> QED
    BY <1>1, <1>3, <2>1, <2>2 DEF IInv, TypeOK, Collapsing
<1>6. IInv'
  BY <1>1, <1>2, <1>3, <1>4, <1>5, CarryOutputs DEF IInv
<1>7. Tree!Collapse
  BY <1>1, CarryOutputs DEF Tree!Collapse, Carry, Collapsing
<1> QED
  BY <1>6, <1>7

LEMMA DescendStep ==
    ASSUME IInv, Descend
    PROVE  IInv' /\ UNCHANGED Tree!vars
<1>1. len \in 2 .. BufLen /\ Half' = Half /\ Half \in Nat /\ BufLen' = BufLen
  <2>1. len \in 1 .. BufLen /\ len > 1 /\ n \in Nat
    BY MaxLenAssumption DEF Descend, IInv, TypeOK
  <2>2. BufLen \in Nat
    BY <2>1 DEF BufLen
  <2> QED
    BY <2>1, <2>2 DEF Descend, args, Half, BufLen
<1>2. TypeOK'
  BY <1>1, MaxLenAssumption DEF Descend, args, IInv, TypeOK, Collapsing
<1>3. Computed'
  BY DEF Descend, Computed
<1>4. IInv'
  BY <1>1, <1>2, <1>3 DEF Descend, args, IInv
<1>5. UNCHANGED Tree!vars
  BY DEF Descend, args, Tree!vars
<1> QED
  BY <1>4, <1>5

LEMMA ReturnStep ==
    ASSUME IInv, Return
    PROVE  IInv' /\ Tree!Return
<1>1. len = 1 /\ buf[0] = start[0]
  <2>1. len \in 1 .. BufLen /\ len <= 1 /\ n \in Nat
    BY MaxLenAssumption DEF Return, IInv, TypeOK
  <2>2. len = 1
    BY <2>1 DEF BufLen
  <2> QED
    BY <2>2 DEF Return, IInv
<1>2. IInv'
  BY DEF Return, args, IInv, TypeOK, Collapsing, Half
<1>3. Tree!Return
  BY <1>1 DEF Return, args, Tree!Return
<1> QED
  BY <1>2, <1>3

\* Every step of the code keeps the invariant and refines the reference.
LEMMA EveryStep ==
    ASSUME IInv, [Next]_vars
    PROVE  IInv' /\ [Tree!Next]_(Tree!vars)
<1>1. ASSUME NEW kern \in Kernels, NEW m \in 0 .. MaxLen, Call(kern, m)
      PROVE  IInv' /\ Tree!Next
  BY <1>1, CallStep DEF Tree!Next
<1>2. CASE Mismatch
  BY <1>2, MismatchStep DEF Tree!Next
<1>3. CASE ReturnEarly
  BY <1>3, ReturnEarlyStep DEF Tree!Next
<1>4. CASE CopyIn
  BY <1>4, CopyInStep
<1>5. CASE Allocate
  BY <1>5, AllocateStep
<1>6. CASE VectorStep
  BY <1>6, VectorStepStep
<1>7. CASE ScalarStep
  BY <1>7, ScalarStepStep
<1>8. CASE Carry
  BY <1>8, CarryStep DEF Tree!Next
<1>9. CASE Descend
  BY <1>9, DescendStep
<1>10. CASE Return
  BY <1>10, ReturnStep DEF Tree!Next
<1>11. CASE UNCHANGED vars
  <2>1. IInv'
    BY <1>11 DEF vars, IInv, TypeOK, Collapsing, Half, BufLen, StartIsInput, Computed
  <2>2. UNCHANGED Tree!vars
    BY <1>11 DEF vars, Tree!vars
  <2> QED
    BY <2>1, <2>2
<1> QED
  BY <1>1, <1>2, <1>3, <1>4, <1>5, <1>6, <1>7, <1>8, <1>9, <1>10, <1>11
     DEF Next, Progress

-----------------------------------------------------------------------------
(* The theorems.                                                           *)

\* The inductive invariant holds of every behaviour of the code.
THEOREM Inductive == Spec => []IInv
<1>1. Init => IInv
  BY IndexedInit
<1>2. IInv /\ [Next]_vars => IInv'
  BY EveryStep
<1> QED
  BY <1>1, <1>2, PTL DEF Spec

\* Type correctness: no loop index ever passes the end of its level.
THEOREM TypeCorrect == Spec => []TypeOK
<1>1. IInv => TypeOK
  BY DEF IInv
<1> QED
  BY <1>1, Inductive, PTL

\* The SAFETY arguments of the unsafe vector kernels hold for every length: the
\* loads and the stores stay in bounds and no store clobbers an unread operand.
THEOREM AccessesAreSafe == Spec => []SafeAccess
<1>1. IInv => SafeAccess
  <2> SUFFICES ASSUME IInv, Collapsing, k < Half
               PROVE  /\ Reads \subseteq 0 .. len - 1
                      /\ Writes \subseteq DOMAIN buf
                      /\ pc = "collapse" => /\ Reads \subseteq DOMAIN buf
                                            /\ Writes \cap StillToRead = {}
    BY DEF SafeAccess
  <2>1. Width \in Nat /\ Width >= 1 /\ k + Width <= Half /\ k \in Nat
    BY LevelFits DEF Width, VectorFits, Lanes
  <2>2. /\ len \in Nat /\ Half \in Nat /\ BufLen \in Nat
        /\ 2 * Half <= len /\ Half <= BufLen
        /\ DOMAIN buf = 0 .. BufLen - 1
    BY LevelFits DEF Half
  <2>3. Reads \subseteq 0 .. len - 1
    BY <2>1, <2>2 DEF Reads
  <2>4. Writes \subseteq DOMAIN buf
    BY <2>1, <2>2 DEF Writes
  <2>5. pc = "collapse" => Reads \subseteq DOMAIN buf
    <3>1. pc = "collapse" => len <= BufLen
      BY DEF IInv
    <3> QED
      BY <2>2, <2>3, <3>1
  <2>6. Writes \cap StillToRead = {}
    BY <2>1, <2>2 DEF Writes, StillToRead
  <2> QED
    BY <2>3, <2>4, <2>5, <2>6
<1> QED
  BY <1>1, Inductive, PTL

\* The vectorised, fused, in-place reductions compute the reference reduction,
\* bit for bit, for every length, every vector path and every addition.
THEOREM Implements == Spec => ImplementsTree
<1>1. Init => Tree!Init
  BY DEF Init, Tree!Init
<1>2. IInv /\ [Next]_vars => [Tree!Next]_(Tree!vars)
  BY EveryStep
<1> QED
  BY <1>1, <1>2, Inductive, PTL DEF Spec, ImplementsTree, Tree!Spec

-----------------------------------------------------------------------------
(* Powers of two.                                                          *)

\* A power of two is the number of subsets of a set of that size.
LEMMA PowerCounts ==
    ASSUME NEW m \in Nat
    PROVE  /\ IsFiniteSet(SUBSET (1 .. m))
           /\ Cardinality(SUBSET (1 .. m)) = 2 ^ m
<1>1. IsFiniteSet(1 .. m) /\ Cardinality(1 .. m) = m
  BY FS_Interval
<1> QED
  BY <1>1, FS_SUBSET

\* So each is twice the one before: the subsets with the new element and those
\* without it.
LEMMA PowerDoubles ==
    ASSUME NEW m \in Nat
    PROVE  2 ^ m \in Nat \ {0} /\ 2 ^ (m + 1) = 2 * 2 ^ m
<1> DEFINE S == SUBSET (1 .. m)
           T == SUBSET (1 .. m + 1)
           W == {A \cup {m + 1} : A \in S}
           f == [A \in S |-> A \cup {m + 1}]
<1>1. /\ IsFiniteSet(S) /\ Cardinality(S) = 2 ^ m
      /\ IsFiniteSet(T) /\ Cardinality(T) = 2 ^ (m + 1)
  BY PowerCounts
<1>2. m + 1 \notin 1 .. m
  OBVIOUS
<1>3. f \in Bijection(S, W)
  <2>1. \A A, B \in S : A \cup {m + 1} = B \cup {m + 1} => A = B
    BY <1>2
  <2>2. \A A \in S : f[A] = A \cup {m + 1}
    BY Zenon
  <2>3. f \in [S -> W]
    BY Zenon
  <2>4. \A A, B \in S : f[A] = f[B] => A = B
    <3> HIDE DEF f, S
    <3> QED
      BY <2>1, <2>2
  <2>5. \A C \in W : \E A \in S : f[A] = C
    <3> HIDE DEF f, S
    <3> QED
      BY <2>2
  <2> HIDE DEF f, S, W
  <2> QED
    BY <2>3, <2>4, <2>5 DEF Bijection, Injection, Surjection, IsInjective
<1>4. IsFiniteSet(W) /\ Cardinality(W) = Cardinality(S)
  <2> HIDE DEF f, S, W
  <2>1. ExistsBijection(S, W)
    BY <1>3 DEF ExistsBijection
  <2> QED
    BY <1>1, <2>1, FS_Bijection
<1>5. T = S \cup W
  <2>1. ASSUME NEW A \in T PROVE A \in S \cup W
    <3>1. CASE m + 1 \in A
      <4>1. A \ {m + 1} \in S /\ A = (A \ {m + 1}) \cup {m + 1}
        BY <3>1
      <4> QED
        BY <4>1
    <3>2. CASE m + 1 \notin A
      BY <3>2
    <3> QED
      BY <3>1, <3>2
  <2>2. ASSUME NEW A \in S \cup W PROVE A \in T
    OBVIOUS
  <2> QED
    BY <2>1, <2>2
<1>6. S \cap W = {}
  BY <1>2
<1>7. Cardinality(S \cup W) = Cardinality(S) + Cardinality(W) - Cardinality(S \cap W)
  <2> HIDE DEF S, W
  <2> QED
    BY <1>1, <1>4, FS_Union
<1>8. Cardinality(S \cap W) = 0
  BY <1>6, FS_EmptySet
<1>9. Cardinality(S) \in Nat /\ Cardinality(S) # 0
  <2>1. {} \in S
    OBVIOUS
  <2> HIDE DEF S
  <2> QED
    BY <1>1, <2>1, FS_CardinalityType, FS_EmptySet
<1> HIDE DEF S, T, W
<1> QED
  BY <1>1, <1>4, <1>5, <1>7, <1>8, <1>9

-----------------------------------------------------------------------------
(* The closed form of the tree.                                            *)

\* A nonempty set of natural numbers has a least element.
LEMMA Least ==
    ASSUME NEW T \in SUBSET Nat, T # {}
    PROVE  \E m \in T : \A j \in T : m <= j
<1>1. \E m \in T : \A j \in T : ~ (<<j, m>> \in OpToRel(<, Nat))
  BY NatLessThanWellFounded, WFMin, Zenon
<1>2. PICK m \in T : \A j \in T : ~ (<<j, m>> \in OpToRel(<, Nat))
  BY <1>1
<1>3. \A j \in T : ~(j < m)
  BY <1>2 DEF OpToRel
<1> QED
  BY <1>3

\* Level L over the level b below it, for a vector of length m.
Above(b, m, L) ==
    [i \in Nat |-> IF (2 * i + 1) * 2 ^ (L - 1) < m
                   THEN Add(b[2 * i], b[2 * i + 1]) ELSE b[2 * i]]

\* The first levels of the tree over f.
IsTree(f, m, h, g) == g = [L \in 0 .. h |-> IF L = 0 THEN f ELSE Above(g[L - 1], m, L)]

\* Any number of levels exists.
LEMMA TreesExist == \A f, m : \A h \in Nat : \E g : IsTree(f, m, h, g)
<1> SUFFICES ASSUME NEW f, NEW m PROVE \A h \in Nat : \E g : IsTree(f, m, h, g)
  OBVIOUS
<1> DEFINE T == {h \in Nat : ~ \E g : IsTree(f, m, h, g)}
<1>1. ASSUME T # {} PROVE FALSE
  <2>1. PICK h \in T : \A j \in T : h <= j
    BY <1>1, Least
  <2>2. h \in Nat /\ ~ \E g : IsTree(f, m, h, g)
    BY <2>1
  <2>3. CASE h = 0
    <3>1. IsTree(f, m, 0, [L \in 0 .. 0 |-> f])
      BY DEF IsTree
    <3> QED
      BY <2>2, <2>3, <3>1
  <2>4. CASE h # 0
    <3>1. h - 1 \in Nat /\ h - 1 \notin T
      BY <2>1, <2>2, <2>4
    <3>2. PICK e : IsTree(f, m, h - 1, e)
      BY <3>1
    <3> DEFINE g == [L \in 0 .. h |-> IF L = 0 THEN f ELSE Above(e[L - 1], m, L)]
    <3>3. ASSUME NEW L \in 0 .. h - 1 PROVE g[L] = e[L]
      BY <2>2, <3>2, <3>3 DEF IsTree
    <3>4. IsTree(f, m, h, g)
      <4>1. ASSUME NEW L \in 0 .. h
            PROVE  g[L] = IF L = 0 THEN f ELSE Above(g[L - 1], m, L)
        <5>1. CASE L = 0
          BY <5>1
        <5>2. CASE L # 0
          <6>1. L - 1 \in 0 .. h - 1
            BY <2>2, <5>2
          <6>2. g[L - 1] = e[L - 1]
            BY <3>3, <6>1
          <6>3. g[L] = Above(e[L - 1], m, L)
            BY <5>2
          <6> QED
            BY <5>2, <6>2, <6>3
        <5> QED
          BY <5>1, <5>2
      <4>2. g = [L \in 0 .. h |-> g[L]]
        OBVIOUS
      <4> HIDE DEF g
      <4> QED
        BY <4>1, <4>2 DEF IsTree
    <3> QED
      BY <2>2, <3>4
  <2> QED
    BY <2>3, <2>4
<1> QED
  BY <1>1

\* The recursive definition of the tree holds.
LEMMA LevelsUnfold ==
    ASSUME NEW f, NEW m \in Nat
    PROVE  /\ Closed!Levels(f, m)[0] = f
           /\ \A L \in 1 .. m : Closed!Levels(f, m)[L] = Above(Closed!Levels(f, m)[L - 1], m, L)
<1> DEFINE t == Closed!Levels(f, m)
<1>1. \E g : IsTree(f, m, m, g)
  BY TreesExist
<1>2. \E g : g = [L \in 0 .. m |-> IF L = 0 THEN f ELSE Above(g[L - 1], m, L)]
  BY <1>1 DEF IsTree
<1>3. t = CHOOSE g : g = [L \in 0 .. m |-> IF L = 0 THEN f ELSE Above(g[L - 1], m, L)]
  BY DEF Closed!Levels, Above
<1> HIDE DEF t
<1>4. t = [L \in 0 .. m |-> IF L = 0 THEN f ELSE Above(t[L - 1], m, L)]
  BY <1>2, <1>3
<1>5. t[0] = f /\ \A L \in 1 .. m : t[L] = Above(t[L - 1], m, L)
  BY <1>4
<1> QED
  BY <1>5 DEF t

\* A larger factor makes a larger product.
LEMMA Monotone ==
    ASSUME NEW p \in Nat, NEW a \in Int, NEW b \in Int, a <= b
    PROVE  p * a <= p * b
<1>1. b - a \in Nat /\ p * (b - a) \in Nat
  OBVIOUS
<1>2. p * (b - a) = p * b - p * a
  OBVIOUS
<1>3. p * a \in Int /\ p * b \in Int
  OBVIOUS
<1> QED
  BY <1>1, <1>2, <1>3

\* l nodes of 2 ^ L elements cover a vector of length m, the last one perhaps cut.
Covers(L, l, m) == 2 ^ L * (l - 1) < m /\ m <= 2 ^ L * l

\* A level collapsed in pairs, its odd last element carried, is the next level of
\* the tree.
LEMMA LevelAbove ==
    ASSUME NEW f, NEW m \in Nat, NEW L \in Nat, NEW l \in Nat, l > 1,
           L + l <= m, Covers(L, l, m), NEW b,
           \A i \in 0 .. l - 1 : b[i] = Closed!Levels(f, m)[L][i]
    PROVE  /\ (L + 1) + ((l + 1) \div 2) <= m
           /\ Covers(L + 1, (l + 1) \div 2, m)
           /\ \A i \in 0 .. ((l + 1) \div 2) - 1 :
                 Tree!NextLevel(b, l)[i] = Closed!Levels(f, m)[L + 1][i]
<1> DEFINE p == 2 ^ L
           q == 2 ^ (L + 1)
           w == (l + 1) \div 2
           t == Closed!Levels(f, m)
<1>1. p \in Nat \ {0} /\ q = 2 * p
  BY PowerDoubles
<1>2. p * (l - 1) < m /\ m <= p * l
  BY DEF Covers
<1>3. w \in Nat /\ l <= 2 * w /\ 2 * w <= l + 1 /\ w < l
  OBVIOUS
<1>4. t[L + 1] = Above(t[L], m, L + 1)
  <2>1. L + 1 \in 1 .. m /\ (L + 1) - 1 = L
    OBVIOUS
  <2> HIDE DEF t
  <2>2. \A j \in 1 .. m : t[j] = Above(t[j - 1], m, j)
    BY LevelsUnfold DEF t
  <2> QED
    BY <2>1, <2>2
<1>5. Covers(L + 1, w, m)
  <2> HIDE DEF p, q, w
  <2>1. q * (w - 1) = p * (2 * w - 2) /\ q * w = p * (2 * w)
    BY <1>1, <1>3
  <2>2. p * (2 * w - 2) <= p * (l - 1) /\ p * l <= p * (2 * w)
    BY <1>1, <1>3, Monotone
  <2>3. p * (2 * w - 2) \in Int /\ p * (l - 1) \in Int /\ p * l \in Int /\ p * (2 * w) \in Int
    BY <1>1, <1>3
  <2>4. q * (w - 1) < m /\ m <= q * w
    BY <1>2, <2>1, <2>2, <2>3
  <2> QED
    BY <2>4 DEF Covers, q
<1>6. ASSUME NEW i \in 0 .. w - 1
      PROVE  Tree!NextLevel(b, l)[i] = t[L + 1][i]
  <2> DEFINE full == (2 * i + 1) * 2 ^ ((L + 1) - 1) < m
  <2>1. /\ i \in Nat
        /\ t[L + 1][i] = IF full THEN Add(t[L][2 * i], t[L][2 * i + 1])
                        ELSE t[L][2 * i]
    <3>1. i \in Nat
      BY <1>3
    <3> HIDE DEF t, w
    <3> QED
      BY <3>1, <1>4 DEF Above
  <2>2. full <=> p * (2 * i + 1) < m
    <3>1. (L + 1) - 1 = L
      OBVIOUS
    <3>2. (2 * i + 1) * p = p * (2 * i + 1)
      BY <1>1, <2>1
    <3> QED
      BY <3>1, <3>2
  <2>3. Tree!NextLevel(b, l)[i] = IF i < l \div 2
                                  THEN Add(b[2 * i], b[2 * i + 1]) ELSE b[l - 1]
    BY DEF Tree!NextLevel
  <2> HIDE DEF full, t, p, q
  <2>4. CASE i < l \div 2
    <3>1. 2 * i + 1 <= l - 1 /\ 2 * i \in 0 .. l - 1 /\ 2 * i + 1 \in 0 .. l - 1
      BY <2>1, <2>4
    <3>2. p * (2 * i + 1) <= p * (l - 1)
      BY <1>1, <2>1, <3>1, Monotone
    <3>3. full
      BY <1>1, <1>2, <2>1, <2>2, <3>2
    <3>4. b[2 * i] = t[L][2 * i] /\ b[2 * i + 1] = t[L][2 * i + 1]
      BY <3>1 DEF t
    <3> QED
      BY <2>1, <2>3, <2>4, <3>3, <3>4
  <2>5. CASE ~(i < l \div 2)
    <3>1. 2 * i = l - 1
      BY <2>1, <2>5
    <3>2. 2 * i + 1 = l
      BY <3>1
    <3>3. ~full
      BY <1>1, <1>2, <2>2, <3>2
    <3>4. b[l - 1] = t[L][l - 1]
      <4>1. l - 1 \in 0 .. l - 1
        OBVIOUS
      <4> QED
        BY <4>1 DEF t
    <3> QED
      BY <2>1, <2>3, <2>5, <3>1, <3>3, <3>4
  <2> QED
    BY <2>4, <2>5
<1> QED
  BY <1>3, <1>5, <1>6

-----------------------------------------------------------------------------
(* The levels of a call are those of the closed form.                      *)

\* The operands of the level being collapsed are level L of the tree.
AtLevel(L) ==
    /\ L + len <= n
    /\ Covers(L, len, n)
    /\ \A i \in 0 .. len - 1 : start[i] = Node(L, i)

Shaped == pc # "idle" => \E L \in 0 .. n : AtLevel(L)

\* A call starts at level 0.
LEMMA ShapedCall ==
    ASSUME IInv, NEW kern \in Kernels, NEW m \in 0 .. MaxLen, Call(kern, m)
    PROVE  Shaped'
<1>1. /\ n' = m /\ len' = m /\ kernel' = kern /\ m \in Nat
      /\ start' = [i \in 0 .. m - 1 |-> Leaf(kern, i)]
  BY MaxLenAssumption DEF Call
<1>2. 2 ^ 0 = 1
  OBVIOUS
<1>3. Covers(0, m, m)
  BY <1>1, <1>2 DEF Covers
<1>4. \A i \in 0 .. m - 1 : start'[i] = Node(0, i)'
  BY <1>1, LevelsUnfold DEF Node
<1>5. AtLevel(0)'
  BY <1>1, <1>3, <1>4 DEF AtLevel
<1> QED
  BY <1>1, <1>5 DEF Shaped

\* A level that ends takes it to the next one.
LEMMA ShapedCarry ==
    ASSUME IInv, Shaped, Carry
    PROVE  Shaped'
<1>1. n' = n /\ kernel' = kernel /\ pc # "idle" /\ n \in Nat /\ len \in Nat
  BY MaxLenAssumption DEF Carry, args, Collapsing, IInv, TypeOK
<1>2. PICK L \in 0 .. n : AtLevel(L)
  BY <1>1 DEF Shaped
<1>3. len > 1 /\ len' = (len + 1) \div 2 /\ start' = Tree!NextLevel(start, len)
  BY CarryOutputs
<1> DEFINE f == [x \in 0 .. n - 1 |-> Leaf(kernel, x)]
<1>4. \A j, i : Node(j, i) = Closed!Levels(f, n)[j][i]
  BY DEF Node
<1>5. \A j, i : Node(j, i)' = Closed!Levels(f, n)[j][i]
  BY <1>1 DEF Node
<1> HIDE DEF f
<1>6. /\ (L + 1) + len' <= n
      /\ Covers(L + 1, len', n)
      /\ \A i \in 0 .. len' - 1 : start'[i] = Closed!Levels(f, n)[L + 1][i]
  <2>1. L \in Nat /\ L + len <= n /\ Covers(L, len, n)
    BY <1>1, <1>2 DEF AtLevel
  <2>2. \A i \in 0 .. len - 1 : start[i] = Closed!Levels(f, n)[L][i]
    BY <1>2, <1>4 DEF AtLevel
  <2> QED
    BY <1>1, <1>3, <2>1, <2>2, LevelAbove
<1>7. AtLevel(L + 1)'
  BY <1>1, <1>5, <1>6 DEF AtLevel
<1>8. L + 1 \in 0 .. n'
  BY <1>1, <1>3, <1>6
<1> QED
  BY <1>7, <1>8 DEF Shaped

\* No other step changes the operands of a level.
LEMMA ShapedStep == IInv /\ Shaped /\ [Next]_vars => Shaped'
<1> SUFFICES ASSUME IInv, Shaped, [Next]_vars PROVE Shaped'
  OBVIOUS
<1>1. ASSUME NEW kern \in Kernels, NEW m \in 0 .. MaxLen, Call(kern, m)
      PROVE  Shaped'
  BY <1>1, ShapedCall
<1>2. CASE Carry
  BY <1>2, ShapedCarry
<1>3. ASSUME n' = n, kernel' = kernel, len' = len, start' = start,
             pc' # "idle" => pc # "idle"
      PROVE  Shaped'
  <2>1. \A L : AtLevel(L) => AtLevel(L)'
    BY <1>3 DEF AtLevel, Node
  <2> QED
    BY <1>3, <2>1 DEF Shaped
<1>4. CASE \/ Mismatch \/ ReturnEarly \/ CopyIn \/ Allocate \/ VectorStep
           \/ ScalarStep \/ Descend \/ Return \/ UNCHANGED vars
  BY <1>3, <1>4 DEF Mismatch, ReturnEarly, CopyIn, Allocate, VectorStep,
     ScalarStep, Descend, Return, vars, args, Collapsing
<1> QED
  BY <1>1, <1>2, <1>4 DEF Next, Progress

\* A quotient rounded up.
LEMMA CoversIsCeiling ==
    ASSUME NEW L \in Nat, NEW l \in Nat, NEW m \in Nat, Covers(L, l, m)
    PROVE  l = (m + 2 ^ L - 1) \div 2 ^ L
<1> DEFINE p == 2 ^ L
<1>1. p \in Nat \ {0}
  BY PowerDoubles
<1>2. p * (l - 1) < m /\ m <= p * l
  BY DEF Covers
<1> HIDE DEF p
<1> DEFINE x == m + p - 1
           y == x \div p
<1>3. x \in Nat
  BY <1>1
<1>4. y \in Int /\ p * y <= x /\ x < p * y + p
  BY <1>1, <1>3
<1>5. p * (l - 1) = p * l - p /\ p * l \in Int /\ p * y \in Int
  BY <1>1, <1>4
<1>6. p * l <= x /\ x < p * l + p
  BY <1>1, <1>2, <1>5
<1> HIDE DEF x, y
<1>7. ~(y < l)
  <2>1. ASSUME y + 1 <= l PROVE FALSE
    <3>1. p * (y + 1) <= p * l /\ p * (y + 1) = p * y + p
      BY <1>1, <1>4, <2>1, Monotone
    <3> QED
      BY <1>1, <1>3, <1>4, <1>5, <1>6, <3>1
  <2> QED
    BY <1>4, <2>1
<1>8. ~(l < y)
  <2>1. ASSUME l + 1 <= y PROVE FALSE
    <3>1. p * (l + 1) <= p * y /\ p * (l + 1) = p * l + p
      BY <1>1, <1>4, <2>1, Monotone
    <3> QED
      BY <1>1, <1>3, <1>4, <1>5, <1>6, <3>1
  <2> QED
    BY <1>4, <2>1
<1>9. l = y
  BY <1>4, <1>7, <1>8
<1> QED
  BY <1>9 DEF p, x, y

\* At the end of every level of every reduction, of any length and on any path,
\* the buffer holds the aligned dyadic blocks of the closed form of the tree.
THEOREM ShapeIsDyadic == Spec => []DyadicShape
<1>1. Init => Shaped
  BY DEF Init, Shaped
<1>2. IInv /\ Shaped => DyadicShape
  <2> SUFFICES ASSUME IInv, Shaped, pc = "loop"
               PROVE  \E L \in 0 .. n :
                         /\ len = (n + 2 ^ L - 1) \div 2 ^ L
                         /\ \A i \in 0 .. len - 1 : buf[i] = Node(L, i)
    BY DEF DyadicShape
  <2>1. PICK L \in 0 .. n : AtLevel(L)
    BY DEF Shaped
  <2>2. n \in Nat /\ len \in Nat /\ L \in Nat
    BY <2>1, MaxLenAssumption DEF IInv, TypeOK
  <2>3. len = (n + 2 ^ L - 1) \div 2 ^ L
    BY <2>1, <2>2, CoversIsCeiling DEF AtLevel
  <2>4. \A i \in 0 .. len - 1 : buf[i] = Node(L, i)
    BY <2>1 DEF AtLevel, IInv
  <2> QED
    BY <2>3, <2>4
<1> QED
  BY <1>1, <1>2, ShapedStep, Inductive, PTL DEF Spec
=============================================================================
