-------------------------- MODULE MarkovExactProof --------------------------
(***************************************************************************)
(* The bit-exact Markov run counts every hit once: whatever the grid, the  *)
(* workgroup size, the order of the invocations and of the workgroups, the *)
(* count that is read back is the number of hits.                          *)
(*                                                                         *)
(* The grid takes every draw once (DispatchGridProof).  In a workgroup, in *)
(* the round of the tree with stride s, element l of its memory holds the  *)
(* hits of the invocations whose local id is l modulo s (Share).  The      *)
(* counter holds the hits of the workgroups that have added theirs.        *)
(***************************************************************************)
EXTENDS MarkovExact, DispatchGridProof

-----------------------------------------------------------------------------
(* The hits of an ensemble, and of a part of a workgroup.                  *)

\* The invocations of an ensemble that count a hit.
HitInvs(c) == {inv \in Invocations(c.n) : LinearIndex(c.n, inv) \in c.hits}

\* The hits of the invocations of workgroup g with a local id of l modulo s.
ShareSet(c, g, s, l) == {inv \in HitInvs(c) : Group(inv) = g /\ Lid(inv) % s = l}
Share(c, g, s, l) == Cardinality(ShareSet(c, g, s, l))

\* What a config is.
LEMMA ConfigFacts ==
    ASSUME NEW c \in Configs
    PROVE  c.n \in Nat \ {0} /\ c.hits \subseteq 0 .. c.n - 1
BY SizesAssumption DEF Configs

\* The dispatch takes every draw once, so it finds as many hits as there are.
LEMMA HitsFound ==
    ASSUME NEW c \in Configs, c.n < U32
    PROVE  /\ IsFiniteSet(HitInvs(c))
           /\ Cardinality(HitInvs(c)) = Cardinality(c.hits)
           /\ Cardinality(c.hits) \in 0 .. c.n
<1>1. /\ c.n \in 1 .. U32 /\ c.hits \subseteq 0 .. c.n - 1
      /\ c.n \in Nat \ {0}
  BY ConfigFacts, GridAssumption
<1>2. IsFiniteSet(0 .. c.n - 1) /\ Cardinality(0 .. c.n - 1) = c.n
  <2> DEFINE b == c.n - 1
  <2>1. b \in Nat /\ b + 1 = c.n
    BY <1>1
  <2> HIDE DEF b
  <2>2. IsFiniteSet(0 .. b) /\ Cardinality(0 .. b) = b + 1
    BY <2>1, FS_Interval
  <2> QED
    BY <2>1, <2>2 DEF b
<1>3. IsFiniteSet(c.hits) /\ Cardinality(c.hits) <= c.n
  BY <1>1, <1>2, FS_Subset
<1>4. Cardinality(c.hits) \in Nat
  BY <1>3, FS_CardinalityType
<1> DEFINE f == [inv \in HitInvs(c) |-> LinearIndex(c.n, inv)]
<1>5. f \in Injection(HitInvs(c), c.hits)
  <2>1. f \in [HitInvs(c) -> c.hits]
    BY DEF HitInvs
  <2>2. ASSUME NEW a \in HitInvs(c), NEW b \in HitInvs(c), f[a] = f[b]
        PROVE  a = b
    <3>1. a \in Invocations(c.n) /\ b \in Invocations(c.n)
      BY DEF HitInvs
    <3>2. LinearIndex(c.n, a) = LinearIndex(c.n, b)
      BY <2>2
    <3> QED
      BY <1>1, <3>1, <3>2, NoIndexTakenTwice
  <2> QED
    BY <2>1, <2>2 DEF Injection, IsInjective
<1>6. f \in Surjection(HitInvs(c), c.hits)
  <2>1. f \in [HitInvs(c) -> c.hits]
    BY DEF HitInvs
  <2>2. ASSUME NEW i \in c.hits
        PROVE  \E inv \in HitInvs(c) : f[inv] = i
    <3>1. i \in 0 .. c.n - 1
      BY <1>1
    <3>2. PICK inv \in Invocations(c.n) : LinearIndex(c.n, inv) = i
      BY <1>1, <3>1, EveryIndexTaken
    <3>3. inv \in HitInvs(c)
      BY <3>2 DEF HitInvs
    <3> QED
      BY <3>2, <3>3
  <2> QED
    BY <2>1, <2>2 DEF Surjection
<1> HIDE DEF f
<1>7. IsFiniteSet(HitInvs(c)) /\ Cardinality(HitInvs(c)) = Cardinality(c.hits)
  BY <1>3, <1>5, <1>6, FS_Injection
<1> QED
  BY <1>1, <1>3, <1>4, <1>7

\* A share is a number of draws.
LEMMA ShareType ==
    ASSUME NEW c \in Configs, c.n < U32, NEW g, NEW s, NEW l
    PROVE  /\ IsFiniteSet(ShareSet(c, g, s, l))
           /\ Share(c, g, s, l) \in 0 .. c.n
<1>1. IsFiniteSet(HitInvs(c)) /\ Cardinality(HitInvs(c)) \in 0 .. c.n
  BY HitsFound
<1>2. ShareSet(c, g, s, l) \subseteq HitInvs(c)
  BY DEF ShareSet
<1>3. /\ IsFiniteSet(ShareSet(c, g, s, l))
      /\ Cardinality(ShareSet(c, g, s, l)) <= Cardinality(HitInvs(c))
  BY <1>1, <1>2, FS_Subset
<1>4. Cardinality(ShareSet(c, g, s, l)) \in Nat
  BY <1>3, FS_CardinalityType
<1>5. c.n \in Nat
  BY ConfigFacts
<1> QED
  BY <1>1, <1>3, <1>4, <1>5 DEF Share

\* A remainder modulo s leaves two remainders modulo 2 * s.
LEMMA TwoRemainders ==
    ASSUME NEW x \in Nat, NEW s \in Nat \ {0}, NEW l \in 0 .. s - 1
    PROVE  /\ x % s = l => x % (2 * s) = l \/ x % (2 * s) = l + s
           /\ x % (2 * s) = l => x % s = l
           /\ x % (2 * s) = l + s => x % s = l
<1> DEFINE t == 2 * s
           d == x \div t
           r == x % t
<1>1. t \in Nat \ {0}
  OBVIOUS
<1>2. d \in Nat /\ r \in 0 .. t - 1 /\ x = t * d + r
  BY <1>1, Division
<1> HIDE DEF d, r
<1>3. x = (2 * d) * s + r /\ 2 * d \in Nat /\ r \in Nat
  BY <1>2
<1>4. x % s = r % s
  <2> DEFINE c == r \div s
             e == r % s
  <2>1. c \in Nat /\ e \in 0 .. s - 1 /\ r = s * c + e
    BY <1>3, Division
  <2> HIDE DEF c, e
  <2>2. x = (2 * d + c) * s + e /\ 2 * d + c \in Nat
    BY <1>3, <2>1
  <2>3. ((2 * d + c) * s + e) % s = e
    BY <2>1, <2>2, QuotientRemainder
  <2> QED
    BY <2>2, <2>3 DEF e
<1>5. CASE r < s
  <2>1. r % s = r
    BY <1>2, <1>5
  <2> QED
    BY <1>2, <1>4, <1>5, <2>1 DEF r
<1>6. CASE ~(r < s)
  <2> DEFINE u == r - s
  <2>1. u \in 0 .. s - 1 /\ r = 1 * s + u /\ 1 \in Nat
    BY <1>2, <1>6
  <2>2. u = r - s
    OBVIOUS
  <2> HIDE DEF u
  <2>3. r % s = r - s
    <3>1. (1 * s + u) % s = u
      BY <2>1, QuotientRemainder
    <3> QED
      BY <2>1, <2>2, <3>1
  <2> QED
    BY <1>2, <1>4, <1>6, <2>1, <2>2, <2>3 DEF r
<1> QED
  BY <1>5, <1>6

\* The share of a lane is what it and its partner held in the round before.
LEMMA ShareSum ==
    ASSUME NEW c \in Configs, c.n < U32, NEW g, NEW s \in Nat \ {0}, NEW l \in 0 .. s - 1
    PROVE  Share(c, g, s, l) = Share(c, g, 2 * s, l) + Share(c, g, 2 * s, l + s)
<1> DEFINE A == ShareSet(c, g, 2 * s, l)
           B == ShareSet(c, g, 2 * s, l + s)
<1>1. A \cap B = {}
  <2>1. l # l + s
    OBVIOUS
  <2> QED
    BY <2>1 DEF ShareSet
<1>2. ShareSet(c, g, s, l) = A \cup B
  <2>1. ASSUME NEW inv \in HitInvs(c)
        PROVE  /\ Lid(inv) % s = l => Lid(inv) % (2 * s) = l \/ Lid(inv) % (2 * s) = l + s
               /\ Lid(inv) % (2 * s) = l => Lid(inv) % s = l
               /\ Lid(inv) % (2 * s) = l + s => Lid(inv) % s = l
    <3>1. Lid(inv) \in Nat
      BY GridAssumption DEF Lid, HitInvs, Invocations
    <3> QED
      BY <3>1, TwoRemainders
  <2> QED
    BY <2>1 DEF ShareSet
<1>3. IsFiniteSet(A) /\ IsFiniteSet(B)
  BY ShareType
<1>4. Cardinality(A) \in Nat /\ Cardinality(B) \in Nat
  BY <1>3, FS_CardinalityType
<1> HIDE DEF A, B
<1>5. Cardinality(A \cup B) = Cardinality(A) + Cardinality(B) - Cardinality(A \cap B)
  BY <1>3, FS_Union
<1>6. Cardinality(A \cap B) = 0
  BY <1>1, FS_EmptySet
<1>7. Cardinality(A \cup B) = Cardinality(A) + Cardinality(B)
  BY <1>4, <1>5, <1>6
<1> QED
  BY <1>2, <1>7 DEF Share, A, B

\* The share of one lane modulo the workgroup is its own hit.
LEMMA ShareOfLane ==
    ASSUME NEW c \in Configs, c.n < U32, NEW inv \in Invocations(c.n)
    PROVE  Share(c, Group(inv), WORKGROUP, Lid(inv))
             = IF LinearIndex(c.n, inv) < c.n /\ LinearIndex(c.n, inv) \in c.hits
               THEN 1 ELSE 0
<1> DEFINE S == ShareSet(c, Group(inv), WORKGROUP, Lid(inv))
<1>1. ASSUME NEW x \in S PROVE x = inv
  <2>1. /\ x \in Invocations(c.n) /\ inv \in Invocations(c.n)
        /\ Group(x) = Group(inv) /\ Lid(x) % WORKGROUP = Lid(inv)
    BY DEF ShareSet, HitInvs
  <2>2. Lid(x) \in 0 .. WORKGROUP - 1
    BY <2>1 DEF Lid, Invocations
  <2>3. Lid(x) % WORKGROUP = Lid(x)
    BY <2>2, GridAssumption
  <2> QED
    BY <2>1, <2>3 DEF Lid, Group, Invocations
<1>2. inv \in HitInvs(c) => inv \in S
  <2>1. Lid(inv) \in 0 .. WORKGROUP - 1
    BY DEF Lid, Invocations
  <2>2. Lid(inv) % WORKGROUP = Lid(inv)
    BY <2>1, GridAssumption
  <2> QED
    BY <2>2 DEF ShareSet
<1>3. S \subseteq HitInvs(c)
  BY DEF ShareSet
<1>4. inv \in HitInvs(c) <=> LinearIndex(c.n, inv) < c.n /\ LinearIndex(c.n, inv) \in c.hits
  BY ConfigFacts DEF HitInvs
<1> HIDE DEF S
<1>5. CASE inv \in HitInvs(c)
  <2>1. S = {inv}
    BY <1>1, <1>2, <1>5
  <2>2. Cardinality(S) = 1
    BY <2>1, FS_Singleton
  <2> QED
    BY <1>4, <1>5, <2>2 DEF S, Share
<1>6. CASE inv \notin HitInvs(c)
  <2>1. S = {}
    BY <1>1, <1>3, <1>6
  <2>2. Cardinality(S) = 0
    BY <2>1, FS_EmptySet
  <2> QED
    BY <1>4, <1>6, <2>2 DEF S, Share
<1> QED
  BY <1>5, <1>6

-----------------------------------------------------------------------------
(* The invariant.                                                          *)

Places == {"draw", "barrier", "load", "store", "add", "end"}

\* The strides of the tree: they divide the workgroup.
Rounds == {s \in 1 .. WORKGROUP \div 2 : WORKGROUP % s = 0}

Shape ==
    /\ config \in Configs
    /\ at \in [Invs -> Places]
    /\ acc \in [Invs -> 0 .. n]
    /\ stride \in [Invs -> 0 .. WORKGROUP \div 2]
    /\ partial \in [Workgroups -> [Locals -> 0 .. n \cup {Stale}]]
    /\ total \in 0 .. n

\* Before the first barrier a lane holds its own hit, once it has drawn.
DrawingLane(c, g, l, a, st, p) ==
    /\ a \in {"draw", "barrier"}
    /\ st = WORKGROUP \div 2
    /\ a = "barrier" => p = Share(c, g, WORKGROUP, l)

\* In the round of stride s, a live lane of the lower half holds the sum of the
\* two halves once it has passed the store, and what it held before until then.
SummingLane(c, g, s, l, a, st, ac, p) ==
    /\ a \in {"load", "store", "barrier"}
    /\ a = "load" => st = s
    /\ a = "store" => l < s /\ st = s /\ ac = Share(c, g, s, l)
    /\ a = "barrier" => st = s \div 2
    /\ l < s /\ a = "barrier" => p = Share(c, g, s, l)
    /\ l < 2 * s /\ ~(l < s /\ a = "barrier") => p = Share(c, g, 2 * s, l)

\* After the last barrier element 0 holds the hits of the workgroup.
AddingLane(c, g, l, a, st, p) ==
    /\ a \in {"add", "end"}
    /\ st = 0
    /\ l = 0 => p = Share(c, g, 1, 0)

Drawing(g) ==
    \A l \in Locals :
        DrawingLane(config, g, l, at[Lane(g, l)], stride[Lane(g, l)], partial[g][l])
Summing(g, s) ==
    \A l \in Locals :
        SummingLane(config, g, s, l, at[Lane(g, l)], stride[Lane(g, l)],
                    acc[Lane(g, l)], partial[g][l])
Adding(g) ==
    \A l \in Locals :
        AddingLane(config, g, l, at[Lane(g, l)], stride[Lane(g, l)], partial[g][l])

\* The lanes of a workgroup are in one phase: the barriers keep them together.
Phase(g) == Drawing(g) \/ Adding(g) \/ \E s \in Rounds : Summing(g, s)
Phases == \A g \in Workgroups : Phase(g)

\* The hits of the workgroups whose lane 0 has added theirs.
Counted(c, a) == {inv \in HitInvs(c) : a[Lane(Group(inv), 0)] = "end"}
Counting == total = Cardinality(Counted(config, at))

\* What the host's place says of the invocations and of the value.
Control ==
    /\ pc \in {"start", "waiting", "done", "failed"}
    /\ pc \in {"start", "failed"} => \A inv \in Invs : at[inv] = "draw"
    /\ pc \in {"waiting", "done"} => n < U32
    /\ pc = "failed" => n >= U32
    /\ pc # "done" => value = NoValue
    /\ pc = "done" => value = Cardinality(config.hits)

IInv == Shape /\ Phases /\ Counting /\ Control

-----------------------------------------------------------------------------
(* Lanes and rounds.                                                       *)

\* A lane is the invocation of a workgroup and a local id, and each is one.
LEMMA Lanes ==
    /\ \A g \in Workgroups, l \in Locals :
          Lane(g, l) \in Invs /\ Group(Lane(g, l)) = g /\ Lid(Lane(g, l)) = l
    /\ \A inv \in Invs :
          /\ Group(inv) \in Workgroups /\ Lid(inv) \in Locals
          /\ Lane(Group(inv), Lid(inv)) = inv
BY DEF Workgroups, Locals, Lane, Group, Lid, Invs, Invocations

\* Local ids are numbers, and 0 is one.
LEMMA LocalFacts == Locals \subseteq Nat /\ 0 \in Locals /\ WORKGROUP \in Nat \ {0}
BY GridAssumption DEF Locals

\* A divisor of the workgroup that is not 1 is twice its half.
LEMMA Halves ==
    ASSUME NEW s \in 1 .. WORKGROUP, WORKGROUP % s = 0
    PROVE  \/ s = 1 /\ s \div 2 = 0
           \/ s \div 2 \in Rounds /\ 2 * (s \div 2) = s
<1>1. WORKGROUP \in Nat \ {0} /\ s \in Nat \ {0}
  BY GridAssumption
<1>2. CASE s = 1
  BY <1>2
<1>3. CASE s # 1
  <2> DEFINE h == s \div 2
             q == WORKGROUP \div s
  <2>1. s % 2 = 0
    BY <1>1, <1>3, WorkgroupIsPowerOfTwo
  <2>2. h \in Nat /\ s = 2 * h
    BY <1>1, <2>1
  <2>3. q \in Nat /\ WORKGROUP = s * q
    BY <1>1, Division
  <2>4. WORKGROUP \div 2 \in Nat /\ WORKGROUP < 2 * (WORKGROUP \div 2) + 2
    BY <1>1
  <2> DEFINE w == WORKGROUP \div 2
  <2> HIDE DEF h, q, w
  <2>5. h \in 1 .. w
    BY <1>1, <2>2, <2>4 DEF w
  <2>6. WORKGROUP % h = 0
    <3>1. WORKGROUP = (q * 2) * h + 0 /\ q * 2 \in Nat /\ 0 \in 0 .. h - 1
      BY <2>2, <2>3, <2>5
    <3>2. h \in Nat \ {0}
      BY <2>2, <2>5
    <3> QED
      BY <3>1, <3>2, QuotientRemainder
  <2>7. h \in Rounds
    BY <2>5, <2>6 DEF Rounds, w
  <2> QED
    BY <2>2, <2>7 DEF h
<1> QED
  BY <1>2, <1>3

\* A round pairs two halves of elements of the memory.
LEMMA RoundFacts ==
    ASSUME NEW s \in Rounds
    PROVE  /\ s \in Nat \ {0} /\ 2 * s <= WORKGROUP /\ s \in 0 .. WORKGROUP \div 2
           /\ s \div 2 \in 0 .. WORKGROUP \div 2
           /\ \/ s = 1 /\ s \div 2 = 0
              \/ s \div 2 \in Rounds /\ 2 * (s \div 2) = s
<1>1. s \in 1 .. WORKGROUP \div 2 /\ WORKGROUP % s = 0 /\ WORKGROUP \in Nat \ {0}
  BY GridAssumption DEF Rounds
<1>2. s \in Nat \ {0} /\ 2 * s <= WORKGROUP /\ s \in 0 .. WORKGROUP \div 2
  BY <1>1
<1>3. s \div 2 \in Nat /\ s \div 2 <= s
  BY <1>2
<1>4. s \div 2 \in 0 .. WORKGROUP \div 2
  BY <1>1, <1>2, <1>3
<1>5. s \in 1 .. WORKGROUP
  BY <1>1, <1>2
<1> QED
  BY <1>1, <1>2, <1>4, <1>5, Halves

-----------------------------------------------------------------------------
(* What a place says of a workgroup.                                       *)

\* Where the workgroups and the invocations come from.
LEMMA ConfigShape ==
    ASSUME Shape
    PROVE  /\ config \in Configs /\ n = config.n /\ n \in Nat \ {0}
           /\ Invs = Invocations(config.n)
BY ConfigFacts DEF Shape, n, Invs

\* An invocation that has drawn is one of a run that fits u32.
LEMMA Fits ==
    ASSUME IInv, NEW inv \in Invs, at[inv] # "draw"
    PROVE  config.n < U32 /\ pc \in {"waiting", "done"}
BY DEF IInv, Control, n

\* A lane at the load or the store is in the round of its stride.
LEMMA InRound ==
    ASSUME IInv, NEW inv \in Invs, at[inv] \in {"load", "store"}
    PROVE  stride[inv] \in Rounds /\ Summing(Group(inv), stride[inv])
<1> DEFINE g == Group(inv)
           l == Lid(inv)
<1>1. g \in Workgroups /\ l \in Locals /\ Lane(g, l) = inv
  BY Lanes
<1>2. Phase(g)
  BY <1>1 DEF IInv, Phases
<1> HIDE DEF g, l
<1>3. ~Drawing(g)
  BY <1>1 DEF Drawing, DrawingLane
<1>4. ~Adding(g)
  BY <1>1 DEF Adding, AddingLane
<1>5. PICK s \in Rounds : Summing(g, s)
  BY <1>2, <1>3, <1>4 DEF Phase
<1>6. stride[inv] = s
  BY <1>1, <1>5 DEF Summing, SummingLane
<1> QED
  BY <1>5, <1>6 DEF g

\* A lane at the add has passed the last barrier.
LEMMA AtAdd ==
    ASSUME IInv, NEW inv \in Invs, at[inv] = "add"
    PROVE  Adding(Group(inv))
<1> DEFINE g == Group(inv)
           l == Lid(inv)
<1>1. g \in Workgroups /\ l \in Locals /\ Lane(g, l) = inv
  BY Lanes
<1>2. Phase(g)
  BY <1>1 DEF IInv, Phases
<1> HIDE DEF g, l
<1>3. ~Drawing(g)
  BY <1>1 DEF Drawing, DrawingLane
<1>4. \A s \in Rounds : ~Summing(g, s)
  BY <1>1 DEF Summing, SummingLane
<1> QED
  BY <1>2, <1>3, <1>4 DEF Phase, g

\* A lane that has not drawn is before the first barrier.
LEMMA AtDraw ==
    ASSUME IInv, NEW inv \in Invs, at[inv] = "draw"
    PROVE  Drawing(Group(inv))
<1> DEFINE g == Group(inv)
           l == Lid(inv)
<1>1. g \in Workgroups /\ l \in Locals /\ Lane(g, l) = inv
  BY Lanes
<1>2. Phase(g)
  BY <1>1 DEF IInv, Phases
<1> HIDE DEF g, l
<1>3. ~Adding(g)
  BY <1>1 DEF Adding, AddingLane
<1>4. \A s \in Rounds : ~Summing(g, s)
  BY <1>1 DEF Summing, SummingLane
<1> QED
  BY <1>2, <1>3, <1>4 DEF Phase, g

\* What a live lane of the lower half loads is the share of the two halves.
LEMMA LoadedSum ==
    ASSUME IInv, NEW inv \in Invs, at[inv] = "load", Lid(inv) < stride[inv]
    PROVE  (partial[Group(inv)][Lid(inv)] + partial[Group(inv)][Lid(inv) + stride[inv]]) % U32
             = Share(config, Group(inv), stride[inv], Lid(inv))
<1> DEFINE g == Group(inv)
           l == Lid(inv)
           s == stride[inv]
<1>1. g \in Workgroups /\ l \in Locals /\ Lane(g, l) = inv
  BY Lanes
<1>2. s \in Rounds /\ Summing(g, s)
  BY InRound
<1>3. l < s /\ at[inv] = "load"
  OBVIOUS
<1>4. config \in Configs /\ config.n < U32 /\ config.n \in Nat /\ U32 \in Nat
  BY Fits, ConfigShape, GridAssumption DEF IInv
<1> HIDE DEF g, l, s
<1>5. s \in Nat \ {0} /\ 2 * s <= WORKGROUP /\ l \in Nat /\ l \in 0 .. s - 1
  BY <1>1, <1>2, <1>3, RoundFacts, LocalFacts
<1>6. l + s \in Locals /\ l + s < 2 * s /\ ~(l + s < s) /\ l < 2 * s
  BY <1>5, LocalFacts DEF Locals
<1>7. partial[g][l] = Share(config, g, 2 * s, l)
  <2>1. SummingLane(config, g, s, l, "load", stride[inv], acc[inv], partial[g][l])
    BY <1>1, <1>2, <1>3 DEF Summing
  <2> QED
    BY <1>6, <2>1 DEF SummingLane
<1>8. partial[g][l + s] = Share(config, g, 2 * s, l + s)
  <2> DEFINE m == l + s
  <2>1. m \in Locals /\ m < 2 * s /\ ~(m < s)
    BY <1>6
  <2> HIDE DEF m
  <2>2. SummingLane(config, g, s, m, at[Lane(g, m)], stride[Lane(g, m)],
                    acc[Lane(g, m)], partial[g][m])
    BY <1>2, <2>1 DEF Summing
  <2>3. partial[g][m] = Share(config, g, 2 * s, m)
    BY <2>1, <2>2 DEF SummingLane
  <2> QED
    BY <2>3 DEF m
<1>9. /\ Share(config, g, s, l) = Share(config, g, 2 * s, l) + Share(config, g, 2 * s, l + s)
      /\ Share(config, g, s, l) \in 0 .. config.n
  BY <1>4, <1>5, ShareSum, ShareType
<1>10. Share(config, g, s, l) % U32 = Share(config, g, s, l)
  BY <1>4, <1>9
<1> QED
  BY <1>7, <1>8, <1>9, <1>10 DEF g, l, s

-----------------------------------------------------------------------------
(* The invariant holds in every state.                                     *)

\* The initial states satisfy the invariant.
LEMMA InitIInv == Init => IInv
<1> SUFFICES ASSUME Init PROVE IInv
  OBVIOUS
<1>1. config \in Configs /\ n \in Nat \ {0}
  BY ConfigFacts DEF Init, n
<1>2. WORKGROUP \div 2 \in 0 .. WORKGROUP \div 2
  BY GridAssumption
<1>3. Shape
  BY <1>1, <1>2 DEF Init, Shape, Places
<1>4. ASSUME NEW g \in Workgroups
      PROVE  Drawing(g)
  BY Lanes DEF Init, Drawing, DrawingLane
<1>5. Phases
  BY <1>4 DEF Phases, Phase
<1>6. Counted(config, at) = {}
  <2>1. ASSUME NEW inv \in HitInvs(config) PROVE at[Lane(Group(inv), 0)] # "end"
    <3>1. inv \in Invs
      BY DEF HitInvs, Invs, n
    <3>2. Lane(Group(inv), 0) \in Invs
      BY <3>1, Lanes, LocalFacts
    <3> QED
      BY <3>2 DEF Init
  <2> QED
    BY <2>1 DEF Counted
<1>7. Counting
  BY <1>6, FS_EmptySet DEF Counting, Init
<1>8. Control
  BY DEF Control, Init
<1> QED
  BY <1>3, <1>5, <1>7, <1>8 DEF IInv

\* A workgroup none of whose lanes moves stays in its phase.
LEMMA Frame ==
    ASSUME NEW g \in Workgroups, Phase(g), config' = config,
           \A l \in Locals : /\ at'[Lane(g, l)] = at[Lane(g, l)]
                             /\ stride'[Lane(g, l)] = stride[Lane(g, l)]
                             /\ acc'[Lane(g, l)] = acc[Lane(g, l)]
                             /\ partial'[g][l] = partial[g][l]
    PROVE  Phase(g)'
<1>1. ASSUME Drawing(g) PROVE Drawing(g)'
  BY <1>1 DEF Drawing
<1>2. ASSUME Adding(g) PROVE Adding(g)'
  BY <1>2 DEF Adding
<1>3. ASSUME NEW s \in Rounds, Summing(g, s) PROVE Summing(g, s)'
  BY <1>3 DEF Summing
<1> QED
  BY <1>1, <1>2, <1>3 DEF Phase

\* The sets an ensemble determines do not change.
LEMMA SameSets ==
    ASSUME config' = config
    PROVE  n' = n /\ Invs' = Invs /\ Workgroups' = Workgroups
BY DEF n, Invs, Workgroups

\* What is counted changes only when a lane reaches its end.
LEMMA SameCount ==
    ASSUME Counting, config' = config, total' = total,
           \A inv \in Invs : at'[inv] = "end" <=> at[inv] = "end"
    PROVE  Counting'
<1>1. ASSUME NEW inv \in HitInvs(config)
      PROVE  at'[Lane(Group(inv), 0)] = "end" <=> at[Lane(Group(inv), 0)] = "end"
  <2>1. inv \in Invs
    BY DEF HitInvs, Invs, n
  <2>2. Lane(Group(inv), 0) \in Invs
    BY <2>1, Lanes, LocalFacts
  <2> QED
    BY <2>2
<1>2. Counted(config, at') = Counted(config, at)
  BY <1>1 DEF Counted
<1> QED
  BY <1>2 DEF Counting

\* A draw keeps the invariant.
LEMMA DrawIInv == ASSUME IInv, NEW inv \in Invs, DrawMarkov(inv) PROVE IInv'
<1> DEFINE g == Group(inv)
           l == Lid(inv)
<1>1. /\ pc = "waiting" /\ at[inv] = "draw"
      /\ partial' = [partial EXCEPT ![g][l] = Hit(inv)]
      /\ at' = [at EXCEPT ![inv] = "barrier"]
      /\ UNCHANGED <<config, pc, acc, stride, total, value>>
  BY DEF DrawMarkov
<1>2. Shape /\ Phases /\ Counting /\ Control
  BY DEF IInv
<1>3. n' = n /\ Invs' = Invs /\ Workgroups' = Workgroups
  BY <1>1, SameSets
<1>4. config \in Configs /\ config.n < U32 /\ n = config.n /\ Invs = Invocations(config.n)
  BY <1>1, <1>2, ConfigShape DEF Control
<1>5. Hit(inv) = Share(config, g, WORKGROUP, l) /\ Hit(inv) \in 0 .. n
  BY <1>4, ShareOfLane, ShareType DEF Hit
<1>6. Drawing(g)
  BY <1>1, AtDraw
<1>7. g \in Workgroups /\ l \in Locals /\ Lane(g, l) = inv
  BY Lanes
<1> HIDE DEF g, l
<1>8. Shape'
  BY <1>1, <1>2, <1>3, <1>5, <1>7 DEF Shape, Places
<1>9. ASSUME NEW h \in Workgroups PROVE Phase(h)'
  <2>1. CASE h # g
    <3>1. \A m \in Locals : Lane(h, m) # inv
      BY <2>1, Lanes DEF g
    <3>2. \A m \in Locals : partial'[h][m] = partial[h][m]
      BY <1>1, <1>2, <2>1 DEF Shape
    <3>3. \A m \in Locals : at'[Lane(h, m)] = at[Lane(h, m)]
      BY <1>1, <1>2, <3>1, Lanes DEF Shape
    <3> QED
      BY <1>1, <1>2, <3>2, <3>3, Frame DEF Phases
  <2>2. CASE h = g
    <3>1. ASSUME NEW m \in Locals
          PROVE  DrawingLane(config, g, m, at'[Lane(g, m)], stride[Lane(g, m)], partial'[g][m])
      <4>1. DrawingLane(config, g, m, at[Lane(g, m)], stride[Lane(g, m)], partial[g][m])
        BY <1>6 DEF Drawing
      <4>2. CASE m = l
        <5>1. at'[inv] = "barrier" /\ partial'[g][l] = Share(config, g, WORKGROUP, l)
          BY <1>1, <1>2, <1>5, <1>7 DEF Shape
        <5> QED
          BY <1>7, <4>1, <4>2, <5>1 DEF DrawingLane
      <4>3. CASE m # l
        <5>1. Lane(g, m) # inv /\ Lane(g, m) \in Invs
          BY <1>7, <4>3, Lanes
        <5>2. at'[Lane(g, m)] = at[Lane(g, m)] /\ partial'[g][m] = partial[g][m]
          BY <1>1, <1>2, <1>7, <4>3, <5>1 DEF Shape
        <5> QED
          BY <4>1, <5>2
      <4> QED
        BY <4>2, <4>3
    <3>2. Drawing(g)'
      BY <1>1, <3>1 DEF Drawing
    <3> QED
      BY <2>2, <3>2 DEF Phase
  <2> QED
    BY <2>1, <2>2
<1>10. Phases'
  BY <1>3, <1>9 DEF Phases
<1>11. Counting'
  <2>1. \A other \in Invs : at'[other] = "end" <=> at[other] = "end"
    BY <1>1, <1>2 DEF Shape
  <2> QED
    BY <1>1, <1>2, <2>1, SameCount
<1>12. Control'
  BY <1>1, <1>2, <1>3 DEF Control
<1> QED
  BY <1>8, <1>10, <1>11, <1>12 DEF IInv

\* A lane that moves within its round leaves the other workgroups alone, and
\* its own in that round if the lane is as the round says.
LEMMA RoundMove ==
    ASSUME Shape, Phases, NEW inv \in Invs, NEW s \in Rounds, Summing(Group(inv), s),
           config' = config,
           \A other \in Invs \ {inv} : /\ at'[other] = at[other]
                                       /\ acc'[other] = acc[other]
                                       /\ stride'[other] = stride[other],
           \A h \in Workgroups, m \in Locals :
               Lane(h, m) # inv => partial'[h][m] = partial[h][m],
           SummingLane(config, Group(inv), s, Lid(inv), at'[inv], stride'[inv],
                       acc'[inv], partial'[Group(inv)][Lid(inv)])
    PROVE  Phases'
<1> DEFINE g == Group(inv)
           l == Lid(inv)
<1>1. g \in Workgroups /\ l \in Locals /\ Lane(g, l) = inv
  BY Lanes
<1>2. Workgroups' = Workgroups
  BY SameSets
<1>3. Summing(g, s)
  OBVIOUS
<1>4. SummingLane(config, g, s, l, at'[inv], stride'[inv], acc'[inv], partial'[g][l])
  OBVIOUS
<1>5. ASSUME NEW h \in Workgroups PROVE Phase(h)'
  <2>1. CASE h # g
    <3>1. \A m \in Locals : Lane(h, m) \in Invs \ {inv}
      BY <2>1, Lanes
    <3> QED
      BY <3>1, Frame DEF Phases
  <2>2. CASE h = g
    <3> HIDE DEF g, l
    <3>1. ASSUME NEW m \in Locals
          PROVE  SummingLane(config, g, s, m, at'[Lane(g, m)], stride'[Lane(g, m)],
                             acc'[Lane(g, m)], partial'[g][m])
      <4>1. CASE m = l
        BY <1>1, <1>4, <4>1
      <4>2. CASE m # l
        <5>1. Lane(g, m) # inv /\ Lane(g, m) \in Invs
          BY <1>1, <4>2, Lanes
        <5>2. /\ at'[Lane(g, m)] = at[Lane(g, m)] /\ acc'[Lane(g, m)] = acc[Lane(g, m)]
              /\ stride'[Lane(g, m)] = stride[Lane(g, m)] /\ partial'[g][m] = partial[g][m]
          BY <1>1, <5>1
        <5>3. SummingLane(config, g, s, m, at[Lane(g, m)], stride[Lane(g, m)],
                          acc[Lane(g, m)], partial[g][m])
          BY <1>3 DEF Summing
        <5> QED
          BY <5>2, <5>3
      <4> QED
        BY <4>1, <4>2
    <3>2. Summing(g, s)'
      BY <3>1 DEF Summing
    <3> QED
      BY <2>2, <3>2 DEF Phase
  <2> QED
    BY <2>1, <2>2
<1> QED
  BY <1>2, <1>5 DEF Phases

\* A load keeps the invariant.
LEMMA LoadIInv == ASSUME IInv, NEW inv \in Invs, Load(inv) PROVE IInv'
<1> DEFINE g == Group(inv)
           l == Lid(inv)
           s == stride[inv]
<1>1. /\ at[inv] = "load" /\ l < s
      /\ acc' = [acc EXCEPT ![inv] = Share(config, g, s, l)]
      /\ at' = [at EXCEPT ![inv] = "store"]
      /\ UNCHANGED <<config, pc, stride, partial, total, value>>
  BY LoadedSum DEF Load
<1>2. Shape /\ Phases /\ Counting /\ Control
  BY DEF IInv
<1>3. n' = n /\ Invs' = Invs /\ Workgroups' = Workgroups
  BY <1>1, SameSets
<1>4. s \in Rounds /\ Summing(g, s)
  BY <1>1, InRound
<1>5. Share(config, g, s, l) \in 0 .. n
  BY <1>1, <1>2, Fits, ConfigShape, ShareType
<1>6. g \in Workgroups /\ l \in Locals /\ Lane(g, l) = inv
  BY Lanes
<1>7. SummingLane(config, g, s, l, at[inv], stride[inv], acc[inv], partial[g][l])
  <2> HIDE DEF g, l, s
  <2> QED
    BY <1>4, <1>6 DEF Summing
<1>8. Shape'
  BY <1>1, <1>2, <1>3, <1>5 DEF Shape, Places
<1>9. Phases'
  <2>1. at'[inv] = "store" /\ acc'[inv] = Share(config, g, s, l) /\ stride'[inv] = s
    BY <1>1, <1>2 DEF Shape
  <2>2. SummingLane(config, g, s, l, at'[inv], stride'[inv], acc'[inv], partial'[g][l])
    <3>1. partial'[g][l] = partial[g][l]
      BY <1>1
    <3> HIDE DEF g, l, s
    <3> QED
      BY <1>1, <1>7, <2>1, <3>1 DEF SummingLane
  <2>3. \A other \in Invs \ {inv} : /\ at'[other] = at[other] /\ acc'[other] = acc[other]
                                    /\ stride'[other] = stride[other]
    BY <1>1, <1>2 DEF Shape
  <2>4. \A h \in Workgroups, m \in Locals :
            Lane(h, m) # inv => partial'[h][m] = partial[h][m]
    BY <1>1
  <2> QED
    BY <1>1, <1>2, <1>4, <2>2, <2>3, <2>4, RoundMove
<1>10. Counting'
  <2>1. \A other \in Invs : at'[other] = "end" <=> at[other] = "end"
    BY <1>1, <1>2 DEF Shape
  <2> QED
    BY <1>1, <1>2, <2>1, SameCount
<1>11. Control'
  BY <1>1, <1>2, <1>3 DEF Control, Shape
<1> QED
  BY <1>8, <1>9, <1>10, <1>11 DEF IInv

\* A store keeps the invariant.
LEMMA StoreIInv == ASSUME IInv, NEW inv \in Invs, Store(inv) PROVE IInv'
<1> DEFINE g == Group(inv)
           l == Lid(inv)
           s == stride[inv]
<1>1. /\ at[inv] = "store"
      /\ partial' = [partial EXCEPT ![g][l] = acc[inv]]
      /\ acc' = [acc EXCEPT ![inv] = 0]
      /\ stride' = [stride EXCEPT ![inv] = s \div 2]
      /\ at' = [at EXCEPT ![inv] = "barrier"]
      /\ UNCHANGED <<config, pc, total, value>>
  BY DEF Store, NextStride
<1>2. Shape /\ Phases /\ Counting /\ Control
  BY DEF IInv
<1>3. n' = n /\ Invs' = Invs /\ Workgroups' = Workgroups
  BY <1>1, SameSets
<1>4. s \in Rounds /\ Summing(g, s)
  BY <1>1, InRound
<1>5. g \in Workgroups /\ l \in Locals /\ Lane(g, l) = inv
  BY Lanes
<1>6. SummingLane(config, g, s, l, at[inv], stride[inv], acc[inv], partial[g][l])
  <2> HIDE DEF g, l, s
  <2> QED
    BY <1>4, <1>5 DEF Summing
<1>7. s \div 2 \in 0 .. WORKGROUP \div 2 /\ 0 \in 0 .. n /\ acc[inv] \in 0 .. n
  BY <1>2, <1>4, RoundFacts, ConfigShape DEF Shape
<1>8. Shape'
  <2> DEFINE half == s \div 2
  <2>1. half \in 0 .. WORKGROUP \div 2 /\ stride' = [stride EXCEPT ![inv] = half]
    BY <1>1, <1>7
  <2> HIDE DEF g, l, s, half
  <2>2. partial' \in [Workgroups -> [Locals -> 0 .. n \cup {Stale}]]
    BY <1>1, <1>2, <1>5, <1>7 DEF Shape
  <2> QED
    BY <1>1, <1>2, <1>3, <1>7, <2>1, <2>2 DEF Shape, Places
<1>9. Phases'
  <2>1. at'[inv] = "barrier" /\ stride'[inv] = s \div 2 /\ partial'[g][l] = acc[inv]
    BY <1>1, <1>2, <1>5 DEF Shape
  <2>2. SummingLane(config, g, s, l, at'[inv], stride'[inv], acc'[inv], partial'[g][l])
    <3> HIDE DEF g, l, s
    <3> QED
      BY <1>1, <1>6, <2>1 DEF SummingLane
  <2>3. \A other \in Invs \ {inv} : /\ at'[other] = at[other] /\ acc'[other] = acc[other]
                                    /\ stride'[other] = stride[other]
    BY <1>1, <1>2 DEF Shape
  <2>4. ASSUME NEW h \in Workgroups, NEW m \in Locals, Lane(h, m) # inv
        PROVE  partial'[h][m] = partial[h][m]
    <3>1. h # g \/ m # l
      BY <1>5, <2>4
    <3> HIDE DEF g, l, s
    <3> QED
      BY <1>1, <1>2, <1>5, <3>1 DEF Shape
  <2> QED
    BY <1>1, <1>2, <1>4, <2>2, <2>3, <2>4, RoundMove
<1>10. Counting'
  <2>1. \A other \in Invs : at'[other] = "end" <=> at[other] = "end"
    BY <1>1, <1>2 DEF Shape
  <2> QED
    BY <1>1, <1>2, <2>1, SameCount
<1>11. Control'
  BY <1>1, <1>2, <1>3 DEF Control, Shape
<1> QED
  BY <1>8, <1>9, <1>10, <1>11 DEF IInv

\* A lane that skips the sum keeps the invariant.
LEMMA SkipIInv == ASSUME IInv, NEW inv \in Invs, Skip(inv) PROVE IInv'
<1> DEFINE g == Group(inv)
           l == Lid(inv)
           s == stride[inv]
<1>1. /\ at[inv] = "load" /\ l >= s
      /\ stride' = [stride EXCEPT ![inv] = s \div 2]
      /\ at' = [at EXCEPT ![inv] = "barrier"]
      /\ UNCHANGED <<config, pc, acc, partial, total, value>>
  BY DEF Skip, NextStride
<1>2. Shape /\ Phases /\ Counting /\ Control
  BY DEF IInv
<1>3. n' = n /\ Invs' = Invs /\ Workgroups' = Workgroups
  BY <1>1, SameSets
<1>4. s \in Rounds /\ Summing(g, s)
  BY <1>1, InRound
<1>5. g \in Workgroups /\ l \in Locals /\ Lane(g, l) = inv
  BY Lanes
<1>6. SummingLane(config, g, s, l, at[inv], stride[inv], acc[inv], partial[g][l])
  <2> HIDE DEF g, l, s
  <2> QED
    BY <1>4, <1>5 DEF Summing
<1>7. s \div 2 \in 0 .. WORKGROUP \div 2 /\ s \in Nat /\ l \in Nat
  BY <1>4, <1>5, RoundFacts, LocalFacts
<1>8. Shape'
  <2> DEFINE half == s \div 2
  <2>1. half \in 0 .. WORKGROUP \div 2 /\ stride' = [stride EXCEPT ![inv] = half]
    BY <1>1, <1>7
  <2> HIDE DEF g, l, s, half
  <2> QED
    BY <1>1, <1>2, <1>3, <2>1 DEF Shape, Places
<1>9. Phases'
  <2>1. at'[inv] = "barrier" /\ stride'[inv] = s \div 2 /\ partial'[g][l] = partial[g][l]
    BY <1>1, <1>2 DEF Shape
  <2>2. SummingLane(config, g, s, l, at'[inv], stride'[inv], acc'[inv], partial'[g][l])
    <3> HIDE DEF g, l, s
    <3> QED
      BY <1>1, <1>6, <1>7, <2>1 DEF SummingLane
  <2>3. \A other \in Invs \ {inv} : /\ at'[other] = at[other] /\ acc'[other] = acc[other]
                                    /\ stride'[other] = stride[other]
    BY <1>1, <1>2 DEF Shape
  <2>4. \A h \in Workgroups, m \in Locals :
            Lane(h, m) # inv => partial'[h][m] = partial[h][m]
    BY <1>1
  <2> QED
    BY <1>1, <1>2, <1>4, <2>2, <2>3, <2>4, RoundMove
<1>10. Counting'
  <2>1. \A other \in Invs : at'[other] = "end" <=> at[other] = "end"
    BY <1>1, <1>2 DEF Shape
  <2> QED
    BY <1>1, <1>2, <2>1, SameCount
<1>11. Control'
  BY <1>1, <1>2, <1>3 DEF Control, Shape
<1> QED
  BY <1>8, <1>9, <1>10, <1>11 DEF IInv

\* Behind a barrier that all its lanes have reached, a workgroup is in its next
\* phase: the first round, the round of half the stride, or the add.
LEMMA NextPhase ==
    ASSUME IInv, NEW g \in Workgroups, config' = config,
           \A l \in Locals : at[Lane(g, l)] = "barrier",
           \A l \in Locals :
               at'[Lane(g, l)] = IF stride[Lane(g, l)] > 0 THEN "load" ELSE "add",
           stride' = stride, acc' = acc, partial' = partial
    PROVE  Phase(g)'
<1>1. Phase(g)
  BY DEF IInv, Phases
<1>2. WORKGROUP \in Nat \ {0} /\ WORKGROUP \in 1 .. WORKGROUP /\ WORKGROUP % WORKGROUP = 0
  BY GridAssumption
<1>3. ~Adding(g)
  BY LocalFacts DEF Adding, AddingLane
<1>4. ASSUME NEW s \in Nat, \/ s = 1 /\ s \div 2 = 0
                            \/ s \div 2 \in Rounds /\ 2 * (s \div 2) = s,
             \A l \in Locals : /\ stride[Lane(g, l)] = s \div 2
                               /\ l < s => partial[g][l] = Share(config, g, s, l)
      PROVE  Phase(g)'
  <2>1. CASE s = 1 /\ s \div 2 = 0
    <3>1. ASSUME NEW l \in Locals
          PROVE  AddingLane(config, g, l, at'[Lane(g, l)], stride[Lane(g, l)], partial[g][l])
      <4>1. stride[Lane(g, l)] = 0 /\ (l < 1 => partial[g][l] = Share(config, g, 1, l))
        BY <1>4, <2>1
      <4>2. at'[Lane(g, l)] = "add"
        BY <4>1
      <4> QED
        BY <4>1, <4>2 DEF AddingLane
    <3>2. Adding(g)'
      BY <3>1 DEF Adding
    <3> QED
      BY <3>2 DEF Phase
  <2>2. CASE s \div 2 \in Rounds /\ 2 * (s \div 2) = s
    <3> DEFINE h == s \div 2
    <3>1. h \in Rounds /\ 2 * h = s
      BY <2>2
    <3>2. \A l \in Locals : /\ stride[Lane(g, l)] = h
                            /\ l < s => partial[g][l] = Share(config, g, s, l)
      BY <1>4
    <3> HIDE DEF h
    <3>3. h \in Nat \ {0}
      BY <3>1, RoundFacts
    <3>4. ASSUME NEW l \in Locals
          PROVE  SummingLane(config, g, h, l, at'[Lane(g, l)], stride[Lane(g, l)],
                             acc[Lane(g, l)], partial[g][l])
      <4>1. at'[Lane(g, l)] = "load"
        BY <3>2, <3>3
      <4> QED
        BY <3>1, <3>2, <4>1 DEF SummingLane
    <3>5. Summing(g, h)'
      BY <3>4 DEF Summing
    <3> QED
      BY <3>1, <3>5 DEF Phase
  <2> QED
    BY <1>4, <2>1, <2>2
<1>5. CASE Drawing(g)
  <2>1. \A l \in Locals : /\ stride[Lane(g, l)] = WORKGROUP \div 2
                          /\ partial[g][l] = Share(config, g, WORKGROUP, l)
    BY <1>5 DEF Drawing, DrawingLane
  <2> QED
    BY <1>2, <1>4, <2>1, Halves
<1>6. ASSUME NEW s \in Rounds, Summing(g, s) PROVE Phase(g)'
  <2>1. \A l \in Locals : /\ stride[Lane(g, l)] = s \div 2
                          /\ l < s => partial[g][l] = Share(config, g, s, l)
    BY <1>6 DEF Summing, SummingLane
  <2>2. s \in Nat /\ (\/ s = 1 /\ s \div 2 = 0
                      \/ s \div 2 \in Rounds /\ 2 * (s \div 2) = s)
    BY RoundFacts
  <2> QED
    BY <1>4, <2>1, <2>2
<1> QED
  BY <1>1, <1>3, <1>5, <1>6 DEF Phase

\* A barrier keeps the invariant.
LEMMA BarrierIInv == ASSUME IInv, NEW g \in Workgroups, PassBarrier(g) PROVE IInv'
<1>1. /\ \A inv \in Peers(g) : at[inv] = "barrier"
      /\ at' = [inv \in Invs |-> IF inv \in Peers(g) THEN AfterBarrier(inv) ELSE at[inv]]
      /\ UNCHANGED <<config, pc, acc, stride, partial, total, value>>
  BY DEF PassBarrier
<1>2. Shape /\ Phases /\ Counting /\ Control
  BY DEF IInv
<1>3. n' = n /\ Invs' = Invs /\ Workgroups' = Workgroups
  BY <1>1, SameSets
<1>4. \A inv \in Invs : AfterBarrier(inv) \in {"load", "add"}
  BY DEF AfterBarrier
<1>5. \A h \in Workgroups, l \in Locals :
          Lane(h, l) \in Invs /\ (Lane(h, l) \in Peers(g) <=> h = g)
  BY Lanes DEF Peers
<1>6. Shape'
  BY <1>1, <1>2, <1>3, <1>4 DEF Shape, Places
<1>7. ASSUME NEW h \in Workgroups PROVE Phase(h)'
  <2>1. CASE h # g
    <3>1. \A l \in Locals : at'[Lane(h, l)] = at[Lane(h, l)]
      BY <1>1, <1>5, <2>1
    <3> QED
      BY <1>1, <1>2, <3>1, Frame DEF Phases
  <2>2. CASE h = g
    <3>1. \A l \in Locals : at[Lane(g, l)] = "barrier"
      BY <1>1, <1>5
    <3>2. \A l \in Locals :
              at'[Lane(g, l)] = IF stride[Lane(g, l)] > 0 THEN "load" ELSE "add"
      BY <1>1, <1>5 DEF AfterBarrier
    <3> QED
      BY <1>1, <2>2, <3>1, <3>2, NextPhase
  <2> QED
    BY <2>1, <2>2
<1>8. Phases'
  BY <1>3, <1>7 DEF Phases
<1>9. Counting'
  <2>1. \A inv \in Invs : at'[inv] = "end" <=> at[inv] = "end"
    BY <1>1, <1>2, <1>4 DEF Shape
  <2> QED
    BY <1>1, <1>2, <2>1, SameCount
<1>10. Control'
  <2>1. Lane(g, 0) \in Invs /\ Lane(g, 0) \in Peers(g)
    BY <1>5, LocalFacts
  <2>2. at[Lane(g, 0)] # "draw"
    BY <1>1, <2>1
  <2>3. pc \notin {"start", "failed"}
    BY <1>2, <2>1, <2>2 DEF Control
  <2> QED
    BY <1>1, <1>2, <1>3, <2>3 DEF Control
<1> QED
  BY <1>6, <1>8, <1>9, <1>10 DEF IInv

\* The hits a lane 0 adds have not been counted before.
LEMMA CountedGrows ==
    ASSUME NEW c \in Configs, c.n < U32, NEW a, NEW b, NEW g \in Workgroups, c = config,
           a[Lane(g, 0)] # "end",
           \A h \in Workgroups : b[Lane(h, 0)] = IF h = g THEN "end" ELSE a[Lane(h, 0)]
    PROVE  /\ Cardinality(Counted(c, b)) = Cardinality(Counted(c, a)) + Share(c, g, 1, 0)
           /\ Cardinality(Counted(c, b)) \in 0 .. c.n
<1> DEFINE A == Counted(c, a)
           B == Counted(c, b)
           S == ShareSet(c, g, 1, 0)
<1>1. \A inv \in HitInvs(c) : Group(inv) \in Workgroups /\ Lid(inv) \in Nat
  BY Lanes, LocalFacts DEF HitInvs, Invs, n
<1>2. \A inv \in HitInvs(c) : Lid(inv) % 1 = 0
  BY <1>1
<1>3. S = {inv \in HitInvs(c) : Group(inv) = g}
  BY <1>2 DEF ShareSet
<1>4. B = A \cup S
  BY <1>1, <1>3 DEF Counted
<1>5. A \cap S = {}
  BY <1>3 DEF Counted
<1>6. /\ IsFiniteSet(HitInvs(c)) /\ Cardinality(HitInvs(c)) \in 0 .. c.n
      /\ IsFiniteSet(S) /\ Cardinality(S) \in 0 .. c.n /\ c.n \in Nat
  BY HitsFound, ShareType, ConfigFacts DEF Share
<1>7. A \subseteq HitInvs(c) /\ B \subseteq HitInvs(c)
  BY DEF Counted
<1> HIDE DEF A, B, S
<1>8. IsFiniteSet(A) /\ IsFiniteSet(B) /\ Cardinality(B) <= Cardinality(HitInvs(c))
  BY <1>6, <1>7, FS_Subset
<1>9. Cardinality(A) \in Nat /\ Cardinality(B) \in Nat
  BY <1>8, FS_CardinalityType
<1>10. Cardinality(A \cup S) = Cardinality(A) + Cardinality(S) - Cardinality(A \cap S)
  BY <1>6, <1>8, FS_Union
<1>11. Cardinality(A \cap S) = 0
  BY <1>5, FS_EmptySet
<1>12. Cardinality(B) = Cardinality(A) + Cardinality(S)
  BY <1>4, <1>6, <1>9, <1>10, <1>11
<1>13. Cardinality(B) \in 0 .. c.n
  BY <1>6, <1>8, <1>9
<1> QED
  BY <1>12, <1>13 DEF A, B, S, Share

\* An add keeps the invariant.
LEMMA AddIInv == ASSUME IInv, NEW inv \in Invs, AddToTotal(inv) PROVE IInv'
<1> DEFINE g == Group(inv)
           l == Lid(inv)
<1>1. /\ at[inv] = "add"
      /\ total' = IF l = 0 THEN (total + partial[g][0]) % U32 ELSE total
      /\ at' = [at EXCEPT ![inv] = "end"]
      /\ UNCHANGED <<config, pc, acc, stride, partial, value>>
  BY DEF AddToTotal
<1>2. Shape /\ Phases /\ Counting /\ Control
  BY DEF IInv
<1>3. n' = n /\ Invs' = Invs /\ Workgroups' = Workgroups
  BY <1>1, SameSets
<1>4. Adding(g)
  BY <1>1, AtAdd
<1>5. g \in Workgroups /\ l \in Locals /\ Lane(g, l) = inv
  BY Lanes
<1>6. config \in Configs /\ config.n < U32 /\ n = config.n /\ n \in Nat /\ U32 \in Nat \ {0}
  BY <1>1, <1>2, Fits, ConfigShape, GridAssumption
<1>7. at'[inv] = "end" /\ \A other \in Invs \ {inv} : at'[other] = at[other]
  BY <1>1, <1>2 DEF Shape
<1> HIDE DEF g, l
<1>8. \A h \in Workgroups : Lane(h, 0) \in Invs /\ (Lane(h, 0) = inv <=> h = g /\ l = 0)
  <2>1. Lid(inv) = l /\ Group(inv) = g
    BY DEF g, l
  <2> QED
    BY <1>5, <2>1, Lanes, LocalFacts
<1>9. Counting' /\ total' \in 0 .. n
  <2>1. CASE l = 0
    <3>1. at[Lane(g, 0)] # "end"
      BY <1>1, <1>5, <2>1
    <3>2. \A h \in Workgroups : at'[Lane(h, 0)] = IF h = g THEN "end" ELSE at[Lane(h, 0)]
      BY <1>7, <1>8, <2>1
    <3>3. /\ Cardinality(Counted(config, at'))
               = Cardinality(Counted(config, at)) + Share(config, g, 1, 0)
          /\ Cardinality(Counted(config, at')) \in 0 .. config.n
      BY <1>5, <1>6, <3>1, <3>2, CountedGrows
    <3>4. partial[g][0] = Share(config, g, 1, 0)
      <4>1. AddingLane(config, g, 0, at[Lane(g, 0)], stride[Lane(g, 0)], partial[g][0])
        BY <1>4, LocalFacts DEF Adding
      <4> QED
        BY <4>1 DEF AddingLane
    <3>5. total + partial[g][0] = Cardinality(Counted(config, at'))
      BY <1>2, <3>3, <3>4 DEF Counting
    <3>6. (total + partial[g][0]) % U32 = Cardinality(Counted(config, at'))
      BY <1>6, <3>3, <3>5
    <3> QED
      BY <1>1, <1>6, <2>1, <3>3, <3>6 DEF Counting
  <2>2. CASE l # 0
    <3>1. \A h \in Workgroups : at'[Lane(h, 0)] = at[Lane(h, 0)]
      BY <1>7, <1>8, <2>2
    <3>2. \A other \in HitInvs(config) : Group(other) \in Workgroups
      BY Lanes DEF HitInvs, Invs, n
    <3>3. Counted(config, at') = Counted(config, at)
      BY <3>1, <3>2 DEF Counted
    <3> QED
      BY <1>1, <1>2, <2>2, <3>3 DEF Counting, Shape
  <2> QED
    BY <2>1, <2>2
<1>10. Shape'
  BY <1>1, <1>2, <1>3, <1>9 DEF Shape, Places
<1>11. ASSUME NEW h \in Workgroups PROVE Phase(h)'
  <2>1. CASE h # g
    <3>1. \A m \in Locals : Lane(h, m) \in Invs \ {inv}
      BY <2>1, Lanes DEF g
    <3>2. \A m \in Locals : at'[Lane(h, m)] = at[Lane(h, m)]
      BY <1>7, <3>1
    <3> QED
      BY <1>1, <1>2, <3>2, Frame DEF Phases
  <2>2. CASE h = g
    <3>1. ASSUME NEW m \in Locals
          PROVE  AddingLane(config, g, m, at'[Lane(g, m)], stride[Lane(g, m)], partial[g][m])
      <4>1. AddingLane(config, g, m, at[Lane(g, m)], stride[Lane(g, m)], partial[g][m])
        BY <1>4 DEF Adding
      <4>2. at'[Lane(g, m)] = "end" \/ at'[Lane(g, m)] = at[Lane(g, m)]
        BY <1>5, <1>7, Lanes
      <4> QED
        BY <4>1, <4>2 DEF AddingLane
    <3>2. Adding(g)'
      BY <1>1, <3>1 DEF Adding
    <3> QED
      BY <2>2, <3>2 DEF Phase
  <2> QED
    BY <2>1, <2>2
<1>12. Phases'
  BY <1>3, <1>11 DEF Phases
<1>13. Control'
  BY <1>1, <1>2, <1>3 DEF Control
<1> QED
  BY <1>9, <1>10, <1>12, <1>13 DEF IInv

\* The host's steps leave the device's state alone.
LEMMA Device ==
    ASSUME Shape, Phases, Counting, UNCHANGED <<config, at, acc, stride, partial, total>>
    PROVE  Shape' /\ Phases' /\ Counting'
<1>1. n' = n /\ Invs' = Invs /\ Workgroups' = Workgroups
  BY SameSets
<1>2. Shape'
  BY <1>1 DEF Shape
<1>3. \A g \in Workgroups : Phase(g)'
  BY Frame DEF Phases
<1>4. Counting'
  BY DEF Counting
<1> QED
  BY <1>1, <1>2, <1>3, <1>4 DEF Phases

\* When every lane is at its end, every hit has been counted.
LEMMA AllCounted ==
    ASSUME IInv, pc = "waiting", \A inv \in Invs : at[inv] = "end"
    PROVE  total = Cardinality(config.hits)
<1>1. Counted(config, at) = HitInvs(config)
  <2>1. ASSUME NEW inv \in HitInvs(config) PROVE at[Lane(Group(inv), 0)] = "end"
    <3>1. inv \in Invs
      BY DEF HitInvs, Invs, n
    <3>2. Lane(Group(inv), 0) \in Invs
      BY <3>1, Lanes, LocalFacts
    <3> QED
      BY <3>2
  <2> QED
    BY <2>1 DEF Counted
<1>2. config \in Configs /\ config.n < U32
  BY DEF IInv, Shape, Control, n
<1>3. Cardinality(HitInvs(config)) = Cardinality(config.hits)
  BY <1>2, HitsFound
<1> QED
  BY <1>1, <1>3 DEF IInv, Counting

\* The host's steps keep the invariant.
LEMMA HostIInv == ASSUME IInv, Refuse \/ Submit \/ ReadCount PROVE IInv'
<1>1. Shape /\ Phases /\ Counting /\ Control
  BY DEF IInv
<1>2. UNCHANGED <<config, at, acc, stride, partial, total>>
  BY DEF Refuse, Submit, ReadCount
<1>3. Shape' /\ Phases' /\ Counting'
  BY <1>1, <1>2, Device
<1>4. n' = n /\ Invs' = Invs /\ n \in Nat /\ U32 \in Nat
  BY <1>1, <1>2, SameSets, ConfigShape, GridAssumption
<1> QED
  <2>1. CASE Refuse
    BY <1>1, <1>2, <1>3, <1>4, <2>1 DEF Refuse, Control, IInv
  <2>2. CASE Submit
    BY <1>1, <1>2, <1>3, <1>4, <2>2 DEF Submit, Control, IInv
  <2>3. CASE ReadCount
    <3>1. total = Cardinality(config.hits)
      BY <2>3, AllCounted DEF ReadCount
    <3> QED
      BY <1>1, <1>2, <1>3, <1>4, <2>3, <3>1 DEF ReadCount, Control, IInv
  <2> QED
    BY <2>1, <2>2, <2>3

\* Every step keeps the invariant.
LEMMA NextIInv == ASSUME IInv, [Next]_vars PROVE IInv'
<1>1. CASE Refuse \/ Submit \/ ReadCount
  BY <1>1, HostIInv
<1>2. ASSUME NEW inv \in Invs, Invocation(inv) PROVE IInv'
  BY <1>2, DrawIInv, LoadIInv, StoreIInv, SkipIInv, AddIInv DEF Invocation
<1>3. ASSUME NEW g \in Workgroups, PassBarrier(g) PROVE IInv'
  BY <1>3, BarrierIInv
<1>4. CASE Ended \/ UNCHANGED vars
  <2>1. UNCHANGED vars
    BY <1>4 DEF Ended
  <2>2. Shape' /\ Phases' /\ Counting'
    BY <2>1, Device DEF IInv, vars
  <2>3. n' = n /\ Invs' = Invs
    BY <2>1, SameSets DEF vars
  <2>4. Control'
    BY <2>1, <2>3 DEF IInv, vars, Control
  <2> QED
    BY <2>2, <2>4 DEF IInv
<1> QED
  BY <1>1, <1>2, <1>3, <1>4 DEF Next

-----------------------------------------------------------------------------
(* The theorems.                                                           *)

\* The invariant holds in every state of a run.
LEMMA Always == Spec => []IInv
<1>1. Init => IInv
  BY InitIInv
<1>2. IInv /\ [Next]_vars => IInv'
  BY NextIInv
<1> QED
  BY <1>1, <1>2, PTL DEF Spec

\* Every state of a run has its type; the counter, the sums and the workgroup
\* memory never exceed n.
THEOREM TypeCorrect == Spec => []TypeOK
<1>1. IInv => TypeOK
  BY DEF IInv, Shape, Control, TypeOK, Places
<1> QED
  BY <1>1, Always, PTL

\* Two lanes of a workgroup that are in one round touch the memory apart.
LEMMA RoundRaceFree ==
    ASSUME IInv, NEW inv \in Invs, NEW other \in Peers(Group(inv)) \ {inv}
    PROVE  Storing(inv) \cap (Storing(other) \cup Loading(other)) = {}
<1> DEFINE g == Group(inv)
           l == Lid(inv)
           m == Lid(other)
<1>1. /\ g \in Workgroups /\ l \in Locals /\ Lane(g, l) = inv
      /\ m \in Locals /\ Lane(g, m) = other /\ other \in Invs
      /\ l # m /\ l \in Nat /\ m \in Nat
  BY Lanes, LocalFacts DEF Peers
<1>2. Phase(g)
  BY <1>1 DEF IInv, Phases
<1> HIDE DEF g, l, m
<1>3. CASE Drawing(g)
  <2>1. at[inv] \in {"draw", "barrier"} /\ at[other] \in {"draw", "barrier"}
    BY <1>1, <1>3 DEF Drawing, DrawingLane
  <2> QED
    BY <1>1, <2>1 DEF Storing, Loading, l, m
<1>4. CASE Adding(g)
  <2>1. at[inv] \in {"add", "end"}
    BY <1>1, <1>4 DEF Adding, AddingLane
  <2> QED
    BY <2>1 DEF Storing
<1>5. ASSUME NEW s \in Rounds, Summing(g, s)
      PROVE  Storing(inv) \cap (Storing(other) \cup Loading(other)) = {}
  <2>1. s \in Nat
    BY RoundFacts
  <2>2. /\ at[inv] \in {"load", "store", "barrier"}
        /\ at[inv] \in {"load", "store"} => stride[inv] = s
        /\ at[other] \in {"load", "store", "barrier"}
        /\ at[other] \in {"load", "store"} => stride[other] = s
    BY <1>1, <1>5 DEF Summing, SummingLane
  <2>3. Storing(inv) \subseteq {l} /\ (Storing(inv) # {} => l < s)
    BY <2>2 DEF Storing, l
  <2>4. Storing(other) \cup Loading(other) \subseteq {m, m + s}
    BY <2>2 DEF Storing, Loading, m
  <2> QED
    BY <1>1, <2>1, <2>3, <2>4
<1> QED
  BY <1>2, <1>3, <1>4, <1>5 DEF Phase

\* No two invocations of a workgroup race for its memory between two barriers.
THEOREM WorkgroupRaceFree == Spec => []NoWorkgroupRace
<1>1. IInv => NoWorkgroupRace
  BY RoundRaceFree DEF NoWorkgroupRace
<1> QED
  BY <1>1, Always, PTL

\* Whatever the grid, the workgroup and the schedule, the count is the number of
\* hits, and a run is refused exactly when n is not a u32.
THEOREM MarkovImplementsEnsemble == Spec => ImplementsEnsemble
<1>1. Init => Reference!Init
  BY DEF Init, Reference!Init
<1>2. IInv /\ [Next]_vars => [Reference!Next]_(Reference!vars)
  <2> SUFFICES ASSUME IInv, [Next]_vars
               PROVE  Reference!Next \/ UNCHANGED Reference!vars
    OBVIOUS
  <2>1. n \in Nat /\ U32 \in Nat /\ n = config.n
    BY ConfigShape, GridAssumption DEF IInv
  <2>2. CASE Refuse
    BY <2>1, <2>2 DEF Refuse, Reference!Next, Reference!Fail, FitsU32
  <2>3. CASE Submit
    BY <2>3 DEF Submit, Reference!vars
  <2>4. CASE ReadCount
    <3>1. total = Cardinality(config.hits) /\ n < U32
      BY <2>4, AllCounted DEF ReadCount, IInv, Control
    <3> QED
      BY <2>1, <2>4, <3>1 DEF ReadCount, Reference!Next, Reference!Return, FitsU32, CountOf
  <2>5. CASE UNCHANGED <<config, pc, value>>
    BY <2>5 DEF Reference!vars
  <2>6. CASE Ended \/ UNCHANGED vars
    BY <2>5, <2>6 DEF Ended, vars
  <2>7. ASSUME NEW inv \in Invs, Invocation(inv)
        PROVE  UNCHANGED <<config, pc, value>>
    BY <2>7 DEF Invocation, DrawMarkov, Load, Store, Skip, AddToTotal
  <2>8. ASSUME NEW g \in Workgroups, PassBarrier(g)
        PROVE  UNCHANGED <<config, pc, value>>
    BY <2>8 DEF PassBarrier
  <2> QED
    BY <2>2, <2>3, <2>4, <2>5, <2>6, <2>7, <2>8 DEF Next
<1> QED
  BY <1>1, <1>2, Always, PTL DEF Spec, ImplementsEnsemble, Reference!Spec

-----------------------------------------------------------------------------
(* What is held adds up to the hits.                                       *)

\* The fold picks the elements in some order.
Some(s) == CHOOSE x \in s : TRUE
IsFold(f) ==
    f = [s \in SUBSET Invs |->
            IF s = {} THEN 0 ELSE Held(Some(s)) + f[s \ {Some(s)}]]

\* What is held adds up to the elements of a set D, each of which is held by one
\* invocation.
LEMMA SumIsCount ==
    ASSUME IsFiniteSet(Invs), NEW D, IsFiniteSet(D), NEW own \in [D -> Invs],
           \A inv \in Invs : Held(inv) = Cardinality({x \in D : own[x] = inv})
    PROVE  MapThenSumSet(Held, Invs) = Cardinality(D)
<1> DEFINE Owned(s) == {x \in D : own[x] \in s}
           g == [s \in SUBSET Invs |-> Cardinality(Owned(s))]
           f == CHOOSE f : IsFold(f)
<1>1. MapThenSumSet(Held, Invs) = f[Invs]
  BY DEF MapThenSumSet, MapThenFoldSet, IsFold, Some
<1>2. \A s : IsFiniteSet(Owned(s)) /\ Cardinality(Owned(s)) \in Nat
  <2>1. \A s : Owned(s) \subseteq D
    OBVIOUS
  <2> HIDE DEF Owned
  <2> QED
    BY <2>1, FS_Subset, FS_CardinalityType
<1>3. ASSUME NEW s \in SUBSET Invs, s # {}
      PROVE  Cardinality(Owned(s)) = Held(Some(s)) + Cardinality(Owned(s \ {Some(s)}))
  <2> DEFINE y == Some(s)
             A == {x \in D : own[x] = y}
             B == Owned(s \ {y})
  <2>1. y \in s
    BY <1>3 DEF Some
  <2>2. Owned(s) = A \cup B /\ A \cap B = {}
    <3> HIDE DEF y
    <3> QED
      BY <2>1
  <2>3. IsFiniteSet(A) /\ IsFiniteSet(B) /\ Cardinality(B) \in Nat
    <3>1. A \subseteq D
      OBVIOUS
    <3> HIDE DEF A
    <3> QED
      BY <1>2, <3>1, FS_Subset
  <2>4. Held(y) = Cardinality(A) /\ Cardinality(A) \in Nat
    <3>1. y \in Invs
      BY <2>1, <1>3
    <3> HIDE DEF y
    <3> QED
      BY <3>1, <2>3, FS_CardinalityType
  <2> HIDE DEF A, B, y, Owned
  <2>5. Cardinality(A \cup B) = Cardinality(A) + Cardinality(B) - Cardinality(A \cap B)
    BY <2>3, FS_Union
  <2>6. Cardinality(A \cap B) = 0
    BY <2>2, FS_EmptySet
  <2>7. Cardinality(Owned(s)) = Held(y) + Cardinality(B)
    BY <2>2, <2>3, <2>4, <2>5, <2>6
  <2> QED
    BY <2>7 DEF B, y
<1>4. Cardinality(Owned({})) = 0
  <2>1. Owned({}) = {}
    OBVIOUS
  <2> QED
    BY <2>1, FS_EmptySet
<1> HIDE DEF Owned
<1>5. IsFold(g)
  <2>1. ASSUME NEW s \in SUBSET Invs
        PROVE  g[s] = IF s = {} THEN 0 ELSE Held(Some(s)) + g[s \ {Some(s)}]
    <3>1. s \ {Some(s)} \in SUBSET Invs
      OBVIOUS
    <3>2. g[s] = Cardinality(Owned(s)) /\ g[s \ {Some(s)}] = Cardinality(Owned(s \ {Some(s)}))
      BY <3>1
    <3> HIDE DEF g
    <3> QED
      BY <1>3, <1>4, <3>2
  <2>2. g = [s \in SUBSET Invs |-> g[s]]
    OBVIOUS
  <2> HIDE DEF g
  <2> QED
    BY <2>1, <2>2 DEF IsFold
<1>6. IsFold(f)
  <2> HIDE DEF g
  <2> QED
    BY <1>5
<1> HIDE DEF f, g
<1>7. \A s \in SUBSET Invs : f[s] = IF s = {} THEN 0 ELSE Held(Some(s)) + f[s \ {Some(s)}]
  BY <1>6 DEF IsFold
<1> DEFINE Wrong == {s \in SUBSET Invs : f[s] # Cardinality(Owned(s))}
           T == {Cardinality(s) : s \in Wrong}
<1>8. \A s \in SUBSET Invs : IsFiniteSet(s) /\ Cardinality(s) \in Nat
  BY FS_Subset, FS_CardinalityType
<1>9. ASSUME Wrong # {} PROVE FALSE
  <2>1. T \in SUBSET Nat /\ T # {}
    BY <1>8, <1>9
  <2>2. PICK k \in T : \A j \in T : k <= j
    <3> HIDE DEF T
    <3> QED
      BY <2>1, Least
  <2>3. PICK s \in Wrong : k = Cardinality(s)
    BY <2>2
  <2>4. s \in SUBSET Invs /\ f[s] # Cardinality(Owned(s))
    BY <2>3
  <2>5. s # {}
    BY <1>4, <1>7, <2>4
  <2> DEFINE y == Some(s)
             r == s \ {y}
  <2>6. y \in s
    BY <2>5 DEF Some
  <2>7. r \in SUBSET Invs /\ Cardinality(r) = Cardinality(s) - 1
    <3> HIDE DEF y
    <3> QED
      BY <1>8, <2>4, <2>6, FS_RemoveElement
  <2>8. r \notin Wrong
    <3>1. Cardinality(r) < k
      BY <1>8, <2>3, <2>4, <2>7
    <3>2. Cardinality(r) \in Nat /\ k \in Nat
      BY <1>8, <2>3, <2>4, <2>7
    <3> HIDE DEF r, Wrong
    <3>3. ASSUME r \in Wrong PROVE FALSE
      <4>1. Cardinality(r) \in T
        BY <3>3
      <4> HIDE DEF T
      <4>2. k <= Cardinality(r)
        BY <2>2, <4>1
      <4> QED
        BY <3>1, <3>2, <4>2
    <3> QED
      BY <3>3
  <2>9. f[r] = Cardinality(Owned(r))
    BY <2>7, <2>8
  <2>10. f[s] = Held(y) + f[r]
    BY <1>7, <2>4, <2>5
  <2> QED
    BY <1>3, <2>4, <2>5, <2>9, <2>10
<1>10. f[Invs] = Cardinality(Owned(Invs))
  BY <1>9
<1>11. Owned(Invs) = D
  BY DEF Owned
<1> QED
  BY <1>1, <1>10, <1>11

\* The hits that the counter does not have yet.
Waiting == HitInvs(config) \ Counted(config, at)

\* The invocation whose lane holds the hit of x.
RoundOf(g) == CHOOSE s \in Rounds : Summing(g, s)
SumOwner(x, s) ==
    IF at[Lane(Group(x), Lid(x) % s)] = "barrier"
    THEN Lane(Group(x), Lid(x) % s) ELSE Lane(Group(x), Lid(x) % (2 * s))
Owner(x) ==
    IF Drawing(Group(x)) THEN x
    ELSE IF Adding(Group(x)) THEN Lane(Group(x), 0)
    ELSE SumOwner(x, RoundOf(Group(x)))

Owned(inv) == {x \in Waiting : Owner(x) = inv}

\* The largest of some strides.
LEMMA Largest ==
    ASSUME NEW T \in SUBSET Nat, NEW v \in T, \A y \in T : v >= y
    PROVE  Max(T) = v
<1> DEFINE m == Max(T)
<1>1. m \in T /\ \A y \in T : m >= y
  BY DEF Max
<1> HIDE DEF m
<1>2. m \in Nat /\ v \in Nat /\ m >= v /\ v >= m
  BY <1>1
<1>3. m = v
  BY <1>2
<1> QED
  BY <1>3 DEF m

\* Which elements still count, by the largest stride v of their workgroup.
LEMMA CountsBelow ==
    ASSUME NEW g, NEW l, NEW v \in Nat, Max({stride[Lane(g, m)] : m \in Locals}) = v,
           \/ l < v
           \/ v > 0 /\ l < 2 * v /\ stride[Lane(g, l - v)] = v
           \/ v = 0 /\ l = 0 /\ at[Lane(g, 0)] # "end"
    PROVE  StillCounts(g, l)
BY Zenon DEF StillCounts

LEMMA CountsNot ==
    ASSUME NEW g, NEW l, NEW v \in Nat, Max({stride[Lane(g, m)] : m \in Locals}) = v,
           ~(l < v),
           ~(v > 0 /\ l < 2 * v /\ stride[Lane(g, l - v)] = v),
           ~(v = 0 /\ l = 0 /\ at[Lane(g, 0)] # "end")
    PROVE  ~StillCounts(g, l)
BY Zenon DEF StillCounts

\* A phase that is neither the first nor the last is the round of some stride.
LEMMA InSomeRound ==
    ASSUME IInv, NEW g \in Workgroups, ~Drawing(g), ~Adding(g)
    PROVE  RoundOf(g) \in Rounds /\ Summing(g, RoundOf(g))
<1>1. \E s \in Rounds : Summing(g, s)
  BY DEF IInv, Phases, Phase
<1> QED
  BY <1>1 DEF RoundOf

\* The remainders that the owners are computed from are local ids.
LEMMA OwnerLids ==
    ASSUME IInv, NEW x \in HitInvs(config)
    PROVE  /\ x \in Invs /\ Group(x) \in Workgroups /\ Lid(x) \in Locals
           /\ Lane(Group(x), Lid(x)) = x
           /\ \A s \in Rounds :
                 /\ Lid(x) % s \in 0 .. s - 1 /\ Lid(x) % s \in Locals
                 /\ Lid(x) % (2 * s) \in 0 .. 2 * s - 1 /\ Lid(x) % (2 * s) \in Locals
<1>1. x \in Invs
  BY DEF HitInvs, Invs, n
<1>2. Group(x) \in Workgroups /\ Lid(x) \in Locals /\ Lane(Group(x), Lid(x)) = x
  BY <1>1, Lanes
<1>3. ASSUME NEW s \in Rounds
      PROVE  /\ Lid(x) % s \in 0 .. s - 1 /\ Lid(x) % s \in Locals
             /\ Lid(x) % (2 * s) \in 0 .. 2 * s - 1 /\ Lid(x) % (2 * s) \in Locals
  <2> DEFINE t == 2 * s
             l == Lid(x)
  <2>1. s \in Nat \ {0} /\ t \in Nat \ {0} /\ t <= WORKGROUP /\ s <= t /\ l \in Nat
    <3>1. s \in Nat \ {0} /\ 2 * s <= WORKGROUP
      BY RoundFacts
    <3>2. l \in Nat
      BY <1>2, LocalFacts
    <3> HIDE DEF l
    <3> QED
      BY <3>1, <3>2
  <2>2. WORKGROUP \in Nat
    BY LocalFacts
  <2> HIDE DEF t, l
  <2>3. l % s \in 0 .. s - 1 /\ l % t \in 0 .. t - 1
    BY <2>1, Division
  <2> DEFINE a == l % s
             b == l % t
  <2> HIDE DEF a, b
  <2>4. a \in 0 .. s - 1 /\ a \in Locals /\ b \in 0 .. t - 1 /\ b \in Locals
    BY <2>1, <2>2, <2>3 DEF a, b, Locals
  <2> QED
    BY <2>4 DEF a, b, t, l
<1> QED
  BY <1>1, <1>2, <1>3

\* A hit is held in its own workgroup.
LEMMA OwnerStays ==
    ASSUME IInv, NEW x \in HitInvs(config)
    PROVE  Owner(x) \in Invs /\ Group(Owner(x)) = Group(x)
<1>1. Group(x) \in Workgroups /\ x \in Invs
  BY OwnerLids
<1>2. CASE Drawing(Group(x))
  BY <1>1, <1>2 DEF Owner
<1>3. CASE ~Drawing(Group(x)) /\ Adding(Group(x))
  BY <1>1, <1>3, Lanes, LocalFacts DEF Owner
<1>4. CASE ~Drawing(Group(x)) /\ ~Adding(Group(x))
  <2>1. RoundOf(Group(x)) \in Rounds
    BY <1>1, <1>4, InSomeRound
  <2> QED
    BY <1>1, <1>4, <2>1, OwnerLids, Lanes DEF Owner, SumOwner
<1> QED
  BY <1>2, <1>3, <1>4

\* A workgroup that has not added its hits has all of them waiting.
LEMMA StillWaiting ==
    ASSUME IInv, NEW g \in Workgroups, NEW x \in HitInvs(config), Group(x) = g
    PROVE  x \in Waiting <=> at[Lane(g, 0)] # "end"
BY DEF Waiting, Counted

\* Before the first barrier every invocation holds its own hit.
LEMMA HeldDrawing ==
    ASSUME IInv, n < U32, NEW g \in Workgroups, NEW l \in Locals, Drawing(g)
    PROVE  Held(Lane(g, l)) = Cardinality(Owned(Lane(g, l)))
<1> DEFINE inv == Lane(g, l)
           w == WORKGROUP \div 2
           T == {stride[Lane(g, m)] : m \in Locals}
<1>0. config \in Configs /\ config.n < U32 /\ Invs = Invocations(config.n) /\ n = config.n
  BY ConfigShape DEF IInv
<1>1. inv \in Invs /\ Group(inv) = g /\ Lid(inv) = l
  BY Lanes
<1>2. /\ \A m \in Locals : stride[Lane(g, m)] = w /\ at[Lane(g, m)] \in {"draw", "barrier"}
      /\ at[inv] = "barrier" => partial[g][l] = Share(config, g, WORKGROUP, l)
  BY DEF Drawing, DrawingLane
<1>3. Owned(inv) = ShareSet(config, g, WORKGROUP, l)
  <2>1. ASSUME NEW x \in Owned(inv)
        PROVE  x \in ShareSet(config, g, WORKGROUP, l)
    <3>1. x \in HitInvs(config) /\ Owner(x) = inv
      BY DEF Owned, Waiting
    <3>2. Group(x) = g
      BY <1>1, <3>1, OwnerStays
    <3>3. x = inv
      BY <3>1, <3>2 DEF Owner
    <3>4. l % WORKGROUP = l
      BY LocalFacts DEF Locals
    <3> QED
      BY <1>1, <3>1, <3>3, <3>4 DEF ShareSet
  <2>2. ASSUME NEW x \in ShareSet(config, g, WORKGROUP, l)
        PROVE  x \in Owned(inv)
    <3>1. x \in HitInvs(config) /\ Group(x) = g /\ Lid(x) % WORKGROUP = l
      BY DEF ShareSet
    <3>2. Lid(x) \in Locals /\ Lane(g, Lid(x)) = x
      BY <3>1, OwnerLids
    <3>3. Lid(x) % WORKGROUP = Lid(x)
      BY <3>2, LocalFacts DEF Locals
    <3>4. x = inv /\ Owner(x) = x
      BY <3>1, <3>2, <3>3 DEF Owner
    <3>5. x \in Waiting
      BY <1>2, <3>1, StillWaiting, LocalFacts
    <3> QED
      BY <3>4, <3>5 DEF Owned
  <2> QED
    BY <2>1, <2>2
<1>4. CASE at[inv] = "draw"
  <2>1. Held(inv) = Hit(inv)
    BY <1>4 DEF Held
  <2>2. Hit(inv) = Share(config, g, WORKGROUP, l)
    BY <1>0, <1>1, ShareOfLane DEF Hit
  <2> QED
    BY <1>3, <2>1, <2>2 DEF Share
<1>5. CASE at[inv] = "barrier"
  <2>1. w \in Nat /\ T = {w}
    <3>1. w \in Nat
      BY LocalFacts
    <3> HIDE DEF w
    <3> QED
      BY <1>2, <3>1, LocalFacts
  <2>2. Max(T) = w
    <3> HIDE DEF T, w
    <3> QED
      BY <2>1, Largest
  <2>3. StillCounts(g, l)
    <3>1. \/ WORKGROUP = 1 /\ w = 0
          \/ 2 * w = WORKGROUP /\ w > 0
      <4>1. WORKGROUP \in 1 .. WORKGROUP /\ WORKGROUP % WORKGROUP = 0
        BY LocalFacts
      <4>2. CASE WORKGROUP = 1
        BY <4>2
      <4>3. CASE WORKGROUP # 1
        <5>1. w \in Rounds /\ 2 * w = WORKGROUP
          BY <4>1, <4>3, Halves
        <5> QED
          BY <5>1, RoundFacts
      <4> QED
        BY <4>2, <4>3
    <3>2. l \in 0 .. WORKGROUP - 1
      BY DEF Locals
    <3> HIDE DEF w, T
    <3>3. Max({stride[Lane(g, m)] : m \in Locals}) = w
      BY <2>2 DEF T
    <3>4. CASE WORKGROUP = 1 /\ w = 0
      <4>1. l = 0
        BY <3>2, <3>4
      <4> QED
        BY <1>5, <2>1, <3>3, <3>4, <4>1, CountsBelow
    <3>5. CASE 2 * w = WORKGROUP /\ w > 0
      <4>1. CASE l < w
        BY <2>1, <3>3, <4>1, CountsBelow
      <4>2. CASE ~(l < w)
        <5>1. l - w \in Locals /\ l < 2 * w
          BY <2>1, <3>2, <3>5, <4>2, LocalFacts DEF Locals
        <5> QED
          BY <1>2, <2>1, <3>3, <3>5, <5>1, CountsBelow
      <4> QED
        BY <4>1, <4>2
    <3> QED
      BY <3>1, <3>4, <3>5
  <2>4. Held(inv) = partial[g][l]
    BY <1>1, <1>5, <2>3 DEF Held
  <2> QED
    BY <1>2, <1>3, <1>5, <2>4 DEF Share
<1> QED
  BY <1>2, <1>4, <1>5

\* After the last barrier lane 0 holds the hits of the workgroup until it adds them.
LEMMA HeldAdding ==
    ASSUME IInv, n < U32, NEW g \in Workgroups, NEW l \in Locals, Adding(g)
    PROVE  Held(Lane(g, l)) = Cardinality(Owned(Lane(g, l)))
<1> DEFINE inv == Lane(g, l)
           T == {stride[Lane(g, m)] : m \in Locals}
<1>1. inv \in Invs /\ Group(inv) = g /\ Lid(inv) = l
  BY Lanes
<1>2. /\ \A m \in Locals : stride[Lane(g, m)] = 0 /\ at[Lane(g, m)] \in {"add", "end"}
      /\ l = 0 => partial[g][l] = Share(config, g, 1, 0)
  BY DEF Adding, AddingLane
<1>3. ~Drawing(g)
  BY <1>2, LocalFacts DEF Drawing, DrawingLane
<1>4. Max(T) = 0
  <2>1. T = {0}
    BY <1>2, LocalFacts
  <2> HIDE DEF T
  <2> QED
    BY <2>1, Largest
<1>5. at[inv] # "draw"
  BY <1>2
<1>6. l \in Nat
  BY LocalFacts
<1>7. CASE l = 0 /\ at[inv] # "end"
  <2>1. StillCounts(g, l)
    BY <1>4, <1>7, CountsBelow DEF T
  <2>2. Held(inv) = Share(config, g, 1, 0)
    BY <1>1, <1>2, <1>5, <1>7, <2>1 DEF Held
  <2>3. Owned(inv) = ShareSet(config, g, 1, 0)
    <3>1. ASSUME NEW x \in Owned(inv) PROVE x \in ShareSet(config, g, 1, 0)
      <4>1. x \in HitInvs(config) /\ Owner(x) = inv
        BY DEF Owned, Waiting
      <4>2. Group(x) = g /\ Lid(x) \in Nat
        BY <1>1, <4>1, OwnerStays, OwnerLids, LocalFacts
      <4> QED
        BY <4>1, <4>2 DEF ShareSet
    <3>2. ASSUME NEW x \in ShareSet(config, g, 1, 0) PROVE x \in Owned(inv)
      <4>1. x \in HitInvs(config) /\ Group(x) = g
        BY DEF ShareSet
      <4>2. Owner(x) = inv
        BY <1>3, <1>7, <4>1 DEF Owner
      <4>3. x \in Waiting
        BY <1>7, <4>1, StillWaiting
      <4> QED
        BY <4>2, <4>3 DEF Owned
    <3> QED
      BY <3>1, <3>2
  <2> QED
    BY <2>2, <2>3 DEF Share
<1>8. CASE ~(l = 0 /\ at[inv] # "end")
  <2>1. ~StillCounts(g, l)
    <3>1. ~(l = 0 /\ at[Lane(g, 0)] # "end")
      BY <1>8
    <3>2. Max({stride[Lane(g, m)] : m \in Locals}) = 0
      BY <1>4 DEF T
    <3>3. 0 \in Nat /\ ~(l < 0) /\ ~(0 > 0)
      BY <1>6
    <3> QED
      BY <3>1, <3>2, <3>3, CountsNot
  <2>2. Held(inv) = 0
    BY <1>1, <1>5, <2>1 DEF Held
  <2>3. ASSUME NEW x \in Owned(inv) PROVE FALSE
    <3>1. x \in HitInvs(config) /\ x \in Waiting /\ Owner(x) = inv
      BY DEF Owned, Waiting
    <3>2. Group(x) = g
      BY <1>1, <3>1, OwnerStays
    <3>3. Owner(x) = Lane(g, 0)
      BY <1>3, <3>2 DEF Owner
    <3>4. l = 0
      BY <1>1, <3>1, <3>3, Lanes, LocalFacts
    <3>5. at[Lane(g, 0)] # "end"
      BY <3>1, <3>2, StillWaiting
    <3> QED
      BY <1>8, <3>4, <3>5
  <2>4. Cardinality(Owned(inv)) = 0
    <3>1. Owned(inv) = {}
      BY <2>3
    <3> QED
      BY <3>1, FS_EmptySet
  <2> QED
    BY <2>2, <2>4
<1> QED
  BY <1>7, <1>8

\* In the round of stride s, which elements count, whatever lanes have stored.
LEMMA CountsInRound ==
    ASSUME IInv, NEW g \in Workgroups, NEW s \in Rounds, Summing(g, s), NEW l \in Locals
    PROVE  /\ l < s => StillCounts(g, l)
           /\ ~(l < s) =>
                 (StillCounts(g, l) <=> l < 2 * s /\ at[Lane(g, l - s)] # "barrier")
<1> DEFINE T == {stride[Lane(g, m)] : m \in Locals}
           h == s \div 2
<1>1. /\ s \in Nat \ {0} /\ 2 * s <= WORKGROUP /\ h \in Nat /\ h < s /\ l \in Nat
      /\ (s = 1 /\ h = 0) \/ 2 * h = s
  BY RoundFacts, LocalFacts
<1>2. ASSUME NEW m \in Locals
      PROVE  /\ at[Lane(g, m)] \in {"load", "store", "barrier"}
             /\ at[Lane(g, m)] # "barrier" => stride[Lane(g, m)] = s
             /\ at[Lane(g, m)] = "barrier" => stride[Lane(g, m)] = h
  BY DEF Summing, SummingLane
<1> HIDE DEF h
<1>3. T \in SUBSET Nat
  BY <1>1, <1>2
<1>4. 0 \in Locals /\ \A m \in Nat : m < 2 * s => m \in Locals
  BY <1>1, LocalFacts DEF Locals
<1>5. CASE \E m \in Locals : at[Lane(g, m)] # "barrier"
  <2>1. s \in T /\ \A y \in T : s >= y
    BY <1>1, <1>2, <1>5
  <2>2. Max(T) = s
    <3> HIDE DEF T
    <3> QED
      BY <1>3, <2>1, Largest
  <2>3. l < s => StillCounts(g, l)
    BY <1>1, <2>2, CountsBelow DEF T
  <2>4. ASSUME ~(l < s)
        PROVE  StillCounts(g, l) <=> l < 2 * s /\ at[Lane(g, l - s)] # "barrier"
    <3>1. ASSUME l < 2 * s, at[Lane(g, l - s)] # "barrier" PROVE StillCounts(g, l)
      <4>1. l - s \in Locals
        BY <1>1, <1>4, <2>4, <3>1
      <4>2. stride[Lane(g, l - s)] = s
        BY <1>2, <3>1, <4>1
      <4>3. s > 0 /\ l < 2 * s /\ stride[Lane(g, l - s)] = s
        BY <1>1, <3>1, <4>2
      <4> QED
        BY <1>1, <2>2, <4>3, CountsBelow DEF T
    <3>2. ASSUME l < 2 * s, at[Lane(g, l - s)] = "barrier" PROVE ~StillCounts(g, l)
      <4>1. l - s \in Locals
        BY <1>1, <1>4, <2>4, <3>2
      <4>2. stride[Lane(g, l - s)] # s
        BY <1>1, <1>2, <3>2, <4>1
      <4> QED
        BY <1>1, <2>2, <2>4, <4>2, CountsNot DEF T
    <3>3. ASSUME ~(l < 2 * s) PROVE ~StillCounts(g, l)
      BY <1>1, <2>2, <2>4, <3>3, CountsNot DEF T
    <3> QED
      BY <3>1, <3>2, <3>3
  <2> QED
    BY <2>3, <2>4
<1>6. CASE \A m \in Locals : at[Lane(g, m)] = "barrier"
  <2>1. h \in T /\ \A y \in T : h >= y
    BY <1>1, <1>2, <1>4, <1>6
  <2>2. Max(T) = h
    <3> HIDE DEF T
    <3> QED
      BY <1>3, <2>1, Largest
  <2>3. ASSUME l < s PROVE StillCounts(g, l)
    <3>1. CASE h = 0
      <4>1. l = 0 /\ at[Lane(g, 0)] # "end"
        BY <1>1, <1>4, <1>6, <2>3, <3>1
      <4> QED
        BY <2>2, <3>1, <4>1, CountsBelow DEF T
    <3>2. CASE h # 0 /\ l < h
      BY <1>1, <2>2, <3>2, CountsBelow DEF T
    <3>3. CASE h # 0 /\ ~(l < h)
      <4>1. l - h \in Locals /\ h > 0 /\ l < 2 * h
        BY <1>1, <1>4, <2>3, <3>3
      <4>2. stride[Lane(g, l - h)] = h
        BY <1>2, <1>6, <4>1
      <4> QED
        BY <1>1, <2>2, <4>1, <4>2, CountsBelow DEF T
    <3> QED
      BY <3>1, <3>2, <3>3
  <2>4. ASSUME ~(l < s) PROVE ~StillCounts(g, l)
    <3>1. ~(l < h) /\ ~(h > 0 /\ l < 2 * h) /\ l # 0
      BY <1>1, <2>4
    <3> QED
      BY <1>1, <2>2, <3>1, CountsNot DEF T
  <2>5. ~(l < s) /\ l < 2 * s => at[Lane(g, l - s)] = "barrier"
    BY <1>1, <1>4, <1>6
  <2> QED
    BY <2>3, <2>4, <2>5
<1> QED
  BY <1>5, <1>6

\* Which hits a lane owns in a round.
LEMMA OwnedInRound ==
    ASSUME IInv, NEW g \in Workgroups, ~Drawing(g), ~Adding(g), NEW l \in Locals,
           NEW s, s = RoundOf(g)
    PROVE  /\ l < s /\ at[Lane(g, l)] = "barrier" =>
                 Owned(Lane(g, l)) = ShareSet(config, g, s, l)
           /\ l < s /\ at[Lane(g, l)] # "barrier" =>
                 Owned(Lane(g, l)) = ShareSet(config, g, 2 * s, l)
           /\ ~(l < s) /\ l < 2 * s /\ at[Lane(g, l - s)] # "barrier" =>
                 Owned(Lane(g, l)) = ShareSet(config, g, 2 * s, l)
           /\ ~(l < s) /\ ~(l < 2 * s /\ at[Lane(g, l - s)] # "barrier") =>
                 Owned(Lane(g, l)) = {}
<1> DEFINE inv == Lane(g, l)
           late(m) == at[Lane(g, m)] # "barrier"
<1>1. s \in Rounds /\ Summing(g, s)
  BY InSomeRound
<1>2. s \in Nat \ {0} /\ l \in Nat /\ 2 * s <= WORKGROUP
  BY <1>1, RoundFacts, LocalFacts
<1>3. at[Lane(g, 0)] # "end"
  BY <1>1, LocalFacts DEF Summing, SummingLane
<1>4. \A x : x \in Owned(inv) <=> /\ x \in HitInvs(config) /\ Group(x) = g
                                  /\ SumOwner(x, s) = inv
  <2>1. ASSUME NEW x \in HitInvs(config), Group(x) = g
        PROVE  x \in Waiting /\ Owner(x) = SumOwner(x, s)
    BY <1>3, <2>1, StillWaiting DEF Owner
  <2>2. ASSUME NEW x \in Owned(inv) PROVE x \in HitInvs(config) /\ Group(x) = g
    <3>1. x \in HitInvs(config) /\ Owner(x) = inv
      BY DEF Owned, Waiting
    <3> QED
      BY <3>1, OwnerStays, Lanes
  <2> QED
    BY <2>1, <2>2 DEF Owned, Waiting
\* By its remainders, a hit belongs to the lane of the one or of the other.
<1>5. ASSUME NEW x \in HitInvs(config), Group(x) = g
      PROVE  LET a == Lid(x) % s
                 b == Lid(x) % (2 * s)
             IN  /\ a \in 0 .. s - 1 /\ b \in 0 .. 2 * s - 1
                 /\ b = a \/ b = a + s
                 /\ late(a) => (SumOwner(x, s) = inv <=> b = l)
                 /\ ~late(a) => (SumOwner(x, s) = inv <=> a = l)
  <2> DEFINE a == Lid(x) % s
             b == Lid(x) % (2 * s)
  <2>1. /\ a \in 0 .. s - 1 /\ a \in Locals
        /\ b \in 0 .. 2 * s - 1 /\ b \in Locals
    BY <1>1, OwnerLids
  <2>2. b = a \/ b = a + s
    <3>1. Lid(x) \in Nat /\ Lid(x) % s = a /\ Lid(x) % (2 * s) = b
      BY OwnerLids, LocalFacts
    <3> HIDE DEF a, b, inv, late
    <3>2. s \in Nat \ {0} /\ a \in 0 .. s - 1
      BY <1>2, <2>1
    <3> QED
      BY <3>1, <3>2, TwoRemainders
  <2>3. SumOwner(x, s) = IF late(a) THEN Lane(g, b) ELSE Lane(g, a)
    BY <1>5 DEF SumOwner
  <2>4. \A m \in Locals : Lane(g, m) = inv <=> m = l
    BY Lanes
  <2> HIDE DEF a, b, inv, late
  <2>5. /\ late(a) => (SumOwner(x, s) = inv <=> b = l)
        /\ ~late(a) => (SumOwner(x, s) = inv <=> a = l)
    BY <2>1, <2>3, <2>4
  <2> QED
    BY <2>1, <2>2, <2>5 DEF a, b
<1> HIDE DEF inv, late
<1>6. ASSUME NEW x \in HitInvs(config), Group(x) = g
      PROVE  /\ l < s /\ ~late(l) => (SumOwner(x, s) = inv <=> Lid(x) % s = l)
             /\ l < s /\ late(l) => (SumOwner(x, s) = inv <=> Lid(x) % (2 * s) = l)
             /\ ~(l < s) /\ l < 2 * s /\ late(l - s) =>
                   (SumOwner(x, s) = inv <=> Lid(x) % (2 * s) = l)
             /\ ~(l < s) /\ ~(l < 2 * s /\ late(l - s)) => SumOwner(x, s) # inv
  <2> DEFINE a == Lid(x) % s
             b == Lid(x) % (2 * s)
             mine == SumOwner(x, s) = inv
  <2>1. /\ a \in 0 .. s - 1 /\ b \in 0 .. 2 * s - 1
        /\ b = a \/ b = a + s
        /\ late(a) => (mine <=> b = l)
        /\ ~late(a) => (mine <=> a = l)
    BY <1>5, <1>6
  <2> HIDE DEF a, b, mine
  <2>2. ASSUME l < s, ~late(l) PROVE mine <=> a = l
    BY <1>2, <2>1, <2>2
  <2>3. ASSUME l < s, late(l) PROVE mine <=> b = l
    BY <1>2, <2>1, <2>3
  <2>4. ASSUME ~(l < s), l < 2 * s, late(l - s) PROVE mine <=> b = l
    <3>1. CASE a = l - s
      BY <2>1, <2>4, <3>1
    <3>2. CASE a # l - s
      <4>1. b # l /\ a # l
        BY <1>2, <2>1, <2>4, <3>2
      <4> QED
        BY <2>1, <4>1
    <3> QED
      BY <3>1, <3>2
  <2>5. ASSUME ~(l < s), ~(l < 2 * s /\ late(l - s)) PROVE ~mine
    <3>1. a # l
      BY <1>2, <2>1, <2>5
    <3>2. CASE b = l
      <4>1. a = l - s /\ l < 2 * s
        BY <1>2, <2>1, <2>5, <3>1, <3>2
      <4> QED
        BY <2>1, <2>5, <3>1, <4>1
    <3>3. CASE b # l
      BY <2>1, <3>1, <3>3
    <3> QED
      BY <3>2, <3>3
  <2> QED
    BY <2>2, <2>3, <2>4, <2>5 DEF a, b, mine
<1>7. /\ l < s /\ ~late(l) => Owned(inv) = ShareSet(config, g, s, l)
      /\ l < s /\ late(l) => Owned(inv) = ShareSet(config, g, 2 * s, l)
      /\ ~(l < s) /\ l < 2 * s /\ late(l - s) => Owned(inv) = ShareSet(config, g, 2 * s, l)
      /\ ~(l < s) /\ ~(l < 2 * s /\ late(l - s)) => Owned(inv) = {}
  BY <1>4, <1>6, Zenon DEF ShareSet
<1> QED
  BY <1>7 DEF inv, late

\* In a round, an element that still counts holds the hits of its share.
LEMMA HeldSumming ==
    ASSUME IInv, n < U32, NEW g \in Workgroups, NEW l \in Locals,
           ~Drawing(g), ~Adding(g)
    PROVE  Held(Lane(g, l)) = Cardinality(Owned(Lane(g, l)))
<1> DEFINE inv == Lane(g, l)
           s == RoundOf(g)
<1>1. s \in Rounds /\ Summing(g, s)
  BY InSomeRound
<1>2. inv \in Invs /\ Group(inv) = g /\ Lid(inv) = l
  BY Lanes
<1> HIDE DEF s
<1>3. SummingLane(config, g, s, l, at[inv], stride[inv], acc[inv], partial[g][l])
  BY <1>1 DEF Summing
<1>4. s \in Nat \ {0} /\ l \in Nat
  BY <1>1, RoundFacts, LocalFacts
<1>5. at[inv] # "draw"
  BY <1>3 DEF SummingLane
<1>6. Held(inv) = IF StillCounts(g, l) THEN partial[g][l] ELSE 0
  BY <1>2, <1>5 DEF Held
<1>7. CASE l < s /\ at[inv] = "barrier"
  <2>1. partial[g][l] = Share(config, g, s, l)
    BY <1>3, <1>7 DEF SummingLane
  <2>2. StillCounts(g, l)
    BY <1>1, <1>7, CountsInRound
  <2>3. Owned(inv) = ShareSet(config, g, s, l)
    BY <1>7, OwnedInRound DEF s
  <2> QED
    BY <1>6, <2>1, <2>2, <2>3 DEF Share
<1>8. CASE l < s /\ at[inv] # "barrier"
  <2>1. partial[g][l] = Share(config, g, 2 * s, l)
    BY <1>3, <1>4, <1>8 DEF SummingLane
  <2>2. StillCounts(g, l)
    BY <1>1, <1>8, CountsInRound
  <2>3. Owned(inv) = ShareSet(config, g, 2 * s, l)
    BY <1>8, OwnedInRound DEF s
  <2> QED
    BY <1>6, <2>1, <2>2, <2>3 DEF Share
<1>9. CASE ~(l < s) /\ l < 2 * s /\ at[Lane(g, l - s)] # "barrier"
  <2>1. partial[g][l] = Share(config, g, 2 * s, l)
    BY <1>3, <1>4, <1>9 DEF SummingLane
  <2>2. StillCounts(g, l)
    BY <1>1, <1>9, CountsInRound
  <2>3. Owned(inv) = ShareSet(config, g, 2 * s, l)
    BY <1>9, OwnedInRound DEF s
  <2> QED
    BY <1>6, <2>1, <2>2, <2>3 DEF Share
<1>10. CASE ~(l < s) /\ ~(l < 2 * s /\ at[Lane(g, l - s)] # "barrier")
  <2>1. ~StillCounts(g, l)
    BY <1>1, <1>10, CountsInRound
  <2>2. Owned(inv) = {}
    BY <1>10, OwnedInRound DEF s
  <2> QED
    BY <1>6, <2>1, <2>2, FS_EmptySet
<1> QED
  BY <1>7, <1>8, <1>9, <1>10

\* There are finitely many invocations.
LEMMA FinitelyMany ==
    ASSUME NEW c \in Configs
    PROVE  IsFiniteSet(Invocations(c.n))
<1> DEFINE A == 0 .. GridX(c.n) - 1
           B == 0 .. GridY(c.n) - 1
           C == 0 .. WORKGROUP - 1
<1>1. c.n \in Nat \ {0}
  BY ConfigFacts
<1>2. GridX(c.n) \in Int /\ GridY(c.n) \in Int /\ WORKGROUP \in Int
  BY <1>1, GridShape, GridAssumption
<1>3. IsFiniteSet(A) /\ IsFiniteSet(B) /\ IsFiniteSet(C)
  BY <1>2, FS_Interval
<1> HIDE DEF A, B, C
<1>4. IsFiniteSet(A \X B)
  BY <1>3, FS_Product
<1>5. IsFiniteSet((A \X B) \X C)
  BY <1>3, <1>4, FS_Product
<1> DEFINE f == [p \in (A \X B) \X C |-> <<p[1][1], p[1][2], p[2]>>]
<1>6. f \in Surjection((A \X B) \X C, A \X B \X C)
  <2>1. f \in [(A \X B) \X C -> A \X B \X C]
    OBVIOUS
  <2>2. ASSUME NEW t \in A \X B \X C
        PROVE  \E p \in (A \X B) \X C : f[p] = t
    <3>1. <<<<t[1], t[2]>>, t[3]>> \in (A \X B) \X C
      OBVIOUS
    <3>2. f[<<<<t[1], t[2]>>, t[3]>>] = t
      BY <3>1
    <3> QED
      BY <3>1, <3>2
  <2> QED
    BY <2>1, <2>2 DEF Surjection
<1> HIDE DEF f
<1>7. IsFiniteSet(A \X B \X C)
  BY <1>5, <1>6, FS_Surjection
<1> QED
  BY <1>7 DEF Invocations, A, B, C

\* No hit is lost and none is counted twice on its way, between any two steps: what
\* the invocations hold and the counter add up to the hits, for every ensemble,
\* grid and workgroup size.
THEOREM NoHitLost == Spec => []HitsConserved
<1>1. IInv => HitsConserved
  <2> SUFFICES ASSUME IInv, n < U32
               PROVE  MapThenSumSet(Held, Invs) + total = Cardinality(config.hits)
    BY DEF HitsConserved
  <2>1. config \in Configs /\ config.n < U32 /\ Invs = Invocations(config.n)
    BY ConfigShape DEF IInv, n
  <2>2. IsFiniteSet(Invs)
    BY <2>1, FinitelyMany
  <2>3. /\ IsFiniteSet(HitInvs(config))
        /\ Cardinality(HitInvs(config)) = Cardinality(config.hits)
    BY <2>1, HitsFound
  <2> DEFINE A == Waiting
             B == Counted(config, at)
             own == [x \in A |-> Owner(x)]
  <2>4. A \cup B = HitInvs(config) /\ A \cap B = {}
    BY DEF Waiting, Counted
  <2>5. IsFiniteSet(A) /\ IsFiniteSet(B)
    <3>1. A \subseteq HitInvs(config) /\ B \subseteq HitInvs(config)
      BY <2>4
    <3> HIDE DEF A, B
    <3> QED
      BY <2>3, <3>1, FS_Subset
  <2>6. own \in [A -> Invs]
    BY OwnerStays DEF Waiting
  <2>7. ASSUME NEW inv \in Invs
        PROVE  Held(inv) = Cardinality({x \in A : own[x] = inv})
    <3>1. PICK g \in Workgroups, l \in Locals : inv = Lane(g, l)
      BY Lanes
    <3>2. Held(inv) = Cardinality(Owned(inv))
      BY <3>1, HeldDrawing, HeldAdding, HeldSumming
    <3>3. Owned(inv) = {x \in A : own[x] = inv}
      BY DEF Owned
    <3> QED
      BY <3>2, <3>3
  <2>8. total = Cardinality(B)
    BY DEF IInv, Counting
  <2> HIDE DEF A, B, own
  <2>9. MapThenSumSet(Held, Invs) = Cardinality(A)
    BY <2>2, <2>5, <2>6, <2>7, SumIsCount
  <2>10. Cardinality(A \cup B) = Cardinality(A) + Cardinality(B) - Cardinality(A \cap B)
    BY <2>5, FS_Union
  <2>11. Cardinality(A \cap B) = 0 /\ Cardinality(A) \in Nat /\ Cardinality(B) \in Nat
    BY <2>4, <2>5, FS_EmptySet, FS_CardinalityType
  <2> QED
    BY <2>3, <2>4, <2>8, <2>9, <2>10, <2>11
<1> QED
  BY <1>1, Always, PTL
=============================================================================
