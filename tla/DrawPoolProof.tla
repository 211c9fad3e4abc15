--------------------------- MODULE DrawPoolProof ---------------------------
(***************************************************************************)
(* Whatever the number of threads, the split of the indices and the order  *)
(* of the draws, a host run returns the value of its config or fails as a  *)
(* whole: DrawPool implements Ensemble.                                    *)
(*                                                                         *)
(* The invariant says of every index that it is held by a thread, offered, *)
(* drawn, or lost to a panic (Drawn), and of every job that what it has    *)
(* read and computed is a function of the index it is at (Jobs).           *)
(***************************************************************************)
EXTENDS DrawPool, SequenceTheorems, TLAPS

\* What cell x should hold.
Cell(x) == Draw(x \div d, x % d)

\* What a thread is doing at draw i of a range that ends at h, after k
\* coordinates.
ForkAt(i, h)  == [stage |-> "fork", at |-> i, hi |-> h]
ThetaAt(i, h) == [stage |-> "theta", at |-> i, hi |-> h,
                  rng |-> [index |-> i, word |-> 0]]
ApplyAt(i, h, k) == [stage |-> "apply", at |-> i, hi |-> h,
                     rng |-> [index |-> i, word |-> k + 1],
                     theta |-> Theta(Word(i, 0)),
                     row |-> [j \in 1 .. k |-> Draw(i, j - 1)]]

\* The types and the bookkeeping of the call.
Basic ==
    /\ config \in Configs
    /\ pc \in {"start", "drawing", "measuring", "done", "panicked"}
    /\ pooled \in BOOLEAN /\ crashed \in BOOLEAN /\ threaded \in BOOLEAN
    /\ \A r \in tasks : r[1] \in 0 .. n - 1 /\ r[2] \in r[1] + 1 .. n
    /\ col \in 0 .. d
    /\ pc = "start" => cells = [x \in {} |-> Zero]
    /\ pc # "start" => cells = [x \in 0 .. n * d - 1 |-> cells[x]]
    /\ pc # "drawing" => tasks = {} /\ \A t \in Threads : job[t] = Idle
    /\ pc \in {"start", "drawing"} => col = 0 /\ total = Zero
    /\ pc # "start" => (pooled <=> UsesPool)
    /\ pc = "done" => col = d /\ (threaded <=> ReportThreaded)
    /\ pc \in {"measuring", "done"} => ~crashed
    /\ pc = "panicked" => crashed
    /\ crashed => config.faulty # {}

\* A job is idle, or it is at a draw of its range and has read and computed
\* what the index says, none of it for a draw that panics.
Correct(J) ==
    \/ J = Idle
    \/ \E i \in 0 .. n - 1 : \E h \in i + 1 .. n :
          \/ J = ForkAt(i, h)
          \/ J = ThetaAt(i, h)
          \/ \E k \in 0 .. d : J = ApplyAt(i, h, k) /\ (k > 0 => i \notin config.faulty)

Jobs ==
    /\ job = [t \in Threads |-> job[t]]
    /\ \A t \in Threads : Correct(job[t])

\* In place, the coordinates computed so far are written.
Rows ==
    config.entry = "family" =>
        \A t \in Threads : \A i \in 0 .. n - 1 : \A h \in i + 1 .. n : \A k \in 0 .. d :
            job[t] = ApplyAt(i, h, k) =>
                \A j \in 0 .. k - 1 : cells[i * d + j] = Draw(i, j)

\* No index is forgotten, unless a draw has panicked.
Drawn ==
    pc # "start" =>
        \A i \in 0 .. n - 1 :
            \/ crashed
            \/ \E t \in Threads : i \in Left(t)
            \/ \E r \in tasks : i \in Offered(r)
            \/ Made(i)

\* acc accumulates the first m columns of what the schema defines, for a family
\* of kind k and s draws.
Accumulates(acc, m, k, s) ==
    acc = [x \in 0 .. m |->
              IF x = 0 THEN Zero
              ELSE Column(k, acc[x - 1], [i \in 0 .. s - 1 |-> Draw(i, x - 1)])]

\* What is accumulated is what every accumulation of all columns has at col.
Sums ==
    pc # "panicked" =>
        /\ \A acc : Accumulates(acc, d, config.kind, n) => acc[col] = total
        /\ \E acc : Accumulates(acc, col, config.kind, n)

IInv == Basic /\ Jobs /\ Rows /\ Drawn /\ RowsAreOwned /\ Sums

-----------------------------------------------------------------------------
\* A prefix of a row has as many elements as it says, and appending the next
\* one gives the next prefix.
LEMMA Prefixes ==
    ASSUME NEW F, NEW k \in Nat
    PROVE  /\ Len([j \in 1 .. k |-> F[j]]) = k
           /\ Append([j \in 1 .. k |-> F[j]], F[k + 1]) = [j \in 1 .. k + 1 |-> F[j]]
<1> DEFINE S == {F[j] : j \in 1 .. k + 1}
           p == [j \in 1 .. k |-> F[j]]
           q == [j \in 1 .. k + 1 |-> F[j]]
<1>1. p \in Seq(S) /\ Len(p) = k
  <2>1. p \in [1 .. k -> S]
    OBVIOUS
  <2> QED
    BY <2>1
<1>2. q \in Seq(S) /\ Len(q) = k + 1
  <2>1. q \in [1 .. k + 1 -> S]
    OBVIOUS
  <2> QED
    BY <2>1
<1>3. F[k + 1] \in S
  OBVIOUS
<1>4. /\ Append(p, F[k + 1]) \in Seq(S) /\ Len(Append(p, F[k + 1])) = k + 1
      /\ \A i \in 1 .. k : Append(p, F[k + 1])[i] = p[i]
      /\ Append(p, F[k + 1])[k + 1] = F[k + 1]
  BY <1>1, <1>3, AppendProperties
<1>5. \A i \in 1 .. k + 1 : Append(p, F[k + 1])[i] = q[i]
  BY <1>4
<1>6. Append(p, F[k + 1]) = q
  BY <1>2, <1>4, <1>5, SeqEqual
<1> QED
  BY <1>1, <1>6

\* The empty row.
LEMMA NoPrefix == ASSUME NEW F PROVE << >> = [j \in 1 .. 0 |-> F[j]]
  OBVIOUS

\* The value of a config is the last entry of an accumulation of its columns.
LEMMA Unfolds ==
    ASSUME NEW c, NEW m, m = IF c.kind = "gaussian" THEN Dim ELSE 1,
           \E acc : Accumulates(acc, m, c.kind, c.n)
    PROVE  \E acc : Accumulates(acc, m, c.kind, c.n) /\ ValueOf(c) = acc[m]
<1> DEFINE dc == IF c.kind = "gaussian" THEN Dim ELSE 1
           sum == CHOOSE acc : acc = [x \in 0 .. dc |->
                    IF x = 0 THEN Zero
                    ELSE Column(c.kind, acc[x - 1], [i \in 0 .. c.n - 1 |-> Draw(i, x - 1)])]
<1>1. ValueOf(c) = sum[dc]
  BY DEF ValueOf
<1>2. \E acc : acc = [x \in 0 .. dc |->
                    IF x = 0 THEN Zero
                    ELSE Column(c.kind, acc[x - 1], [i \in 0 .. c.n - 1 |-> Draw(i, x - 1)])]
  BY DEF Accumulates
<1>3. sum = [x \in 0 .. dc |->
                    IF x = 0 THEN Zero
                    ELSE Column(c.kind, sum[x - 1], [i \in 0 .. c.n - 1 |-> Draw(i, x - 1)])]
  BY <1>2
<1> HIDE DEF sum
<1>4. Accumulates(sum, m, c.kind, c.n)
  BY <1>3 DEF Accumulates
<1> QED
  BY <1>1, <1>4

\* The numbers of a config.
LEMMA ConfigFacts ==
    ASSUME config \in Configs
    PROVE  /\ n \in Nat \ {0} /\ d \in Nat \ {0} /\ n * d \in Nat
           /\ config.faulty \subseteq 0 .. n - 1
           /\ config.kind \in Kinds /\ config.entry \in Entries
<1>1. PICK m \in 1 .. MaxN :
        config \in [entry : Entries, kind : Kinds, n : {m}, backend : Backends,
                    parallel : BOOLEAN, faulty : SUBSET (0 .. m - 1)]
  BY DEF Configs
<1>2. config.n = m /\ m \in Nat \ {0}
  BY <1>1, SizeAssumption
<1>3. n \in Nat \ {0} /\ d \in Nat \ {0}
  BY <1>2, SizeAssumption DEF n, d
<1> QED
  BY <1>1, <1>2, <1>3 DEF n

\* A mixed-radix representation is unique.
LEMMA Digits ==
    ASSUME NEW a \in Nat, NEW b \in Nat, NEW c \in Nat \ {0},
           NEW u \in 0 .. c - 1, NEW v \in 0 .. c - 1, a * c + u = b * c + v
    PROVE  a = b /\ u = v
  OBVIOUS

\* A number written as a multiple plus a remainder is divided.
LEMMA Quotients ==
    ASSUME NEW q \in Nat, NEW c \in Nat \ {0}, NEW r \in 0 .. c - 1
    PROVE  (q * c + r) \div c = q /\ (q * c + r) % c = r
<1> DEFINE x == q * c + r
           v == x \div c
           u == x % c
<1>1. x \in Nat
  OBVIOUS
<1>2. v \in Nat /\ u \in 0 .. c - 1 /\ x = c * v + u
  BY <1>1
<1>3. x = q * c + r
  OBVIOUS
<1> HIDE DEF x, v, u
<1>4. v * c + u = q * c + r
  BY <1>2, <1>3
<1>5. v = q /\ u = r
  BY <1>2, <1>4, Digits
<1> QED
  BY <1>5 DEF v, u, x

\* Each row has cells of its own, and the cells of row i are those of quotient i.
LEMMA CellFacts ==
    ASSUME n \in Nat \ {0}, d \in Nat \ {0}, NEW i \in 0 .. n - 1, NEW j \in 0 .. d - 1
    PROVE  /\ i * d + j \in 0 .. n * d - 1
           /\ (i * d + j) \div d = i /\ (i * d + j) % d = j
           /\ Cell(i * d + j) = Draw(i, j)
<1> DEFINE D == d
           N == n
<1>1. (i * D + j) \div D = i /\ (i * D + j) % D = j
  BY Quotients
<1>2. i * D + j \in 0 .. N * D - 1
  <2>1. (i + 1) * D <= N * D
    <3>1. i + 1 \in Int /\ N \in Int /\ D \in Nat /\ i + 1 <= N
      OBVIOUS
    <3> HIDE DEF N, D
    <3> QED
      BY <3>1
  <2>2. (i + 1) * D = i * D + D /\ i * D \in Nat /\ N * D \in Nat
    <3>1. i \in Nat /\ N \in Nat /\ D \in Nat
      OBVIOUS
    <3> HIDE DEF N, D
    <3> QED
      BY <3>1
  <2> QED
    BY <2>1, <2>2
<1> QED
  BY <1>1, <1>2 DEF Cell

\* The prefixes of a row.
LEMMA RowFacts ==
    ASSUME NEW i, NEW h, NEW k \in Nat
    PROVE  /\ Len(ApplyAt(i, h, k).row) = k
           /\ \A j \in 0 .. k - 1 : ApplyAt(i, h, k).row[j + 1] = Draw(i, j)
           /\ Append(ApplyAt(i, h, k).row, Draw(i, k)) = ApplyAt(i, h, k + 1).row
<1> DEFINE F == [j \in 1 .. k + 1 |-> Draw(i, j - 1)]
<1>1. /\ ApplyAt(i, h, k).row = [j \in 1 .. k |-> F[j]]
      /\ ApplyAt(i, h, k + 1).row = [j \in 1 .. k + 1 |-> F[j]]
      /\ F[k + 1] = Draw(i, k)
  BY DEF ApplyAt
<1>2. \A j \in 0 .. k - 1 : ApplyAt(i, h, k).row[j + 1] = Draw(i, j)
  BY DEF ApplyAt
<1> HIDE DEF F
<1> QED
  BY <1>1, <1>2, Prefixes

-----------------------------------------------------------------------------
(* What a step leaves alone.                                               *)

\* A busy thread is at a draw of its range.
LEMMA Ranges ==
    ASSUME NEW t \in Threads, Correct(job[t])
    PROVE  \/ job[t] = Idle /\ Left(t) = {}
           \/ /\ job[t] # Idle /\ job[t].stage \in {"fork", "theta", "apply"}
              /\ job[t].at \in 0 .. n - 1 /\ job[t].hi \in job[t].at + 1 .. n
              /\ Left(t) = job[t].at .. job[t].hi - 1
<1>1. CASE job[t] = Idle
  BY <1>1 DEF Left, Busy
<1>2. ASSUME NEW i \in 0 .. n - 1, NEW h \in i + 1 .. n,
             job[t].stage \in {"fork", "theta", "apply"}, job[t].at = i, job[t].hi = h
      PROVE  /\ job[t] # Idle /\ job[t].stage \in {"fork", "theta", "apply"}
             /\ job[t].at \in 0 .. n - 1 /\ job[t].hi \in job[t].at + 1 .. n
             /\ Left(t) = job[t].at .. job[t].hi - 1
  <2>1. job[t] # Idle
    BY <1>2 DEF Idle
  <2> QED
    BY <1>2, <2>1 DEF Left, Busy
<1>3. CASE \E i \in 0 .. n - 1 : \E h \in i + 1 .. n :
             job[t] = ForkAt(i, h) \/ job[t] = ThetaAt(i, h)
               \/ \E k \in 0 .. d : job[t] = ApplyAt(i, h, k)
  <2>0. PICK i \in 0 .. n - 1 : \E h \in i + 1 .. n :
             job[t] = ForkAt(i, h) \/ job[t] = ThetaAt(i, h)
               \/ \E k \in 0 .. d : job[t] = ApplyAt(i, h, k)
    BY <1>3
  <2>1. PICK h \in i + 1 .. n :
             job[t] = ForkAt(i, h) \/ job[t] = ThetaAt(i, h)
               \/ \E k \in 0 .. d : job[t] = ApplyAt(i, h, k)
    BY <2>0
  <2>2. job[t].stage \in {"fork", "theta", "apply"} /\ job[t].at = i /\ job[t].hi = h
    <3>1. CASE job[t] = ForkAt(i, h)
      BY <3>1 DEF ForkAt
    <3>2. CASE job[t] = ThetaAt(i, h)
      BY <3>2 DEF ThetaAt
    <3>3. CASE \E k \in 0 .. d : job[t] = ApplyAt(i, h, k)
      <4>1. PICK k \in 0 .. d : job[t] = ApplyAt(i, h, k)
        BY <3>3
      <4> QED
        BY <4>1 DEF ApplyAt
    <3> QED
      BY <2>1, <3>1, <3>2, <3>3
  <2> QED
    BY <1>2, <2>2
<1> QED
  BY <1>1, <1>3 DEF Correct

\* The stage of a job tells which of the three forms it has.
LEMMA Forms ==
    ASSUME NEW J, Correct(J)
    PROVE  /\ J.stage = "fork" =>
                \E i \in 0 .. n - 1 : \E h \in i + 1 .. n : J = ForkAt(i, h)
           /\ J.stage = "theta" =>
                \E i \in 0 .. n - 1 : \E h \in i + 1 .. n : J = ThetaAt(i, h)
           /\ J.stage = "apply" =>
                \E i \in 0 .. n - 1 : \E h \in i + 1 .. n : \E k \in 0 .. d :
                    J = ApplyAt(i, h, k) /\ (k > 0 => i \notin config.faulty)
  BY DEF Correct, Idle, ForkAt, ThetaAt, ApplyAt

\* Ownership speaks of the ranges only.
LEMMA SameRanges ==
    ASSUME RowsAreOwned, UNCHANGED tasks, \A t \in Threads : Left(t)' \subseteq Left(t)
    PROVE  RowsAreOwned'
  BY DEF RowsAreOwned, Offered

\* A write puts the right value where it writes: the rows made stay made, and no
\* index is forgotten if those held or offered go to another thread or range, are
\* made, or are lost to a panic.
Writes == \A x \in 0 .. n * d - 1 : cells'[x] = cells[x] \/ cells'[x] = Cell(x)

LEMMA StillMade ==
    ASSUME n \in Nat \ {0}, d \in Nat \ {0}, Writes, UNCHANGED config,
           NEW i \in 0 .. n - 1, Made(i)
    PROVE  Made(i)'
<1>1. n' = n /\ d' = d
  BY DEF n, d
<1>2. ASSUME NEW j \in 0 .. d - 1 PROVE cells'[i * d + j] = Draw(i, j)
  BY CellFacts DEF Writes, Made
<1> QED
  BY <1>1, <1>2 DEF Made

LEMMA StillDrawn ==
    ASSUME n \in Nat \ {0}, d \in Nat \ {0}, Writes, UNCHANGED <<config, pc>>,
           Drawn, crashed => crashed',
           \A i \in 0 .. n - 1 :
               (\E t \in Threads : i \in Left(t)) \/ (\E r \in tasks : i \in Offered(r)) =>
                   \/ crashed'
                   \/ \E t \in Threads : i \in Left(t)'
                   \/ \E r \in tasks' : i \in Offered(r)
                   \/ Made(i)'
    PROVE  Drawn'
<1>1. n' = n
  BY DEF n
<1>2. ASSUME NEW i \in 0 .. n - 1, Made(i) PROVE Made(i)'
  BY <1>2, StillMade
<1> QED
  BY <1>1, <1>2 DEF Drawn, Offered

\* A row being computed is written as far as it is computed.
LEMMA StillWritten ==
    ASSUME n \in Nat \ {0}, d \in Nat \ {0}, Writes, UNCHANGED config, Rows,
           NEW u \in Threads, \A t \in Threads \ {u} : job'[t] = job[t],
           \A i \in 0 .. n - 1 : \A h \in i + 1 .. n : \A k \in 0 .. d :
               job'[u] = ApplyAt(i, h, k) /\ config.entry = "family" =>
                   \A j \in 0 .. k - 1 : cells'[i * d + j] = Draw(i, j)
    PROVE  Rows'
<1>1. n' = n /\ d' = d
  BY DEF n, d
<1> SUFFICES ASSUME config.entry = "family",
                    NEW t \in Threads, NEW i \in 0 .. n - 1, NEW h \in i + 1 .. n,
                    NEW k \in 0 .. d, job'[t] = ApplyAt(i, h, k), NEW j \in 0 .. k - 1
             PROVE  cells'[i * d + j] = Draw(i, j)
  BY <1>1 DEF Rows
<1>2. CASE t = u
  <2>1. job'[u] = ApplyAt(i, h, k)
    BY <1>2
  <2> QED
    BY <2>1
<1>3. CASE t # u
  <2>1. cells[i * d + j] = Draw(i, j)
    <3>1. job[t] = ApplyAt(i, h, k)
      BY <1>3
    <3> QED
      BY <3>1 DEF Rows
  <2>2. j \in 0 .. d - 1
    OBVIOUS
  <2> QED
    BY <2>1, <2>2, CellFacts DEF Writes
<1> QED
  BY <1>2, <1>3

\* A step of the draw loop leaves the call, and what is accumulated, alone.
LEMMA LoopStep ==
    ASSUME IInv, pc = "drawing",
           UNCHANGED <<config, pc, pooled, col, total, threaded>>,
           crashed' \in BOOLEAN, crashed' => config.faulty # {},
           \A r \in tasks' : r[1] \in 0 .. n - 1 /\ r[2] \in r[1] + 1 .. n,
           cells' = [x \in 0 .. n * d - 1 |-> cells'[x]]
    PROVE  Basic' /\ Sums'
<1>1. n' = n /\ d' = d /\ (UsesPool' <=> UsesPool) /\ (ReportThreaded' <=> ReportThreaded)
  BY DEF n, d, UsesPool, ReportThreaded
<1>2. Basic'
  BY <1>1 DEF IInv, Basic
<1>3. Sums'
  BY <1>1 DEF IInv, Sums
<1> QED
  BY <1>2, <1>3

\* A thread moves on in its range, keeping what it still has to draw or making it.
LEMMA JobStep ==
    ASSUME IInv, NEW u \in Threads, NEW J, Correct(J), job[u] # Idle,
           job' = [job EXCEPT ![u] = J],
           UNCHANGED <<config, pc, pooled, tasks, col, total, threaded>>,
           crashed' \in BOOLEAN, crashed => crashed', crashed' => config.faulty # {},
           cells' = [x \in 0 .. n * d - 1 |-> cells'[x]], Writes,
           Left(u)' \subseteq Left(u),
           \A i \in Left(u) : crashed' \/ i \in Left(u)' \/ Made(i)',
           \A i \in 0 .. n - 1 : \A h \in i + 1 .. n : \A k \in 0 .. d :
               J = ApplyAt(i, h, k) /\ config.entry = "family" =>
                   \A j \in 0 .. k - 1 : cells'[i * d + j] = Draw(i, j)
    PROVE  IInv'
<1>1. pc = "drawing" /\ n \in Nat \ {0} /\ d \in Nat \ {0}
  BY ConfigFacts DEF IInv, Basic
<1>2. job = [t \in Threads |-> job[t]]
  BY DEF IInv, Jobs
<1>3. job'[u] = J /\ \A t \in Threads \ {u} : job'[t] = job[t]
  BY <1>2
<1>4. Basic' /\ Sums'
  BY <1>1, LoopStep DEF IInv, Basic
<1>5. Jobs'
  <2>1. job' = [t \in Threads |-> job'[t]]
    BY <1>2
  <2>2. n' = n /\ d' = d
    BY DEF n, d
  <2>3. \A t \in Threads : Correct(job'[t])
    BY <1>3 DEF IInv, Jobs
  <2>4. \A t \in Threads : Correct(job'[t]) => Correct(job[t])'
    BY <2>2 DEF Correct
  <2> QED
    BY <2>1, <2>3, <2>4 DEF Jobs
<1>6. Rows'
  BY <1>1, <1>3, StillWritten DEF IInv
<1>7. \A t \in Threads \ {u} : Left(t)' = Left(t)
  BY <1>3 DEF Left, Busy
<1>8. RowsAreOwned'
  <2>1. \A t \in Threads : Left(t)' \subseteq Left(t)
    BY <1>7
  <2> QED
    BY <2>1, SameRanges DEF IInv
<1>9. Drawn'
  <2>1. ASSUME NEW i \in 0 .. n - 1,
               (\E t \in Threads : i \in Left(t)) \/ (\E r \in tasks : i \in Offered(r))
        PROVE  \/ crashed'
               \/ \E t \in Threads : i \in Left(t)'
               \/ \E r \in tasks' : i \in Offered(r)
               \/ Made(i)'
    BY <1>7, <2>1
  <2> QED
    BY <1>1, <2>1, StillDrawn DEF IInv
<1> QED
  BY <1>4, <1>5, <1>6, <1>8, <1>9 DEF IInv

-----------------------------------------------------------------------------
(* The steps of a thread.                                                  *)

\* A step that writes nothing.
LEMMA NoWrite ==
    ASSUME IInv, pc # "start", UNCHANGED <<config, cells>>
    PROVE  cells' = [x \in 0 .. n * d - 1 |-> cells'[x]] /\ Writes
  BY DEF IInv, Basic, Writes

\* A thread at work is in the draw loop, at a draw of the ensemble.
LEMMA AtWork ==
    ASSUME IInv, NEW t \in Threads, job[t] # Idle
    PROVE  /\ pc = "drawing" /\ Correct(job[t])
           /\ n \in Nat \ {0} /\ d \in Nat \ {0}
           /\ job[t].at \in 0 .. n - 1 /\ job[t].hi \in job[t].at + 1 .. n
           /\ Left(t) = job[t].at .. job[t].hi - 1
  BY ConfigFacts, Ranges DEF IInv, Basic, Jobs

\* The substream is that of the index the thread is at.
LEMMA ForkStep == ASSUME IInv, NEW t \in Threads, Fork(t) PROVE IInv'
<1>1. job[t].stage = "fork" /\ job[t] # Idle
  BY DEF Fork, Idle
<1>2. PICK i \in 0 .. n - 1 : \E h \in i + 1 .. n : job[t] = ForkAt(i, h)
  BY <1>1, AtWork, Forms
<1>3. PICK h \in i + 1 .. n : job[t] = ForkAt(i, h)
  BY <1>2
<1>4. job' = [job EXCEPT ![t] = ThetaAt(i, h)]
  BY <1>3 DEF Fork, ForkAt, ThetaAt
<1>5. Correct(ThetaAt(i, h))
  BY <1>3 DEF Correct
<1>6. Left(t)' = Left(t)
  <2>1. job'[t] = ThetaAt(i, h)
    BY <1>4 DEF IInv, Jobs
  <2> QED
    BY <1>3, <2>1 DEF Left, Busy, Idle, ThetaAt, ForkAt
<1>7. \A g, e, k : ThetaAt(i, h) # ApplyAt(g, e, k)
  BY DEF ThetaAt, ApplyAt
<1>8. /\ UNCHANGED <<config, pc, pooled, tasks, col, total, threaded, cells, crashed>>
      /\ pc = "drawing"
  BY <1>1, AtWork DEF Fork
<1>9. cells' = [x \in 0 .. n * d - 1 |-> cells'[x]] /\ Writes
  BY <1>8, NoWrite
<1>10. crashed' \in BOOLEAN /\ (crashed' => config.faulty # {})
  BY <1>8 DEF IInv, Basic
<1> QED
  BY <1>1, <1>4, <1>5, <1>6, <1>7, <1>8, <1>9, <1>10, JobStep

\* theta is read from the first word of that substream.
LEMMA SampleThetaStep == ASSUME IInv, NEW t \in Threads, SampleTheta(t) PROVE IInv'
<1>1. job[t].stage = "theta" /\ job[t] # Idle
  BY DEF SampleTheta, Idle
<1>2. PICK i \in 0 .. n - 1 : \E h \in i + 1 .. n : job[t] = ThetaAt(i, h)
  BY <1>1, AtWork, Forms
<1>3. PICK h \in i + 1 .. n : job[t] = ThetaAt(i, h)
  BY <1>2
<1>4. job' = [job EXCEPT ![t] = ApplyAt(i, h, 0)]
  <2>1. << >> = [j \in 1 .. 0 |-> Draw(i, j - 1)]
    OBVIOUS
  <2>2. job[t].at = i /\ job[t].hi = h /\ job[t].rng.index = i /\ job[t].rng.word = 0
    BY <1>3 DEF ThetaAt
  <2> QED
    BY <2>1, <2>2 DEF SampleTheta, ApplyAt
<1>5. Correct(ApplyAt(i, h, 0))
  <2>1. 0 \in 0 .. d /\ (0 > 0 => i \notin config.faulty)
    BY <1>1, AtWork
  <2> QED
    BY <1>3, <2>1 DEF Correct
<1>6. Left(t)' = Left(t)
  <2>1. job'[t] = ApplyAt(i, h, 0)
    BY <1>4 DEF IInv, Jobs
  <2> QED
    BY <1>3, <2>1 DEF Left, Busy, Idle, ThetaAt, ApplyAt
<1>7. ASSUME NEW g, NEW e, NEW k \in Nat, ApplyAt(i, h, 0) = ApplyAt(g, e, k)
      PROVE  k = 0
  BY <1>7 DEF ApplyAt
<1>8. /\ UNCHANGED <<config, pc, pooled, tasks, col, total, threaded, cells, crashed>>
      /\ pc = "drawing" /\ d \in Nat
  BY <1>1, AtWork DEF SampleTheta
<1>9. cells' = [x \in 0 .. n * d - 1 |-> cells'[x]] /\ Writes
  BY <1>8, NoWrite
<1>10. crashed' \in BOOLEAN /\ (crashed' => config.faulty # {})
  BY <1>8 DEF IInv, Basic
<1>11. \A g \in 0 .. n - 1 : \A e \in g + 1 .. n : \A k \in 0 .. d :
          ApplyAt(i, h, 0) = ApplyAt(g, e, k) => \A j \in 0 .. k - 1 : FALSE
  BY <1>7, <1>8
<1> QED
  BY <1>1, <1>4, <1>5, <1>6, <1>8, <1>9, <1>10, <1>11, JobStep

\* A panic loses the rest of the range, and is remembered.
LEMMA PanicStep == ASSUME IInv, NEW t \in Threads, Panic(t) PROVE IInv'
<1>1. job[t] # Idle
  BY DEF Panic, Idle
<1>2. job' = [job EXCEPT ![t] = Idle] /\ Correct(Idle)
  BY DEF Panic, Correct
<1>3. Left(t)' = {}
  <2>1. job'[t] = Idle
    BY <1>2 DEF IInv, Jobs
  <2> QED
    BY <2>1 DEF Left, Busy
<1>4. \A g, e, k : Idle # ApplyAt(g, e, k)
  BY DEF Idle, ApplyAt
<1>5. UNCHANGED <<config, pc, pooled, tasks, col, total, threaded>>
  BY DEF Panic
<1>6. cells' = [x \in 0 .. n * d - 1 |-> cells'[x]] /\ Writes
  BY <1>1, AtWork, NoWrite DEF Panic
<1>7. crashed' = TRUE /\ config.faulty # {}
  BY DEF Panic
<1> QED
  BY <1>1, <1>2, <1>3, <1>4, <1>5, <1>6, <1>7, JobStep

\* The next coordinate is the one the schema defines, and in place it is written
\* where it belongs.
LEMMA ApplyStep == ASSUME IInv, NEW t \in Threads, Apply(t) PROVE IInv'
<1>1. job[t] # Idle /\ job[t].stage = "apply"
  BY DEF Apply, Idle
<1>2. /\ pc = "drawing" /\ Correct(job[t]) /\ n \in Nat \ {0} /\ d \in Nat \ {0}
  BY <1>1, AtWork
<1>3. PICK i \in 0 .. n - 1 : \E h \in i + 1 .. n : \E k \in 0 .. d :
        job[t] = ApplyAt(i, h, k) /\ (k > 0 => i \notin config.faulty)
  BY <1>1, <1>2, Forms
<1>4. PICK h \in i + 1 .. n : \E k \in 0 .. d :
        job[t] = ApplyAt(i, h, k) /\ (k > 0 => i \notin config.faulty)
  BY <1>3
<1>5. PICK k \in 0 .. d : job[t] = ApplyAt(i, h, k)
  BY <1>4
<1>6. /\ job[t].at = i /\ job[t].hi = h /\ job[t].theta = Theta(Word(i, 0))
      /\ job[t].rng.index = i /\ job[t].rng.word = k + 1
  BY <1>5 DEF ApplyAt
<1>7. /\ Len(job[t].row) = k
      /\ Append(job[t].row, Draw(i, k)) = ApplyAt(i, h, k + 1).row
      /\ k \in Nat
  BY <1>2, <1>5, RowFacts
<1>8. Shifted(k, job[t].theta, Word(job[t].rng.index, job[t].rng.word)) = Draw(i, k)
  BY <1>6 DEF Draw
<1>9. /\ i \notin config.faulty /\ k < d
      /\ job' = [job EXCEPT ![t] =
                    [stage |-> "apply", at |-> i, hi |-> h,
                     rng |-> [index |-> i, word |-> k + 2], theta |-> Theta(Word(i, 0)),
                     row |-> Append(job[t].row, Draw(i, k))]]
      /\ cells' = IF config.entry = "family"
                  THEN [cells EXCEPT ![i * d + k] = Draw(i, k)] ELSE cells
      /\ UNCHANGED <<config, pc, pooled, tasks, crashed, col, total, threaded>>
  <2>1. /\ job[t].at \notin config.faulty /\ k < d
        /\ job' = [job EXCEPT ![t] =
                      [stage |-> "apply", at |-> job[t].at, hi |-> job[t].hi,
                       rng |-> [index |-> job[t].rng.index, word |-> job[t].rng.word + 1],
                       theta |-> job[t].theta, row |-> Append(job[t].row, Draw(i, k))]]
        /\ cells' = IF config.entry = "family"
                    THEN [cells EXCEPT ![job[t].at * d + k] = Draw(i, k)] ELSE cells
        /\ UNCHANGED <<config, pc, pooled, tasks, crashed, col, total, threaded>>
    BY <1>7, <1>8 DEF Apply
  <2>2. job[t].rng.word + 1 = k + 2
    BY <1>6, <1>7
  <2> QED
    BY <1>6, <2>1, <2>2
<1>10. job' = [job EXCEPT ![t] = ApplyAt(i, h, k + 1)]
  BY <1>7, <1>9 DEF ApplyAt
<1>11. Correct(ApplyAt(i, h, k + 1))
  <2>1. k + 1 \in 0 .. d
    BY <1>2, <1>7, <1>9
  <2> QED
    BY <1>9, <2>1 DEF Correct
<1>12. Left(t)' = Left(t)
  <2>1. job'[t] = ApplyAt(i, h, k + 1)
    BY <1>10 DEF IInv, Jobs
  <2> QED
    BY <1>5, <2>1 DEF Left, Busy, Idle, ApplyAt
<1>13. cells = [x \in 0 .. n * d - 1 |-> cells[x]]
  BY <1>2 DEF IInv, Basic
<1>14. i * d + k \in 0 .. n * d - 1 /\ Cell(i * d + k) = Draw(i, k)
  BY <1>2, <1>7, <1>9, CellFacts
<1>15. cells' = [x \in 0 .. n * d - 1 |-> cells'[x]] /\ Writes
  BY <1>9, <1>13, <1>14 DEF Writes
<1>16. ASSUME config.entry = "family", NEW j \in 0 .. k
       PROVE  cells'[i * d + j] = Draw(i, j)
  <2>1. CASE j = k
    BY <1>9, <1>13, <1>14, <1>16, <2>1
  <2>2. CASE j # k
    <3>1. j \in 0 .. k - 1 /\ j \in 0 .. d - 1
      BY <1>2, <1>7, <1>9, <2>2
    <3>2. cells[i * d + j] = Draw(i, j)
      BY <1>5, <1>16, <3>1 DEF IInv, Rows
    <3>3. i * d + j \in 0 .. n * d - 1 /\ Cell(i * d + j) = Draw(i, j)
      BY <1>2, <3>1, CellFacts
    <3> QED
      BY <1>15, <3>2, <3>3 DEF Writes
  <2> QED
    BY <2>1, <2>2
<1>17. ASSUME NEW g \in 0 .. n - 1, NEW e \in g + 1 .. n, NEW m \in 0 .. d,
              ApplyAt(i, h, k + 1) = ApplyAt(g, e, m), config.entry = "family"
       PROVE  \A j \in 0 .. m - 1 : cells'[g * d + j] = Draw(g, j)
  <2>1. g = i /\ m = k + 1
    <3>1. /\ ApplyAt(i, h, k + 1).at = i /\ ApplyAt(g, e, m).at = g
          /\ ApplyAt(i, h, k + 1).rng.word = k + 2 /\ ApplyAt(g, e, m).rng.word = m + 1
      BY <1>7 DEF ApplyAt
    <3> QED
      BY <1>2, <1>7, <1>17, <3>1
  <2>2. 0 .. m - 1 = 0 .. k
    BY <1>7, <2>1
  <2> QED
    BY <1>16, <1>17, <2>1, <2>2
<1>18. crashed' \in BOOLEAN /\ (crashed' => config.faulty # {})
  BY <1>9 DEF IInv, Basic
<1>19. UNCHANGED <<config, pc, pooled, tasks, crashed, col, total, threaded>>
  BY <1>9
<1>20. \A g \in 0 .. n - 1 : \A e \in g + 1 .. n : \A m \in 0 .. d :
          ApplyAt(i, h, k + 1) = ApplyAt(g, e, m) /\ config.entry = "family" =>
              \A j \in 0 .. m - 1 : cells'[g * d + j] = Draw(g, j)
  BY <1>17
<1> QED
  BY <1>1, <1>10, <1>11, <1>12, <1>15, <1>18, <1>19, <1>20, JobStep

\* A complete draw is stored in the row of its index.
LEMMA EmitStep == ASSUME IInv, NEW t \in Threads, Emit(t) PROVE IInv'
<1>1. job[t] # Idle /\ job[t].stage = "apply"
  BY DEF Emit, Idle
<1>2. /\ pc = "drawing" /\ Correct(job[t]) /\ n \in Nat \ {0} /\ d \in Nat \ {0}
  BY <1>1, AtWork
<1>3. PICK i \in 0 .. n - 1 : \E h \in i + 1 .. n : \E k \in 0 .. d :
        job[t] = ApplyAt(i, h, k) /\ (k > 0 => i \notin config.faulty)
  BY <1>1, <1>2, Forms
<1>4. PICK h \in i + 1 .. n : \E k \in 0 .. d :
        job[t] = ApplyAt(i, h, k) /\ (k > 0 => i \notin config.faulty)
  BY <1>3
<1>5. PICK k \in 0 .. d : job[t] = ApplyAt(i, h, k) /\ (k > 0 => i \notin config.faulty)
  BY <1>4
<1>6. k = d /\ i \notin config.faulty
  <2>1. Len(job[t].row) = k
    BY <1>2, <1>5, RowFacts
  <2> QED
    BY <1>2, <1>5, <2>1 DEF Emit
<1>7. /\ job[t].at = i /\ job[t].hi = h
      /\ \A j \in 0 .. d - 1 : job[t].row[j + 1] = Draw(i, j)
  <2>1. \A j \in 0 .. d - 1 : ApplyAt(i, h, d).row[j + 1] = Draw(i, j)
    BY <1>2, RowFacts
  <2> QED
    BY <1>5, <1>6, <2>1 DEF ApplyAt
<1> DEFINE J == IF i + 1 < h THEN ForkAt(i + 1, h) ELSE Idle
<1>8. job' = [job EXCEPT ![t] = J]
  BY <1>7 DEF Emit, ForkAt
<1>9. Correct(J)
  <2>1. CASE i + 1 < h
    <3>1. i + 1 \in 0 .. n - 1 /\ h \in (i + 1) + 1 .. n
      BY <1>2, <2>1
    <3> QED
      BY <2>1, <3>1 DEF Correct
  <2>2. CASE ~(i + 1 < h)
    BY <2>2 DEF Correct
  <2> QED
    BY <2>1, <2>2
<1>10. \A g, e, m : J # ApplyAt(g, e, m)
  BY DEF Idle, ForkAt, ApplyAt
<1>11. UNCHANGED <<config, pc, pooled, tasks, crashed, col, total, threaded>>
  BY DEF Emit
<1>12. cells = [x \in 0 .. n * d - 1 |-> cells[x]]
  BY <1>2 DEF IInv, Basic
<1>13. /\ cells' = [x \in 0 .. n * d - 1 |-> cells'[x]] /\ Writes
       /\ \A j \in 0 .. d - 1 : cells'[i * d + j] = Draw(i, j)
  <2>1. CASE config.entry = "family"
    <3>1. cells' = cells
      BY <2>1 DEF Emit
    <3>2. \A j \in 0 .. d - 1 : cells[i * d + j] = Draw(i, j)
      BY <1>5, <1>6, <2>1 DEF IInv, Rows
    <3> QED
      BY <1>12, <3>1, <3>2 DEF Writes
  <2>2. CASE config.entry # "family"
    <3>1. cells' = [x \in 0 .. n * d - 1 |->
                      IF x \div d = i THEN job[t].row[(x % d) + 1] ELSE cells[x]]
      BY <1>7, <1>12, <2>2 DEF Emit
    <3>2. ASSUME NEW x \in 0 .. n * d - 1
          PROVE  cells'[x] = cells[x] \/ cells'[x] = Cell(x)
      <4>1. x % d \in 0 .. d - 1
        <5>1. n * d \in Nat
          BY ConfigFacts DEF IInv, Basic
        <5>2. x \in Nat
          BY <5>1
        <5> QED
          BY <1>2, <5>2
      <4>2. CASE x \div d = i
        <5>1. cells'[x] = job[t].row[(x % d) + 1]
          BY <3>1, <4>2
        <5>2. cells'[x] = Draw(i, x % d)
          BY <1>7, <4>1, <5>1
        <5> QED
          BY <4>2, <5>2 DEF Cell
      <4>3. CASE x \div d # i
        BY <3>1, <4>3
      <4> QED
        BY <4>2, <4>3
    <3>3. ASSUME NEW j \in 0 .. d - 1
          PROVE  cells'[i * d + j] = Draw(i, j)
      <4>1. i * d + j \in 0 .. n * d - 1 /\ (i * d + j) \div d = i /\ (i * d + j) % d = j
        BY <1>2, CellFacts
      <4>2. cells'[i * d + j] = job[t].row[j + 1]
        BY <3>1, <4>1
      <4> QED
        BY <1>7, <4>2
    <3>4. cells' = [x \in 0 .. n * d - 1 |-> cells'[x]]
      BY <3>1
    <3> QED
      BY <3>2, <3>3, <3>4 DEF Writes
  <2> QED
    BY <2>1, <2>2
<1>14. Made(i)'
  <2>1. d' = d /\ config' = config
    BY <1>11 DEF d
  <2> QED
    BY <1>6, <1>13, <2>1 DEF Made
<1>15. Left(t)' \subseteq Left(t) /\ Left(t) \subseteq Left(t)' \cup {i}
  <2>1. job'[t] = J
    BY <1>8 DEF IInv, Jobs
  <2>2. Left(t) = i .. h - 1
    BY <1>1, <1>7, AtWork
  <2>3. CASE i + 1 < h
    <3>1. Left(t)' = i + 1 .. h - 1
      BY <2>1, <2>3 DEF Left, Busy, Idle, ForkAt
    <3> QED
      BY <2>2, <3>1
  <2>4. CASE ~(i + 1 < h)
    <3>1. Left(t)' = {}
      BY <2>1, <2>4 DEF Left, Busy
    <3>2. h = i + 1
      BY <1>2, <2>4
    <3> QED
      BY <2>2, <3>1, <3>2
  <2> QED
    BY <2>3, <2>4
<1>16. crashed' \in BOOLEAN /\ (crashed' => config.faulty # {})
  BY <1>11 DEF IInv, Basic
<1> HIDE DEF J
<1> QED
  BY <1>1, <1>8, <1>9, <1>10, <1>11, <1>13, <1>14, <1>15, <1>16, JobStep

\* A thread that takes a range holds what was offered.
LEMMA TakeStep == ASSUME IInv, NEW t \in Threads, Take(t) PROVE IInv'
<1>1. PICK r \in tasks :
        /\ tasks' = tasks \ {r}
        /\ job' = [job EXCEPT ![t] = ForkAt(r[1], r[2])]
  BY DEF Take, ForkAt
<1>2. /\ pc = "drawing" /\ job[t] = Idle /\ n \in Nat \ {0} /\ d \in Nat \ {0}
      /\ UNCHANGED <<config, pc, pooled, cells, crashed, col, total, threaded>>
  BY ConfigFacts DEF Take, IInv, Basic
<1>3. r[1] \in 0 .. n - 1 /\ r[2] \in r[1] + 1 .. n
  BY <1>1 DEF IInv, Basic
<1>4. n' = n /\ d' = d
  BY <1>2 DEF n, d
<1>5. cells' = [x \in 0 .. n * d - 1 |-> cells'[x]] /\ Writes
  BY <1>2, NoWrite
<1>6. /\ job' = [u \in Threads |-> job'[u]] /\ job'[t] = ForkAt(r[1], r[2])
      /\ \A u \in Threads \ {t} : job'[u] = job[u]
  BY <1>1 DEF IInv, Jobs
<1>7. Basic' /\ Sums'
  <2>1. /\ crashed' \in BOOLEAN /\ (crashed' => config.faulty # {})
        /\ \A q \in tasks' : q[1] \in 0 .. n - 1 /\ q[2] \in q[1] + 1 .. n
    BY <1>1, <1>2 DEF IInv, Basic
  <2> QED
    BY <1>2, <1>5, <2>1, LoopStep
<1>8. Jobs'
  <2>1. Correct(ForkAt(r[1], r[2]))
    BY <1>3 DEF Correct
  <2>2. \A u \in Threads : Correct(job'[u])
    BY <1>6, <2>1 DEF IInv, Jobs
  <2>3. \A u \in Threads : Correct(job'[u]) => Correct(job[u])'
    BY <1>2, <1>4 DEF Correct
  <2> QED
    BY <1>6, <2>2, <2>3 DEF Jobs
<1>9. Rows'
  <2>1. \A i, h, k : ForkAt(r[1], r[2]) # ApplyAt(i, h, k)
    BY DEF ForkAt, ApplyAt
  <2>2. \A i, h, k : job'[t] # ApplyAt(i, h, k)
    BY <1>6, <2>1
  <2> QED
    BY <1>2, <1>5, <1>6, <2>2, StillWritten DEF IInv
<1>10. /\ Left(t) = {} /\ Left(t)' = Offered(r)
       /\ \A u \in Threads \ {t} : Left(u)' = Left(u)
  <2>1. Left(t)' = r[1] .. r[2] - 1
    BY <1>6 DEF Left, Busy, Idle, ForkAt
  <2> QED
    BY <1>2, <1>6, <2>1 DEF Left, Busy, Offered
<1>11. RowsAreOwned'
  <2>1. ASSUME NEW u \in Threads, NEW v \in Threads, u # v
        PROVE  Left(u)' \cap Left(v)' = {}
    <3>1. CASE u = t
      BY <1>1, <1>10, <2>1, <3>1 DEF IInv, RowsAreOwned
    <3>2. CASE v = t
      BY <1>1, <1>10, <2>1, <3>2 DEF IInv, RowsAreOwned
    <3>3. CASE u # t /\ v # t
      BY <1>10, <2>1, <3>3 DEF IInv, RowsAreOwned
    <3> QED
      BY <3>1, <3>2, <3>3
  <2>2. ASSUME NEW u \in Threads, NEW q \in tasks'
        PROVE  Left(u)' \cap Offered(q) = {}
    <3>1. q \in tasks /\ q # r
      BY <1>1, <2>2
    <3>2. CASE u = t
      BY <1>1, <1>10, <3>1, <3>2 DEF IInv, RowsAreOwned
    <3>3. CASE u # t
      BY <1>10, <3>1, <3>3 DEF IInv, RowsAreOwned
    <3> QED
      BY <3>2, <3>3
  <2>3. \A q, p \in tasks' : q # p => Offered(q) \cap Offered(p) = {}
    BY <1>1 DEF IInv, RowsAreOwned
  <2> QED
    BY <2>1, <2>2, <2>3 DEF RowsAreOwned, Offered
<1>12. Drawn'
  <2>1. ASSUME NEW i \in 0 .. n - 1,
               (\E u \in Threads : i \in Left(u)) \/ (\E q \in tasks : i \in Offered(q))
        PROVE  (\E u \in Threads : i \in Left(u)') \/ (\E q \in tasks' : i \in Offered(q))
    BY <1>1, <1>10, <2>1
  <2> QED
    BY <1>2, <1>5, <2>1, StillDrawn DEF IInv
<1> QED
  BY <1>7, <1>8, <1>9, <1>11, <1>12 DEF IInv

-----------------------------------------------------------------------------
(* The steps of the pool and of the call.                                  *)

\* Ranges that nobody has taken may be divided, or dropped after a panic.
LEMMA OfferStep ==
    ASSUME IInv, pc = "drawing",
           UNCHANGED <<config, pc, pooled, job, cells, crashed, col, total, threaded>>,
           \A q \in tasks' : q[1] \in 0 .. n - 1 /\ q[2] \in q[1] + 1 .. n,
           \A q, p \in tasks' : q # p => Offered(q) \cap Offered(p) = {},
           \A q \in tasks' : \E p \in tasks : Offered(q) \subseteq Offered(p),
           \A p \in tasks : \A i \in Offered(p) : crashed \/ \E q \in tasks' : i \in Offered(q)
    PROVE  IInv'
<1>1. n \in Nat \ {0} /\ d \in Nat \ {0} /\ n' = n /\ d' = d
  BY ConfigFacts DEF IInv, Basic, n, d
<1>2. cells' = [x \in 0 .. n * d - 1 |-> cells'[x]] /\ Writes
  BY NoWrite
<1>3. Basic' /\ Sums'
  <2>1. crashed' \in BOOLEAN /\ (crashed' => config.faulty # {})
    BY DEF IInv, Basic
  <2> QED
    BY <1>2, <2>1, LoopStep
<1>4. Jobs' /\ Rows'
  BY <1>1 DEF IInv, Jobs, Rows, Correct
<1>5. \A u \in Threads : Left(u)' = Left(u)
  BY DEF Left, Busy
<1>6. RowsAreOwned'
  <2>1. \A u, v \in Threads : u # v => Left(u)' \cap Left(v)' = {}
    BY <1>5 DEF IInv, RowsAreOwned
  <2>2. ASSUME NEW u \in Threads, NEW q \in tasks' PROVE Left(u)' \cap Offered(q) = {}
    <3>1. PICK p \in tasks : Offered(q) \subseteq Offered(p)
      OBVIOUS
    <3>2. Left(u) \cap Offered(p) = {}
      BY DEF IInv, RowsAreOwned
    <3> QED
      BY <1>5, <3>1, <3>2
  <2> QED
    BY <2>1, <2>2 DEF RowsAreOwned, Offered
<1>7. Drawn'
  BY <1>1, <1>2, <1>5, StillDrawn DEF IInv
<1> QED
  BY <1>3, <1>4, <1>6, <1>7 DEF IInv

\* The halves of a range are apart and make it up.
LEMMA Halves ==
    ASSUME NEW a \in Nat, NEW b \in Nat, b - a > 1
    PROVE  /\ (a + b) \div 2 \in a + 1 .. b - 1
           /\ a .. ((a + b) \div 2) - 1 \subseteq a .. b - 1
           /\ (a + b) \div 2 .. b - 1 \subseteq a .. b - 1
           /\ (a .. ((a + b) \div 2) - 1) \cap ((a + b) \div 2 .. b - 1) = {}
           /\ a .. b - 1 \subseteq (a .. ((a + b) \div 2) - 1) \cup ((a + b) \div 2 .. b - 1)
<1>1. (a + b) \div 2 \in a + 1 .. b - 1
  OBVIOUS
<1> DEFINE mid == (a + b) \div 2
<1>2. mid \in a + 1 .. b - 1
  BY <1>1
<1> HIDE DEF mid
<1>3. /\ a .. mid - 1 \subseteq a .. b - 1 /\ mid .. b - 1 \subseteq a .. b - 1
      /\ (a .. mid - 1) \cap (mid .. b - 1) = {}
      /\ a .. b - 1 \subseteq (a .. mid - 1) \cup (mid .. b - 1)
  BY <1>2
<1> QED
  BY <1>2, <1>3 DEF mid

\* A range that nobody has started is halved.
LEMMA SplitStep == ASSUME IInv, Split PROVE IInv'
<1>1. PICK r \in tasks :
        /\ r[2] - r[1] > 1
        /\ tasks' = (tasks \ {r}) \cup {<<r[1], (r[1] + r[2]) \div 2>>,
                                        <<(r[1] + r[2]) \div 2, r[2]>>}
  BY DEF Split
<1>2. /\ pc = "drawing" /\ n \in Nat \ {0}
      /\ UNCHANGED <<config, pc, pooled, job, cells, crashed, col, total, threaded>>
  BY ConfigFacts DEF Split, IInv, Basic
<1>3. \A q \in tasks : q[1] \in 0 .. n - 1 /\ q[2] \in q[1] + 1 .. n
  BY DEF IInv, Basic
<1> DEFINE mid == (r[1] + r[2]) \div 2
           low == <<r[1], mid>>
           high == <<mid, r[2]>>
<1>4. /\ mid \in r[1] + 1 .. r[2] - 1
      /\ Offered(low) \subseteq Offered(r) /\ Offered(high) \subseteq Offered(r)
      /\ Offered(low) \cap Offered(high) = {}
      /\ Offered(r) \subseteq Offered(low) \cup Offered(high)
  <2>1. r[1] \in Nat /\ r[2] \in Nat
    BY <1>2, <1>3
  <2>2. /\ Offered(low) = r[1] .. mid - 1 /\ Offered(high) = mid .. r[2] - 1
        /\ Offered(r) = r[1] .. r[2] - 1
    BY DEF Offered
  <2> QED
    BY <1>1, <2>1, <2>2, Halves
<1>5. tasks' = (tasks \ {r}) \cup {low, high} /\ low[1] = r[1] /\ low[2] = mid
        /\ high[1] = mid /\ high[2] = r[2]
  BY <1>1
<1> HIDE DEF low, high, mid
<1>6. \A q \in tasks' : q[1] \in 0 .. n - 1 /\ q[2] \in q[1] + 1 .. n
  BY <1>2, <1>3, <1>4, <1>5
<1>7. \A q, p \in tasks' : q # p => Offered(q) \cap Offered(p) = {}
  <2>1. \A q \in tasks \ {r} : Offered(q) \cap Offered(r) = {}
    BY <1>1 DEF IInv, RowsAreOwned
  <2>2. \A q, p \in tasks \ {r} : q # p => Offered(q) \cap Offered(p) = {}
    BY DEF IInv, RowsAreOwned
  <2>3. \A q \in tasks \ {r} : Offered(q) \cap Offered(low) = {}
                                 /\ Offered(q) \cap Offered(high) = {}
    BY <1>4, <2>1
  <2> QED
    BY <1>4, <1>5, <2>2, <2>3
<1>8. \A q \in tasks' : \E p \in tasks : Offered(q) \subseteq Offered(p)
  BY <1>1, <1>4, <1>5
<1>9. \A p \in tasks : \A i \in Offered(p) : \E q \in tasks' : i \in Offered(q)
  BY <1>4, <1>5
<1> QED
  BY <1>2, <1>6, <1>7, <1>8, <1>9, OfferStep

\* A range that nobody has taken is dropped after a panic.
LEMMA CancelStep == ASSUME IInv, Cancel PROVE IInv'
<1>1. /\ pc = "drawing" /\ crashed /\ tasks' \subseteq tasks
      /\ UNCHANGED <<config, pc, pooled, job, cells, crashed, col, total, threaded>>
  BY DEF Cancel
<1>2. /\ \A q \in tasks' : q[1] \in 0 .. n - 1 /\ q[2] \in q[1] + 1 .. n
      /\ \A q, p \in tasks' : q # p => Offered(q) \cap Offered(p) = {}
      /\ \A q \in tasks' : \E p \in tasks : Offered(q) \subseteq Offered(p)
  BY <1>1 DEF IInv, Basic, RowsAreOwned
<1> QED
  BY <1>1, <1>2, OfferStep

\* The ensemble is allocated and every index is offered once.
LEMMA StartStep == ASSUME IInv, Start PROVE IInv'
<1>1. /\ pc = "start" /\ pc' = "drawing" /\ tasks = {} /\ tasks' = {<<0, n>>}
      /\ (pooled' <=> UsesPool) /\ pooled' \in BOOLEAN
      /\ cells' = [x \in 0 .. n * d - 1 |-> Zero]
      /\ UNCHANGED <<config, job, crashed, col, total, threaded>>
      /\ \A t \in Threads : job[t] = Idle
  BY DEF Start, IInv, Basic, UsesPool
<1>2. /\ n \in Nat \ {0} /\ d \in Nat \ {0} /\ n' = n /\ d' = d
      /\ (UsesPool' <=> UsesPool)
  BY <1>1, ConfigFacts DEF IInv, Basic, n, d, UsesPool
<1>3. cells' = [x \in 0 .. n * d - 1 |-> cells'[x]]
  BY <1>1
<1>4. \A r \in tasks' : r[1] \in 0 .. n - 1 /\ r[2] \in r[1] + 1 .. n
  BY <1>1, <1>2
<1>5. Basic'
  BY <1>1, <1>2, <1>3, <1>4 DEF IInv, Basic
<1>6. Jobs' /\ \A t \in Threads : Left(t)' = {}
  BY <1>1, <1>2 DEF IInv, Jobs, Correct, Left, Busy
<1>7. Rows'
  BY <1>1 DEF Rows, Idle, ApplyAt
<1>8. RowsAreOwned'
  BY <1>1, <1>6 DEF RowsAreOwned
<1>9. Drawn'
  <2>1. <<0, n>> \in tasks' /\ Offered(<<0, n>>) = 0 .. n - 1
    BY <1>1 DEF Offered
  <2> QED
    BY <1>2, <2>1 DEF Drawn, Offered
<1>10. Sums'
  BY <1>1, <1>2 DEF IInv, Sums
<1> QED
  BY <1>5, <1>6, <1>7, <1>8, <1>9, <1>10 DEF IInv

\* Outside the loop no thread draws and no range is offered, and if the loop did
\* not panic the ensemble is what the schema defines.
LEMMA AfterLoop ==
    ASSUME IInv, pc # "start", tasks = {}, \A t \in Threads : job[t] = Idle, ~crashed
    PROVE  \A i \in 0 .. n - 1 : Made(i)
  BY DEF IInv, Drawn, Left, Busy

\* A step of the call after the loop touches neither the ensemble nor the jobs.
LEMMA CallStep ==
    ASSUME IInv, pc # "start", pc' # "start", tasks = {}, \A t \in Threads : job[t] = Idle,
           UNCHANGED <<config, tasks, job, cells, crashed>>
    PROVE  Jobs' /\ Rows' /\ Drawn' /\ RowsAreOwned'
<1>1. n' = n /\ d' = d
  BY DEF n, d
<1>2. Jobs' /\ RowsAreOwned'
  BY <1>1 DEF IInv, Jobs, Correct, RowsAreOwned, Left, Busy, Offered
<1>3. Rows'
  BY DEF Rows, Idle, ApplyAt
<1>4. Drawn'
  BY <1>1 DEF IInv, Drawn, Made, Left, Busy, Offered
<1> QED
  BY <1>2, <1>3, <1>4

\* The loop returns when every range is finished.
LEMMA JoinStep == ASSUME IInv, Join PROVE IInv'
<1>1. /\ pc = "drawing" /\ tasks = {} /\ \A t \in Threads : job[t] = Idle
      /\ pc' = IF crashed THEN "panicked" ELSE "measuring"
      /\ UNCHANGED <<config, pooled, tasks, job, cells, crashed, col, total, threaded>>
  BY DEF Join
<1>2. Jobs' /\ Rows' /\ Drawn' /\ RowsAreOwned'
  BY <1>1, CallStep
<1>3. n' = n /\ d' = d /\ (UsesPool' <=> UsesPool)
  BY <1>1 DEF n, d, UsesPool
<1>4. Basic'
  BY <1>1, <1>3 DEF IInv, Basic
<1>5. Sums'
  BY <1>1, <1>3 DEF IInv, Sums
<1> QED
  BY <1>2, <1>4, <1>5 DEF IInv

\* A column adds to an accumulation what the schema adds.
LEMMA MeasureStep == ASSUME IInv, Measure PROVE IInv'
<1>1. /\ pc = "measuring" /\ col < d /\ tasks = {} /\ ~crashed
      /\ \A t \in Threads : job[t] = Idle
      /\ total' = Column(config.kind, total, Gather) /\ col' = col + 1
      /\ UNCHANGED <<config, pc, pooled, tasks, job, cells, crashed, threaded>>
      /\ col \in 0 .. d
  BY DEF Measure, IInv, Basic
<1>2. Jobs' /\ Rows' /\ Drawn' /\ RowsAreOwned'
  BY <1>1, CallStep
<1>3. /\ n \in Nat \ {0} /\ d \in Nat \ {0} /\ n' = n /\ d' = d
      /\ (UsesPool' <=> UsesPool)
  BY <1>1, ConfigFacts DEF IInv, Basic, n, d, UsesPool
<1>4. Basic'
  BY <1>1, <1>3 DEF IInv, Basic
<1>5. Gather = [i \in 0 .. n - 1 |-> Draw(i, col)]
  <2>1. \A i \in 0 .. n - 1 : Made(i)
    BY <1>1, AfterLoop
  <2>2. col \in 0 .. d - 1
    BY <1>1, <1>3
  <2> QED
    BY <2>1, <2>2 DEF Gather, Made
<1> DEFINE row(m) == [i \in 0 .. n - 1 |-> Draw(i, m)]
<1>6. \A acc, m : Accumulates(acc, m, config.kind, n) <=>
         acc = [x \in 0 .. m |-> IF x = 0 THEN Zero
                                 ELSE Column(config.kind, acc[x - 1], row(x - 1))]
  BY DEF Accumulates
<1> HIDE DEF row
<1>7. ASSUME NEW acc, Accumulates(acc, d, config.kind, n) PROVE acc[col + 1] = total'
  <2>1. acc[col] = total
    BY <1>1, <1>7 DEF IInv, Sums
  <2>2. col + 1 \in 0 .. d /\ col + 1 # 0 /\ (col + 1) - 1 = col
    BY <1>1, <1>3
  <2>3. acc = [x \in 0 .. d |-> IF x = 0 THEN Zero
                                 ELSE Column(config.kind, acc[x - 1], row(x - 1))]
    BY <1>6, <1>7
  <2>4. acc[col + 1] = Column(config.kind, acc[col], row(col))
    BY <2>2, <2>3
  <2> QED
    BY <1>1, <1>5, <2>1, <2>4 DEF row
<1>8. \E acc : Accumulates(acc, col + 1, config.kind, n)
  <2>1. PICK acc : Accumulates(acc, col, config.kind, n)
    BY <1>1 DEF IInv, Sums
  <2> DEFINE sum == Column(config.kind, acc[col], row(col))
             next == [x \in 0 .. col + 1 |-> IF x = col + 1 THEN sum ELSE acc[x]]
  <2>2. acc = [x \in 0 .. col |-> IF x = 0 THEN Zero
                                 ELSE Column(config.kind, acc[x - 1], row(x - 1))]
    BY <1>6, <2>1
  <2>3. ASSUME NEW x \in 0 .. col + 1
        PROVE  next[x] = IF x = 0 THEN Zero ELSE Column(config.kind, next[x - 1], row(x - 1))
    <3>1. CASE x = col + 1
      <4>1. x # 0 /\ x - 1 = col /\ next[col] = acc[col]
        BY <1>1, <1>3, <3>1
      <4> QED
        BY <3>1, <4>1
    <3>2. CASE x = 0
      BY <1>1, <1>3, <2>2, <3>2
    <3>3. CASE x \in 1 .. col
      <4>1. next[x] = acc[x] /\ next[x - 1] = acc[x - 1]
        BY <1>1, <1>3, <3>3
      <4>2. acc[x] = Column(config.kind, acc[x - 1], row(x - 1))
        BY <1>1, <1>3, <2>2, <3>3
      <4> QED
        BY <3>3, <4>1, <4>2
    <3> QED
      BY <1>1, <1>3, <3>1, <3>2, <3>3
  <2>4. next = [x \in 0 .. col + 1 |-> next[x]]
    OBVIOUS
  <2> HIDE DEF next
  <2>5. next = [x \in 0 .. col + 1 |-> IF x = 0 THEN Zero
                                 ELSE Column(config.kind, next[x - 1], row(x - 1))]
    BY <2>3, <2>4
  <2> QED
    BY <1>6, <2>5
<1>9. Sums'
  <2>1. /\ \A acc : Accumulates(acc, d, config.kind, n) => acc[col + 1] = total'
        /\ \E acc : Accumulates(acc, col + 1, config.kind, n)
    BY <1>7, <1>8
  <2> QED
    BY <1>1, <1>3, <2>1 DEF Sums
<1> QED
  BY <1>2, <1>4, <1>9 DEF IInv

\* The report is returned.
LEMMA FinishStep == ASSUME IInv, Finish PROVE IInv'
<1>1. /\ pc = "measuring" /\ col = d /\ tasks = {} /\ pc' = "done"
      /\ \A t \in Threads : job[t] = Idle
      /\ (threaded' <=> ReportThreaded) /\ threaded' \in BOOLEAN
      /\ UNCHANGED <<config, pooled, tasks, job, cells, crashed, col, total>>
  BY DEF Finish, IInv, Basic, ReportThreaded
<1>2. Jobs' /\ Rows' /\ Drawn' /\ RowsAreOwned'
  BY <1>1, CallStep
<1>3. /\ n' = n /\ d' = d /\ (UsesPool' <=> UsesPool)
      /\ (ReportThreaded' <=> ReportThreaded)
  BY <1>1 DEF n, d, UsesPool, ReportThreaded
<1>4. Basic'
  BY <1>1, <1>3 DEF IInv, Basic
<1>5. Sums'
  BY <1>1, <1>3 DEF IInv, Sums
<1> QED
  BY <1>2, <1>4, <1>5 DEF IInv

-----------------------------------------------------------------------------
(* The theorems.                                                           *)

\* At the start nothing is drawn, held or accumulated.
LEMMA InitIInv == ASSUME Init PROVE IInv
<1>1. /\ config \in Configs /\ pc = "start" /\ pooled = FALSE /\ tasks = {}
      /\ job = [t \in Threads |-> Idle] /\ cells = [x \in {} |-> Zero]
      /\ crashed = FALSE /\ col = 0 /\ total = Zero /\ threaded = FALSE
  BY DEF Init
<1>2. n \in Nat \ {0} /\ d \in Nat \ {0}
  BY <1>1, ConfigFacts
<1>3. Basic
  <2>1. pooled \in BOOLEAN /\ crashed \in BOOLEAN /\ threaded \in BOOLEAN /\ ~crashed
    BY <1>1
  <2>2. col \in 0 .. d /\ \A t \in Threads : job[t] = Idle
    BY <1>1, <1>2
  <2>3. /\ config \in Configs /\ pc = "start" /\ tasks = {} /\ cells = [x \in {} |-> Zero]
        /\ col = 0 /\ total = Zero
    BY <1>1
  <2> QED
    BY <2>1, <2>2, <2>3 DEF Basic
<1>4. Jobs /\ Rows /\ Drawn /\ RowsAreOwned
  BY <1>1 DEF Jobs, Correct, Rows, Drawn, RowsAreOwned, Left, Busy, Idle, ApplyAt
<1>5. Sums
  <2>1. ASSUME NEW acc, Accumulates(acc, d, config.kind, n) PROVE acc[0] = Zero
    <3>1. 0 \in 0 .. d
      BY <1>2
    <3> QED
      BY <2>1, <3>1 DEF Accumulates
  <2>2. Accumulates([x \in 0 .. 0 |-> Zero], 0, config.kind, n)
    BY DEF Accumulates
  <2> QED
    BY <1>1, <2>1, <2>2 DEF Sums
<1> QED
  BY <1>3, <1>4, <1>5 DEF IInv

\* Every step keeps the invariant.
LEMMA NextIInv == ASSUME IInv, [Next]_vars PROVE IInv'
<1>1. CASE UNCHANGED vars
  BY <1>1 DEF vars, IInv, Basic, Jobs, Rows, Drawn, Made, RowsAreOwned, Sums, Correct, Left,
              Busy, Offered, n, d, UsesPool, ReportThreaded
<1>2. CASE Drive
  BY <1>2, StartStep, JoinStep, MeasureStep, FinishStep DEF Drive
<1>3. CASE Split \/ Cancel
  BY <1>3, SplitStep, CancelStep
<1>4. ASSUME NEW t \in Threads, Run(t) PROVE IInv'
  BY <1>4, TakeStep, ForkStep, SampleThetaStep, PanicStep, ApplyStep, EmitStep DEF Run
<1> QED
  BY <1>1, <1>2, <1>3, <1>4 DEF Next

\* The invariant gives the four properties the runs check.
LEMMA Consequences ==
    ASSUME IInv
    PROVE  TypeOK /\ RowsAreOwned /\ NoDrawIsLost /\ PoolIsReported
<1>1. TypeOK
  <2>1. \A t \in Threads :
           Busy(t) => /\ job[t].stage \in {"fork", "theta", "apply"}
                      /\ job[t].at \in 0 .. n - 1
                      /\ job[t].hi \in job[t].at + 1 .. n
    BY Ranges DEF IInv, Jobs, Busy
  <2>2. DOMAIN cells \in {{}, 0 .. n * d - 1}
    BY DEF IInv, Basic
  <2> QED
    BY <2>1, <2>2 DEF IInv, Basic, TypeOK
<1>2. NoDrawIsLost
  BY DEF IInv, Basic, Drawn, NoDrawIsLost
<1>3. PoolIsReported
  BY DEF IInv, Basic, PoolIsReported, UsesPool, ReportThreaded
<1> QED
  BY <1>1, <1>2, <1>3 DEF IInv

\* The invariant holds throughout.
LEMMA Always == Spec => []IInv
<1>1. Init => IInv
  BY InitIInv
<1>2. IInv /\ [Next]_vars => IInv'
  BY NextIInv
<1> QED
  BY <1>1, <1>2, PTL DEF Spec

\* Every state of a run has its type.
THEOREM TypeCorrect == Spec => []TypeOK
<1>1. IInv => TypeOK
  BY Consequences
<1> QED
  BY <1>1, Always, PTL

\* However the indices are split and taken, no two threads own the same rows:
\* the unsynchronised writes of a parallel run do not race, and no index is
\* drawn twice.
THEOREM RowsOwned == Spec => []RowsAreOwned
<1>1. IInv => RowsAreOwned
  BY Consequences
<1> QED
  BY <1>1, Always, PTL

\* However the indices are split and taken, and whoever panics, each of them is
\* still to be drawn, or its row holds the draw that its index determines, or the
\* call fails: no value is computed from a partial ensemble.
THEOREM DrawsAreKept == Spec => []NoDrawIsLost
<1>1. IInv => NoDrawIsLost
  BY Consequences
<1> QED
  BY <1>1, Always, PTL

\* Where the pool may be used, the report says whether it was.
THEOREM ReportIsTrue == Spec => []PoolIsReported
<1>1. IInv => PoolIsReported
  BY Consequences
<1> QED
  BY <1>1, Always, PTL

\* A run that finishes returns the value of its config, which no draw of its
\* makes panic.
LEMMA FinishReturns == ASSUME IInv, Finish PROVE Reference!Return
<1>1. /\ pc = "measuring" /\ col = d /\ tasks = {} /\ pc' = "done" /\ ~crashed
      /\ \A t \in Threads : job[t] = Idle
      /\ UNCHANGED <<config, total>>
  BY DEF Finish, IInv, Basic
<1>2. config.faulty = {}
  <2>1. \A i \in 0 .. n - 1 : i \notin config.faulty
    BY <1>1, AfterLoop DEF Made
  <2> QED
    BY <2>1, ConfigFacts DEF IInv, Basic
<1>3. ValueOf(config) = total
  <2>1. /\ d = IF config.kind = "gaussian" THEN Dim ELSE 1
        /\ n = config.n
    BY DEF d, n
  <2>2. /\ \A acc : Accumulates(acc, d, config.kind, n) => acc[d] = total
        /\ \E acc : Accumulates(acc, d, config.kind, n)
    BY <1>1 DEF IInv, Sums
  <2>3. \E acc : Accumulates(acc, d, config.kind, n) /\ ValueOf(config) = acc[d]
    BY <2>1, <2>2, Unfolds
  <2> QED
    BY <2>2, <2>3
<1> QED
  BY <1>1, <1>2, <1>3 DEF Reference!Return, SoundConfig

\* A run fails only where a draw panics, and as a whole.
LEMMA JoinFails ==
    ASSUME IInv, Join
    PROVE  Reference!Fail \/ UNCHANGED Reference!vars
<1>1. /\ pc = "drawing" /\ pc' = IF crashed THEN "panicked" ELSE "measuring"
      /\ UNCHANGED config /\ (crashed => config.faulty # {})
  BY DEF Join, IInv, Basic
<1> QED
  BY <1>1 DEF Reference!Fail, Reference!vars, SoundConfig

\* Every entry point, with every number of threads, division of the indices and
\* schedule, returns the one value of its config or fails as a whole.
THEOREM DrawPoolImplementsEnsemble == Spec => ImplementsEnsemble
<1>1. Init => Reference!Init
  BY DEF Init, Reference!Init
<1>2. IInv /\ [Next]_vars => [Reference!Next]_(Reference!vars)
  <2> SUFFICES ASSUME IInv, [Next]_vars
               PROVE  Reference!Next \/ UNCHANGED Reference!vars
    OBVIOUS
  <2>1. CASE Start
    BY <2>1 DEF Start, Reference!vars
  <2>2. CASE Join
    BY <2>2, JoinFails DEF Reference!Next
  <2>3. CASE Measure
    BY <2>3 DEF Measure, Reference!vars
  <2>4. CASE Finish
    BY <2>4, FinishReturns DEF Reference!Next
  <2>5. CASE UNCHANGED <<config, pc, total>>
    BY <2>5 DEF Reference!vars
  <2>6. CASE Split \/ Cancel \/ UNCHANGED vars
    BY <2>5, <2>6 DEF Split, Cancel, vars
  <2>7. ASSUME NEW t \in Threads, Run(t)
        PROVE  UNCHANGED <<config, pc, total>>
    BY <2>7 DEF Run, Take, Fork, SampleTheta, Panic, Apply, Emit
  <2> QED
    BY <2>1, <2>2, <2>3, <2>4, <2>5, <2>6, <2>7 DEF Next, Drive
<1> QED
  BY <1>1, <1>2, Always, PTL DEF Spec, ImplementsEnsemble, Reference!Spec
=============================================================================
