-------------------------- MODULE DeviceQueueProof --------------------------
(***************************************************************************)
(* Any number of threads share one device context and lose no callback.    *)
(* The inductive invariant follows a readback through the protocol of      *)
(* Context::map_and_read; each of its parts has a lemma with one step per  *)
(* action.                                                                 *)
(***************************************************************************)
EXTENDS DeviceQueue, FiniteSetTheorems, TLAPS

Working == {"submit", "map", "poll", "callbacks", "recv"}
Labels  == {"idle", "context", "new"} \cup Working \cup Finished

-----------------------------------------------------------------------------
(* The inductive invariant, in parts.                                      *)

Types ==
    /\ once \in {"empty", "initialising", "ready", "failed"}
    /\ contexts \in Nat
    /\ pc \in [Threads -> Labels]
    /\ left \in [Threads -> 0 .. MaxReadbacks]
    /\ ticket \in [Threads -> 0 .. MaxTickets]
    /\ queue \in Seq(Readbacks)
    /\ result \subseteq Readbacks
    /\ pending \subseteq Readbacks
    /\ sent \subseteq Readbacks
    /\ collected \in [Threads -> SUBSET Readbacks]

\* A call in progress has a readback to make and a ticket for it.
Counters ==
    \A t \in Threads :
        /\ pc[t] \in {"context", "new"} \cup Working => left[t] >= 1
        /\ pc[t] \in {"context", "new", "submit"} => ticket[t] + left[t] <= MaxTickets
        /\ pc[t] \in Working \ {"submit"} =>
              ticket[t] >= 1 /\ ticket[t] + left[t] <= MaxTickets + 1

\* The cell: who is in Context::new, and what has been published.
Cell ==
    /\ \A t \in Threads : pc[t] = "new" => once = "initialising"
    /\ \A t, u \in Threads : pc[t] = "new" /\ pc[u] = "new" => t = u
    /\ contexts = (IF once = "ready" THEN 1 ELSE 0)
    /\ \A t \in Threads : pc[t] \in Working => once = "ready"

\* A readback that some thread has begun.
Begun(r) == r[2] <= ticket[r[1]]

\* A submission is made once and completes once.
Submissions ==
    /\ \A i \in 1 .. Len(queue) : Begun(queue[i]) /\ queue[i] \notin result
    /\ \A i, j \in 1 .. Len(queue) : i # j => queue[i] # queue[j]
    /\ \A r \in result \cup pending : Begun(r)

\* A callback is registered, collected by one poll, or sent, and never two of
\* these; only the last two have the bytes.
OnItsWay(r) == r \in sent \/ \E u \in Threads : r \in collected[u]

Callbacks ==
    /\ \A r \in sent : r \in result /\ r \notin pending
    /\ \A t \in Threads : \A r \in collected[t] :
          r \in result /\ r \notin pending /\ r \notin sent
    /\ \A t, u \in Threads : t # u => collected[t] \cap collected[u] = {}
    /\ \A t \in Threads : pc[t] # "callbacks" => collected[t] = {}

\* What a thread may expect of its own readback.
Expected ==
    \A t \in Threads :
        /\ pc[t] = "map" => Mine(t) \notin pending /\ ~OnItsWay(Mine(t))
        /\ pc[t] = "poll" => Mine(t) \in pending \/ OnItsWay(Mine(t))
        /\ pc[t] \in {"callbacks", "recv"} => OnItsWay(Mine(t))

IInv == Types /\ Counters /\ Cell /\ Submissions /\ Callbacks /\ Expected

-----------------------------------------------------------------------------
\* The queue after a command is taken from its head.
LEMMA QueueTail ==
    ASSUME Types, queue # << >>
    PROVE  /\ Len(queue) \in Nat \ {0} /\ Head(queue) = queue[1] /\ Head(queue) \in Readbacks
           /\ Tail(queue) \in Seq(Readbacks) /\ Len(Tail(queue)) = Len(queue) - 1
           /\ \A i \in 1 .. Len(queue) - 1 : Tail(queue)[i] = queue[i + 1]
  BY DEF Types

\* The queue after a submission.
LEMMA QueueAppend ==
    ASSUME Types, NEW r \in Readbacks
    PROVE  /\ Append(queue, r) \in Seq(Readbacks)
           /\ Len(queue) \in Nat
           /\ Len(Append(queue, r)) = Len(queue) + 1
           /\ \A i \in 1 .. Len(queue) : Append(queue, r)[i] = queue[i]
           /\ Append(queue, r)[Len(queue) + 1] = r
  BY DEF Types

\* Every step keeps the state in its type.
LEMMA TypesStep ==
    ASSUME Types, Counters, Next
    PROVE  Types'
<1>1. CASE Complete
  <2>1. queue' \in Seq(Readbacks) /\ result' \subseteq Readbacks
    BY <1>1, QueueTail DEF Complete, Types
  <2> QED
    BY <1>1, <2>1 DEF Complete, Types
<1>2. CASE AllEnded
  BY <1>2 DEF AllEnded, vars, Types
<1>3. ASSUME NEW t \in Threads, Call(t) \/ Step(t) \/ Again(t)
      PROVE  Types'
  <2>1. CASE Call(t)
    BY <2>1 DEF Call, Goto, device, Types, Labels
  <2>2. CASE BeginInit(t)
    BY <2>2 DEF BeginInit, Goto, device, Types, Labels
  <2>3. CASE InitReady(t)
    BY <2>3 DEF InitReady, Goto, device, Types, Labels
  <2>4. CASE InitFailed(t)
    BY <2>4 DEF InitFailed, Goto, device, Types, Labels
  <2>5. CASE InitPanics(t)
    BY <2>5 DEF InitPanics, Goto, device, Types, Labels, Finished
  <2>6. CASE GetContext(t)
    BY <2>6 DEF GetContext, Goto, device, Types, Labels, Working, Finished
  <2>7. CASE GetError(t)
    BY <2>7 DEF GetError, Goto, device, Types, Labels, Working, Finished
  <2>8. CASE Refuse(t)
    BY <2>8 DEF Refuse, Goto, device, Types, Labels, Finished
  <2>9. CASE Submit(t)
    <3>1. ticket[t] + 1 \in 1 .. MaxTickets
      BY <2>9, ReadbacksAssumption DEF Submit, Types, Counters, Working
    <3>2. ticket' \in [Threads -> 0 .. MaxTickets] /\ ticket'[t] = ticket[t] + 1
      BY <2>9, <3>1, ReadbacksAssumption DEF Submit, Types
    <3>3. Mine(t)' \in Readbacks
      BY <3>1, <3>2 DEF Mine, Readbacks
    <3>4. queue' \in Seq(Readbacks)
      BY <2>9, <3>3, QueueAppend DEF Submit
    <3>5. pc' \in [Threads -> Labels]
      BY <2>9 DEF Submit, Types, Goto, Labels, Working
    <3> QED
      BY <2>9, <3>2, <3>4, <3>5 DEF Submit, Types
  <2>10. CASE SubmitPanics(t)
    BY <2>10 DEF SubmitPanics, Goto, device, Types, Labels, Finished
  <2>11. CASE MapAsync(t)
    BY <2>11, SMTT(60)
       DEF MapAsync, Goto, Types, Counters, Readbacks, Mine, Labels, Working, Finished
  <2>12. CASE Poll(t)
    <3>1. Ready \in SUBSET Readbacks /\ pending' \subseteq Readbacks
      BY <2>12 DEF Poll, Types, Ready
    <3>2. collected' \in [Threads -> SUBSET Readbacks]
      BY <2>12, <3>1 DEF Poll, Types
    <3>3. pc' \in [Threads -> Labels]
      BY <2>12 DEF Poll, Types, Goto, Labels, Working
    <3> QED
      BY <2>12, <3>1, <3>2, <3>3 DEF Poll, Types
  <2>13. CASE PollFails(t)
    BY <2>13 DEF PollFails, Goto, device, Types, Labels, Finished
  <2>14. CASE RunCallback(t)
    BY <2>14 DEF RunCallback, Goto, Types, Labels, Finished
  <2>15. CASE PollReturns(t)
    BY <2>15 DEF PollReturns, Goto, device, Types, Labels, Working
  <2>16. CASE Recv(t)
    BY <2>16, ReadbacksAssumption DEF Recv, Goto, Types, Counters, Labels, Working, Finished
  <2>17. CASE RecvError(t)
    BY <2>17, ReadbacksAssumption DEF RecvError, Goto, Types, Counters, Labels, Working, Finished
  <2>18. CASE Again(t)
    BY <2>18 DEF Again, Goto, device, Types, Labels, Finished
  <2> QED
    BY <1>3, <2>1, <2>2, <2>3, <2>4, <2>5, <2>6, <2>7, <2>8, <2>9, <2>10,
       <2>11, <2>12, <2>13, <2>14, <2>15, <2>16, <2>17, <2>18
       DEF Step
<1> QED
  BY <1>1, <1>2, <1>3 DEF Next

\* Every step leaves a call the tickets it needs.
LEMMA CountersStep ==
    ASSUME Types, Counters, Next
    PROVE  Counters'
<1>1. CASE Complete
  BY <1>1 DEF Complete, Counters
<1>2. CASE AllEnded
  BY <1>2 DEF AllEnded, vars, Counters
<1>3. ASSUME NEW t \in Threads, Call(t) \/ Step(t) \/ Again(t)
      PROVE  Counters'
  <2>1. CASE Call(t)
    BY <2>1, ReadbacksAssumption DEF Call, Goto, Types, Counters, Working
  <2>2. CASE BeginInit(t)
    BY <2>2, ReadbacksAssumption DEF BeginInit, Goto, Types, Counters, Working
  <2>3. CASE InitReady(t)
    BY <2>3 DEF InitReady, Goto, Counters, Working
  <2>4. CASE InitFailed(t)
    BY <2>4 DEF InitFailed, Goto, Counters, Working
  <2>5. CASE InitPanics(t)
    BY <2>5 DEF InitPanics, Goto, Counters, Working
  <2>6. CASE GetContext(t)
    BY <2>6 DEF GetContext, Goto, Counters, Working
  <2>7. CASE GetError(t)
    BY <2>7 DEF GetError, Goto, Counters, Working
  <2>8. CASE Refuse(t)
    BY <2>8 DEF Refuse, Goto, Counters, Working
  <2>9. CASE Submit(t)
    BY <2>9, ReadbacksAssumption DEF Submit, Goto, Types, Counters, Working
  <2>10. CASE SubmitPanics(t)
    BY <2>10, ReadbacksAssumption DEF SubmitPanics, Goto, Types, Counters, Working
  <2>11. CASE MapAsync(t)
    BY <2>11 DEF MapAsync, Goto, Counters, Working
  <2>12. CASE Poll(t)
    BY <2>12 DEF Poll, Goto, Counters, Working
  <2>13. CASE PollFails(t)
    BY <2>13 DEF PollFails, Goto, Counters, Working
  <2>14. CASE RunCallback(t)
    BY <2>14 DEF RunCallback, Goto, Counters, Working
  <2>15. CASE PollReturns(t)
    BY <2>15 DEF PollReturns, Goto, Counters, Working
  <2>16. CASE Recv(t)
    BY <2>16, ReadbacksAssumption DEF Recv, Goto, Types, Counters, Working
  <2>17. CASE RecvError(t)
    BY <2>17, ReadbacksAssumption DEF RecvError, Goto, Types, Counters, Working
  <2>18. CASE Again(t)
    BY <2>18 DEF Again, Goto, Counters, Working
  <2> QED
    BY <1>3, <2>1, <2>2, <2>3, <2>4, <2>5, <2>6, <2>7, <2>8, <2>9, <2>10,
       <2>11, <2>12, <2>13, <2>14, <2>15, <2>16, <2>17, <2>18
       DEF Step
<1> QED
  BY <1>1, <1>2, <1>3 DEF Next

\* One thread at a time initialises, and an outcome is final.
LEMMA CellStep ==
    ASSUME Types, Cell, Next
    PROVE  Cell'
<1>1. CASE Complete
  BY <1>1 DEF Complete, Cell
<1>2. CASE AllEnded
  BY <1>2 DEF AllEnded, vars, Cell
<1>3. ASSUME NEW t \in Threads, Call(t) \/ Step(t) \/ Again(t)
      PROVE  Cell'
  <2>1. CASE Call(t)
    BY <2>1 DEF Call, Goto, Cell, Working
  <2>2. CASE BeginInit(t)
    BY <2>2 DEF BeginInit, Goto, Cell, Working
  <2>3. CASE InitReady(t)
    BY <2>3 DEF InitReady, Goto, Types, Cell, Working
  <2>4. CASE InitFailed(t)
    BY <2>4 DEF InitFailed, Goto, Types, Cell, Working
  <2>5. CASE InitPanics(t)
    BY <2>5 DEF InitPanics, Goto, Types, Cell, Working
  <2>6. CASE GetContext(t)
    BY <2>6 DEF GetContext, Goto, Types, Cell, Working
  <2>7. CASE GetError(t)
    BY <2>7 DEF GetError, Goto, Cell, Working
  <2>8. CASE Refuse(t)
    BY <2>8 DEF Refuse, Goto, Cell, Working
  <2>9. CASE Submit(t)
    BY <2>9 DEF Submit, Goto, Cell, Working
  <2>10. CASE SubmitPanics(t)
    BY <2>10 DEF SubmitPanics, Goto, Cell, Working
  <2>11. CASE MapAsync(t)
    BY <2>11 DEF MapAsync, Goto, Cell, Working
  <2>12. CASE Poll(t)
    BY <2>12 DEF Poll, Goto, Cell, Working
  <2>13. CASE PollFails(t)
    BY <2>13 DEF PollFails, Goto, Cell, Working
  <2>14. CASE RunCallback(t)
    BY <2>14 DEF RunCallback, Goto, Cell, Working
  <2>15. CASE PollReturns(t)
    BY <2>15 DEF PollReturns, Goto, Cell, Working
  <2>16. CASE Recv(t)
    BY <2>16 DEF Recv, Goto, Cell, Working
  <2>17. CASE RecvError(t)
    BY <2>17 DEF RecvError, Goto, Cell, Working
  <2>18. CASE Again(t)
    BY <2>18 DEF Again, Goto, Cell, Working
  <2> QED
    BY <1>3, <2>1, <2>2, <2>3, <2>4, <2>5, <2>6, <2>7, <2>8, <2>9, <2>10,
       <2>11, <2>12, <2>13, <2>14, <2>15, <2>16, <2>17, <2>18
       DEF Step
<1> QED
  BY <1>1, <1>2, <1>3 DEF Next

\* Tickets keep submissions apart.
LEMMA SubmissionsStep ==
    ASSUME Types, Counters, Submissions, Next
    PROVE  Submissions'
<1>1. CASE Complete
  <2> DEFINE Later(r) == r[2] <= ticket'[r[1]]
  <2>1. /\ Len(queue) \in Nat \ {0} /\ Head(queue) = queue[1]
        /\ Len(queue') = Len(queue) - 1
        /\ \A i \in 1 .. Len(queue) - 1 : queue'[i] = queue[i + 1]
        /\ result' = result \cup {queue[1]} /\ pending' = pending /\ ticket' = ticket
    BY <1>1, QueueTail DEF Complete
  <2>2. \A i \in 1 .. Len(queue') : i + 1 \in 2 .. Len(queue) /\ queue'[i] = queue[i + 1]
    BY <2>1
  <2>3. \A i \in 1 .. Len(queue') : Later(queue'[i]) /\ queue'[i] \notin result'
    <3>1. \A j \in 2 .. Len(queue) :
             /\ queue[j] \notin result /\ queue[j] # queue[1]
             /\ queue[j][2] <= ticket[queue[j][1]]
      BY <2>1 DEF Submissions, Begun
    <3>2. \A j \in 2 .. Len(queue) : Later(queue[j]) /\ queue[j] \notin result'
      BY <2>1, <3>1
    <3> HIDE DEF Later
    <3> QED
      BY <2>2, <3>2
  <2>4. \A i, j \in 1 .. Len(queue') : i # j => queue'[i] # queue'[j]
    BY <2>1, <2>2 DEF Submissions
  <2>5. \A r \in result' \cup pending' : Later(r)
    BY <2>1 DEF Submissions, Begun
  <2> QED
    BY <2>3, <2>4, <2>5 DEF Submissions, Begun
<1>2. CASE AllEnded
  BY <1>2 DEF AllEnded, vars, Submissions, Begun
<1>3. ASSUME NEW t \in Threads, Call(t) \/ Step(t) \/ Again(t)
      PROVE  Submissions'
  <2>1. CASE Call(t)
    BY <2>1 DEF Call, device, Submissions, Begun
  <2>2. CASE BeginInit(t)
    BY <2>2 DEF BeginInit, device, Submissions, Begun
  <2>3. CASE InitReady(t)
    BY <2>3 DEF InitReady, device, Submissions, Begun
  <2>4. CASE InitFailed(t)
    BY <2>4 DEF InitFailed, device, Submissions, Begun
  <2>5. CASE InitPanics(t)
    BY <2>5 DEF InitPanics, device, Submissions, Begun
  <2>6. CASE GetContext(t)
    BY <2>6 DEF GetContext, device, Submissions, Begun
  <2>7. CASE GetError(t)
    BY <2>7 DEF GetError, device, Submissions, Begun
  <2>8. CASE Refuse(t)
    BY <2>8 DEF Refuse, device, Submissions, Begun
  <2>9. CASE Submit(t)
    <3> DEFINE r == <<t, ticket[t] + 1>>
               Later(x) == x[2] <= ticket'[x[1]]
    <3>1. ticket[t] + 1 \in 1 .. MaxTickets /\ ticket[t] \in Nat
      BY <2>9, ReadbacksAssumption DEF Submit, Types, Counters, Working
    <3>2. ticket' = [ticket EXCEPT ![t] = ticket[t] + 1] /\ ticket'[t] = ticket[t] + 1
      BY <2>9 DEF Submit, Types
    <3>3. r \in Readbacks /\ queue' = Append(queue, r) /\ UNCHANGED <<result, pending>>
      BY <2>9, <3>1, <3>2 DEF Submit, Mine, Readbacks
    <3>4. ~Begun(r) /\ Later(r)
      BY <3>1, <3>2 DEF Begun
    <3>5. \A x \in Readbacks : Begun(x) => Later(x)
      BY <3>1, <3>2 DEF Begun, Readbacks
    <3> HIDE DEF r, Later
    <3>6. \A x \in result \cup pending : x \in Readbacks /\ Begun(x)
      BY DEF Submissions, Types
    <3>7. \A i \in 1 .. Len(queue) : queue[i] \in Readbacks /\ Begun(queue[i])
      BY DEF Submissions, Types
    <3>8. /\ Len(queue) \in Nat
          /\ Len(queue') = Len(queue) + 1
          /\ \A i \in 1 .. Len(queue) : queue'[i] = queue[i]
          /\ queue'[Len(queue) + 1] = r
      BY <3>3, QueueAppend
    <3>9. \A i \in 1 .. Len(queue') :
             \/ i \in 1 .. Len(queue) /\ queue'[i] = queue[i]
             \/ i = Len(queue) + 1 /\ queue'[i] = r
      BY <3>8
    <3>10. \A i \in 1 .. Len(queue') : Later(queue'[i]) /\ queue'[i] \notin result'
      <4>1. r \notin result'
        BY <3>3, <3>4, <3>6
      <4>2. \A i \in 1 .. Len(queue) : Later(queue[i]) /\ queue[i] \notin result'
        BY <3>3, <3>5, <3>7 DEF Submissions
      <4> QED
        BY <3>4, <3>9, <4>1, <4>2
    <3>11. \A i, j \in 1 .. Len(queue') : i # j => queue'[i] # queue'[j]
      <4>1. \A i \in 1 .. Len(queue) : queue[i] # r
        BY <3>4, <3>7
      <4> QED
        BY <3>9, <4>1 DEF Submissions
    <3>12. \A x \in result' \cup pending' : Later(x)
      BY <3>3, <3>5, <3>6
    <3> QED
      BY <3>10, <3>11, <3>12 DEF Submissions, Begun, Later
  <2>10. CASE SubmitPanics(t)
    BY <2>10 DEF SubmitPanics, device, Submissions, Begun
  <2>11. CASE MapAsync(t)
    BY <2>11 DEF MapAsync, Types, Submissions, Begun, Mine
  <2>12. CASE Poll(t)
    BY <2>12 DEF Poll, Types, Submissions, Begun, Mine
  <2>13. CASE PollFails(t)
    BY <2>13 DEF PollFails, device, Submissions, Begun
  <2>14. CASE RunCallback(t)
    BY <2>14 DEF RunCallback, Submissions, Begun
  <2>15. CASE PollReturns(t)
    BY <2>15 DEF PollReturns, device, Submissions, Begun
  <2>16. CASE Recv(t)
    BY <2>16 DEF Recv, Submissions, Begun
  <2>17. CASE RecvError(t)
    BY <2>17 DEF RecvError, Submissions, Begun
  <2>18. CASE Again(t)
    BY <2>18 DEF Again, device, Submissions, Begun
  <2> QED
    BY <1>3, <2>1, <2>2, <2>3, <2>4, <2>5, <2>6, <2>7, <2>8, <2>9, <2>10,
       <2>11, <2>12, <2>13, <2>14, <2>15, <2>16, <2>17, <2>18
       DEF Step
<1> QED
  BY <1>1, <1>2, <1>3 DEF Next

\* A callback is in one place at a time.
LEMMA CallbacksStep ==
    ASSUME Types, Counters, Submissions, Callbacks, Expected, Next
    PROVE  Callbacks'
<1>1. CASE Complete
  BY <1>1 DEF Complete, Callbacks
<1>2. CASE AllEnded
  BY <1>2 DEF AllEnded, vars, Callbacks
<1>3. ASSUME NEW t \in Threads, Call(t) \/ Step(t) \/ Again(t)
      PROVE  Callbacks'
  <2>1. CASE Call(t)
    BY <2>1 DEF Call, Goto, device, Callbacks
  <2>2. CASE BeginInit(t)
    BY <2>2 DEF BeginInit, Goto, device, Callbacks
  <2>3. CASE InitReady(t)
    BY <2>3 DEF InitReady, Goto, device, Callbacks
  <2>4. CASE InitFailed(t)
    BY <2>4 DEF InitFailed, Goto, device, Callbacks
  <2>5. CASE InitPanics(t)
    BY <2>5 DEF InitPanics, Goto, device, Callbacks
  <2>6. CASE GetContext(t)
    BY <2>6 DEF GetContext, Goto, device, Callbacks
  <2>7. CASE GetError(t)
    BY <2>7 DEF GetError, Goto, device, Callbacks
  <2>8. CASE Refuse(t)
    BY <2>8 DEF Refuse, Goto, device, Callbacks
  <2>9. CASE Submit(t)
    BY <2>9 DEF Submit, Goto, Callbacks
  <2>10. CASE SubmitPanics(t)
    BY <2>10 DEF SubmitPanics, Goto, device, Callbacks
  <2>11. CASE MapAsync(t)
    BY <2>11 DEF MapAsync, Goto, Callbacks, Expected, OnItsWay
  <2>12. CASE Poll(t)
    BY <2>12 DEF Poll, Goto, Types, Callbacks, Expected, OnItsWay, Ready
  <2>13. CASE PollFails(t)
    BY <2>13 DEF PollFails, Goto, device, Types, Callbacks, Ready
  <2>14. CASE RunCallback(t)
    BY <2>14 DEF RunCallback, Goto, Types, Callbacks
  <2>15. CASE PollReturns(t)
    BY <2>15 DEF PollReturns, Goto, device, Types, Callbacks
  <2>16. CASE Recv(t)
    BY <2>16 DEF Recv, Goto, Callbacks
  <2>17. CASE RecvError(t)
    BY <2>17 DEF RecvError, Goto, Callbacks
  <2>18. CASE Again(t)
    BY <2>18 DEF Again, Goto, device, Callbacks
  <2> QED
    BY <1>3, <2>1, <2>2, <2>3, <2>4, <2>5, <2>6, <2>7, <2>8, <2>9, <2>10,
       <2>11, <2>12, <2>13, <2>14, <2>15, <2>16, <2>17, <2>18
       DEF Step
<1> QED
  BY <1>1, <1>2, <1>3 DEF Next

\* What a thread expects stays on its way.
LEMMA ExpectedStep ==
    ASSUME Types, Counters, Submissions, Callbacks, Expected, Next
    PROVE  Expected'
<1>1. CASE Complete
  BY <1>1 DEF Complete, Expected, OnItsWay, Mine
<1>2. CASE AllEnded
  BY <1>2 DEF AllEnded, vars, Expected, OnItsWay, Mine
<1>3. ASSUME NEW t \in Threads, Call(t) \/ Step(t) \/ Again(t)
      PROVE  Expected'
  <2>1. CASE Call(t)
    BY <2>1 DEF Call, Goto, device, Expected, OnItsWay, Mine
  <2>2. CASE BeginInit(t)
    BY <2>2 DEF BeginInit, Goto, device, Expected, OnItsWay, Mine
  <2>3. CASE InitReady(t)
    BY <2>3 DEF InitReady, Goto, device, Expected, OnItsWay, Mine
  <2>4. CASE InitFailed(t)
    BY <2>4 DEF InitFailed, Goto, device, Expected, OnItsWay, Mine
  <2>5. CASE InitPanics(t)
    BY <2>5 DEF InitPanics, Goto, device, Expected, OnItsWay, Mine
  <2>6. CASE GetContext(t)
    BY <2>6 DEF GetContext, Goto, device, Expected, OnItsWay, Mine
  <2>7. CASE GetError(t)
    BY <2>7 DEF GetError, Goto, device, Expected, OnItsWay, Mine
  <2>8. CASE Refuse(t)
    BY <2>8 DEF Refuse, Goto, device, Expected, OnItsWay, Mine
  <2>9. CASE Submit(t)
    <3>1. ticket[t] + 1 \in 1 .. MaxTickets /\ ticket[t] \in Nat
      BY <2>9, ReadbacksAssumption DEF Submit, Types, Counters, Working
    <3>2. /\ ticket' = [ticket EXCEPT ![t] = ticket[t] + 1]
          /\ pc' = [pc EXCEPT ![t] = "map"]
          /\ UNCHANGED <<result, pending, collected, sent>>
      BY <2>9 DEF Submit, Goto
    <3>3. Mine(t)' = <<t, ticket[t] + 1>> /\ ~Begun(<<t, ticket[t] + 1>>)
      BY <3>1, <3>2 DEF Mine, Begun, Types
    <3>4. Mine(t)' \notin result /\ Mine(t)' \notin pending
      BY <3>3 DEF Submissions
    <3>5. Mine(t)' \notin pending' /\ ~OnItsWay(Mine(t))'
      BY <3>2, <3>4 DEF Callbacks, OnItsWay
    <3>6. \A u \in Threads \ {t} : Mine(u)' = Mine(u) /\ pc'[u] = pc[u]
      BY <3>2 DEF Mine
    <3>7. pc'[t] = "map"
      BY <3>2 DEF Types
    <3> QED
      BY <3>2, <3>5, <3>6, <3>7 DEF Expected, OnItsWay
  <2>10. CASE SubmitPanics(t)
    BY <2>10 DEF SubmitPanics, Goto, device, Expected, OnItsWay, Mine
  <2>11. CASE MapAsync(t)
    BY <2>11 DEF MapAsync, Goto, Types, Expected, OnItsWay, Mine
  <2>12. CASE Poll(t)
    <3>1. /\ pc[t] = "poll" /\ pc' = [pc EXCEPT ![t] = "callbacks"]
          /\ Mine(t) \in result
          /\ collected' = [collected EXCEPT ![t] = Ready]
          /\ pending' = pending \ Ready
          /\ UNCHANGED <<ticket, sent>>
      BY <2>12 DEF Poll, Goto
    <3>2. /\ collected[t] = {} /\ collected'[t] = Ready
          /\ \A u \in Threads \ {t} : collected'[u] = collected[u]
      BY <3>1 DEF Types, Callbacks
    <3>3. \A r : OnItsWay(r)' <=> OnItsWay(r) \/ r \in Ready
      BY <3>1, <3>2 DEF OnItsWay
    <3>4. \A u \in Threads : Mine(u)' = Mine(u)
      BY <3>1 DEF Mine
    <3>5. pc'[t] = "callbacks" /\ \A u \in Threads \ {t} : pc'[u] = pc[u]
      BY <3>1 DEF Types
    <3>6. OnItsWay(Mine(t))'
      BY <3>1, <3>3, <3>4 DEF Expected, Ready
    <3>7. ASSUME NEW u \in Threads \ {t}
          PROVE  /\ pc[u] = "map" => Mine(u) \notin pending' /\ Mine(u) \notin Ready
                 /\ pc[u] = "poll" => Mine(u) \in pending' \/ OnItsWay(Mine(u)) \/ Mine(u) \in Ready
      BY <3>1, <3>7 DEF Expected, Ready
    <3>8. ASSUME NEW u \in Threads
          PROVE  /\ pc'[u] = "map" => Mine(u) \notin pending' /\ ~OnItsWay(Mine(u))'
                 /\ pc'[u] = "poll" => Mine(u) \in pending' \/ OnItsWay(Mine(u))'
                 /\ pc'[u] \in {"callbacks", "recv"} => OnItsWay(Mine(u))'
      BY <3>3, <3>4, <3>5, <3>6, <3>7 DEF Expected
    <3> QED
      BY <3>4, <3>8 DEF Expected
  <2>13. CASE PollFails(t)
    BY <2>13 DEF PollFails, Goto, device, Expected, OnItsWay, Mine
  <2>14. CASE RunCallback(t)
    BY <2>14 DEF RunCallback, Goto, Expected, OnItsWay, Mine
  <2>15. CASE PollReturns(t)
    BY <2>15 DEF PollReturns, Goto, device, Expected, OnItsWay, Mine
  <2>16. CASE Recv(t)
    BY <2>16 DEF Recv, Goto, Types, Expected, OnItsWay, Mine
  <2>17. CASE RecvError(t)
    BY <2>17 DEF RecvError, Goto, Types, Expected, OnItsWay, Mine
  <2>18. CASE Again(t)
    BY <2>18 DEF Again, Goto, device, Types, Expected, OnItsWay, Mine
  <2> QED
    BY <1>3, <2>1, <2>2, <2>3, <2>4, <2>5, <2>6, <2>7, <2>8, <2>9, <2>10,
       <2>11, <2>12, <2>13, <2>14, <2>15, <2>16, <2>17, <2>18
       DEF Step
<1> QED
  BY <1>1, <1>2, <1>3 DEF Next

-----------------------------------------------------------------------------
\* The inductive invariant holds initially.
LEMMA InitHolds == Init => IInv
<1> SUFFICES ASSUME Init PROVE IInv
  OBVIOUS
<1>1. Types
  BY ReadbacksAssumption DEF Init, Types, Labels
<1> QED
  BY <1>1 DEF Init, IInv, Counters, Cell, Submissions, Callbacks, Expected, Working

\* Every step, and a stutter, preserves the inductive invariant.
LEMMA StepHolds == IInv /\ [Next]_vars => IInv'
<1> SUFFICES ASSUME IInv, [Next]_vars PROVE IInv'
  OBVIOUS
<1>1. CASE Next
  BY <1>1, TypesStep, CountersStep, CellStep, SubmissionsStep, CallbacksStep, ExpectedStep
     DEF IInv
<1>2. CASE UNCHANGED vars
  BY <1>2 DEF vars, IInv, Types, Counters, Cell, Submissions, Callbacks, Expected,
              Begun, OnItsWay, Mine
<1> QED
  BY <1>1, <1>2

\* The inductive invariant holds, for any set of threads.
THEOREM Inductive == Spec => []IInv
<1> QED
  BY InitHolds, StepHolds, PTL DEF Spec

\* A set whose elements are all equal has at most one element.
LEMMA AtMostOne ==
    ASSUME NEW S, \A x, y \in S : x = y
    PROVE  IsFiniteSet(S) /\ Cardinality(S) \in Nat /\ Cardinality(S) <= 1
<1>1. CASE S = {}
  BY <1>1, FS_EmptySet
<1>2. CASE S # {}
  <2>1. PICK x \in S : TRUE
    BY <1>2
  <2>2. S = {x}
    BY <2>1
  <2> QED
    BY <2>2, FS_Singleton
<1> QED
  BY <1>1, <1>2

\* The state stays in its type: a submission is in the queue once.
THEOREM TypeCorrect == Spec => []TypeOK
<1>1. IInv => TypeOK
  BY SMTT(60) DEF IInv, Types, Submissions, TypeOK, Labels, Working, Finished
<1> QED
  BY <1>1, Inductive, PTL

\* At most one context is ever created, one thread creates it, and no thread
\* works without it.
THEOREM ContextIsUnique == Spec => []OneContext
<1>1. IInv => OneContext
  <2> SUFFICES ASSUME IInv PROVE OneContext
    OBVIOUS
  <2>1. contexts <= 1
    BY DEF IInv, Cell
  <2>2. Cardinality({t \in Threads : pc[t] = "new"}) <= 1
    <3> DEFINE S == {t \in Threads : pc[t] = "new"}
    <3>1. \A x, y \in S : x = y
      BY DEF IInv, Cell
    <3> HIDE DEF S
    <3> QED
      BY <3>1, AtMostOne DEF S
  <2>3. \A t \in Threads :
           pc[t] \in {"submit", "map", "poll", "callbacks", "recv"} => once = "ready"
    BY DEF IInv, Cell, Working
  <2> QED
    BY <2>1, <2>2, <2>3 DEF OneContext
<1> QED
  BY <1>1, Inductive, PTL

\* The outcome of the initialisation, context or error, is never replaced.
THEOREM OutcomeIsKept == Spec => OutcomeIsFinal
<1>1. IInv /\ [Next]_vars => [(once \in {"ready", "failed"}) => UNCHANGED once]_vars
  <2> SUFFICES ASSUME IInv, Next, once \in {"ready", "failed"}
               PROVE  UNCHANGED once
    OBVIOUS
  <2>1. \A t \in Threads : pc[t] # "new" /\ once # "empty"
    BY DEF IInv, Cell
  <2>2. CASE Complete \/ AllEnded
    BY <2>2 DEF Complete, AllEnded, vars
  <2>3. ASSUME NEW t \in Threads, Call(t) \/ Step(t) \/ Again(t)
        PROVE  UNCHANGED once
    BY <2>1, <2>3
       DEF Call, Again, Step, BeginInit, InitReady, InitFailed, InitPanics, GetContext,
           GetError, Refuse, Submit, SubmitPanics, MapAsync, Poll, PollFails,
           RunCallback, PollReturns, Recv, RecvError
  <2> QED
    BY <2>2, <2>3 DEF Next
<1> QED
  BY <1>1, Inductive, PTL DEF Spec, OutcomeIsFinal

\* A thread that waits for its readback is owed exactly one message, whichever
\* thread's poll has its callback and whatever became of the other calls.
THEOREM NoCallbackLost == Spec => []CallbackNotLost
<1>1. IInv => CallbackNotLost
  <2> SUFFICES ASSUME IInv PROVE CallbackNotLost
    OBVIOUS
  <2>1. \A r : OnItsWay(r) <=> r \in sent \/ OwedBy(r) # {}
    BY DEF OnItsWay, OwedBy
  <2>2. \A t \in Threads : pc[t] = "recv" => Mine(t) \in sent \/ OwedBy(Mine(t)) # {}
    BY <2>1 DEF IInv, Expected
  <2>3. ASSUME NEW r \in Readbacks
        PROVE  /\ r \in sent \/ OwedBy(r) # {} => r \in result /\ r \notin pending
               /\ Cardinality(OwedBy(r)) + (IF r \in sent THEN 1 ELSE 0) <= 1
    <3>1. r \in sent \/ OwedBy(r) # {} => r \in result /\ r \notin pending
      BY DEF IInv, Callbacks, OwedBy
    <3>2. Cardinality(OwedBy(r)) \in Nat /\ Cardinality(OwedBy(r)) <= 1
      <4>1. \A t, u \in OwedBy(r) : t = u
        BY DEF IInv, Callbacks, OwedBy
      <4> QED
        BY <4>1, AtMostOne
    <3>3. CASE r \in sent
      <4>1. OwedBy(r) = {}
        BY <3>3 DEF IInv, Callbacks, OwedBy
      <4> QED
        BY <3>1, <4>1, FS_EmptySet
    <3> QED
      BY <3>1, <3>2, <3>3
  <2> QED
    BY <2>2, <2>3 DEF CallbackNotLost
<1> QED
  BY <1>1, Inductive, PTL
=============================================================================
