---------------------------- MODULE DeviceQueue ----------------------------
(***************************************************************************)
(* The process-wide device context and the calls that share it:            *)
(* gpu::context, which initialises the context on first use, and the       *)
(* submit, map_async, poll, recv protocol by which a call waits for what   *)
(* it submitted (Context::map_and_read).                                   *)
(*                                                                         *)
(* wgpu is external.  Submissions of all threads execute in one queue.     *)
(* poll(wait_indefinitely) waits for the submissions made before it, then  *)
(* runs the callbacks of every buffer whose submission has completed,      *)
(* whoever registered them: a call's callback may run on another thread,   *)
(* after the call's own poll has returned.                                 *)
(***************************************************************************)
EXTENDS Integers, Sequences, FiniteSets

CONSTANTS Threads,      \* the threads that call into the library
          MaxReadbacks, \* the readbacks of one call (evaluate makes two)
          MaxTickets    \* bound on the readbacks of one thread

ASSUME ReadbacksAssumption ==
    /\ MaxReadbacks \in Nat \ {0}
    /\ MaxTickets \in Nat /\ MaxTickets >= MaxReadbacks

VARIABLES
    once,       \* CONTEXT: "empty", "initialising", "ready" or "failed"
    contexts,   \* history: how many contexts were ever published
    pc,         \* where each thread is
    left,       \* the readbacks its call has still to make
    ticket,     \* the number of its current readback
    queue,      \* the submissions that the device has not completed
    result,     \* the readbacks whose staging buffer holds their own bytes
    pending,    \* the callbacks that are registered and have not been collected
    collected,  \* collected[t]: the callbacks that t's poll is running
    sent        \* the readbacks whose channel holds a message

vars == <<once, contexts, pc, left, ticket, queue, result, pending, collected, sent>>
device == <<queue, result, pending, collected, sent>>

\* A readback has a staging buffer and a channel of its own.
Readbacks == Threads \X (1 .. MaxTickets)
Mine(t)   == <<t, ticket[t]>>

Init ==
    /\ once = "empty"
    /\ contexts = 0
    /\ pc = [t \in Threads |-> "idle"]
    /\ left = [t \in Threads |-> 0]
    /\ ticket = [t \in Threads |-> 0]
    /\ queue = << >>
    /\ result = {}
    /\ pending = {}
    /\ collected = [t \in Threads |-> {}]
    /\ sent = {}

Goto(t, label) == pc' = [pc EXCEPT ![t] = label]

-----------------------------------------------------------------------------
(* context: CONTEXT.get_or_init(...)                                       *)

\* One readback for a count or a mean, two for the Gaussian family.
Call(t) ==
    /\ pc[t] = "idle"
    /\ ticket[t] + MaxReadbacks <= MaxTickets
    /\ Goto(t, "context")
    /\ \E r \in 1 .. MaxReadbacks : left' = [left EXCEPT ![t] = r]
    /\ UNCHANGED <<once, contexts, ticket, device>>

\* The first caller runs Context::new; the others block in get_or_init.
InitUnguarded(t) ==
    /\ pc[t] = "context"
    /\ once \in {"empty", "initialising"}
    /\ once' = "initialising"
    /\ Goto(t, "new")
    /\ UNCHANGED <<contexts, left, ticket, device>>

BeginInit(t) ==
    /\ pc[t] = "context"
    /\ once = "empty"
    /\ once' = "initialising"
    /\ Goto(t, "new")
    /\ UNCHANGED <<contexts, left, ticket, device>>

\* Context::new returns a context, or an error that is cached like one.
InitReady(t) ==
    /\ pc[t] = "new"
    /\ once' = "ready"
    /\ contexts' = contexts + 1
    /\ Goto(t, "context")
    /\ UNCHANGED <<left, ticket, device>>

InitFailed(t) ==
    /\ pc[t] = "new"
    /\ once' = "failed"
    /\ Goto(t, "context")
    /\ UNCHANGED <<contexts, left, ticket, device>>

\* A validation error while a shader compiles panics: the cell stays empty and
\* the next caller tries again.
InitPanics(t) ==
    /\ pc[t] = "new"
    /\ once' = "empty"
    /\ Goto(t, "panicked")
    /\ UNCHANGED <<contexts, left, ticket, device>>

GetContext(t) ==
    /\ pc[t] = "context"
    /\ once = "ready"
    /\ Goto(t, "submit")
    /\ UNCHANGED <<once, contexts, left, ticket, device>>

GetError(t) ==
    /\ pc[t] = "context"
    /\ once = "failed"
    /\ Goto(t, "error")
    /\ UNCHANGED <<once, contexts, left, ticket, device>>

\* The call's ensemble does not fit the device.
Refuse(t) ==
    /\ pc[t] = "context"
    /\ once = "ready"
    /\ Goto(t, "error")
    /\ UNCHANGED <<once, contexts, left, ticket, device>>

-----------------------------------------------------------------------------
(* One readback: encode, submit, map_and_read.                             *)

Submit(t) ==
    /\ pc[t] = "submit"
    /\ ticket' = [ticket EXCEPT ![t] = @ + 1]
    /\ queue' = Append(queue, Mine(t)')
    /\ Goto(t, "map")
    /\ UNCHANGED <<once, contexts, left, result, pending, collected, sent>>

\* A validation error while the commands are recorded panics.
SubmitPanics(t) ==
    /\ pc[t] = "submit"
    /\ Goto(t, "panicked")
    /\ UNCHANGED <<once, contexts, left, ticket, device>>

MapAsync(t) ==
    /\ pc[t] = "map"
    /\ pending' = pending \cup {Mine(t)}
    /\ Goto(t, "poll")
    /\ UNCHANGED <<once, contexts, left, ticket, queue, result, collected, sent>>

\* The poll returns no earlier than its own submission completes (it may wait
\* for later ones as well), and takes the callbacks that are ready.
Ready == pending \cap result

PollOnce(t) ==
    /\ pc[t] = "poll"
    /\ collected' = [collected EXCEPT ![t] = Ready]
    /\ pending' = pending \ Ready
    /\ Goto(t, "callbacks")
    /\ UNCHANGED <<once, contexts, left, ticket, queue, result, sent>>

Poll(t) ==
    /\ pc[t] = "poll"
    /\ Mine(t) \in result
    /\ collected' = [collected EXCEPT ![t] = Ready]
    /\ pending' = pending \ Ready
    /\ Goto(t, "callbacks")
    /\ UNCHANGED <<once, contexts, left, ticket, queue, result, sent>>

\* The poll fails.  The call returns its error at once: its submission stays in
\* the queue and its callback registered, with nobody left to receive.
PollFails(t) ==
    /\ pc[t] = "poll"
    /\ Goto(t, "error")
    /\ UNCHANGED <<once, contexts, left, ticket, device>>

\* The callback of some readback: let _ = tx.send(r)
RunCallback(t) ==
    /\ pc[t] = "callbacks"
    /\ \E r \in collected[t] :
          /\ collected' = [collected EXCEPT ![t] = @ \ {r}]
          /\ sent' = sent \cup {r}
    /\ UNCHANGED <<once, contexts, pc, left, ticket, queue, result, pending>>

PollReturns(t) ==
    /\ pc[t] = "callbacks"
    /\ collected[t] = {}
    /\ Goto(t, "recv")
    /\ UNCHANGED <<once, contexts, left, ticket, device>>

\* rx.recv(), get_mapped_range, to_vec, unmap: the call goes on, or returns.
RecvOnceMore(t) ==
    /\ pc[t] = "recv"
    /\ Mine(t) \in sent
    /\ sent' = sent \ {Mine(t)}
    /\ left' = [left EXCEPT ![t] = @ - 1]
    /\ Goto(t, IF left[t] >= 0 THEN "submit" ELSE "returned")
    /\ UNCHANGED <<once, contexts, ticket, queue, result, pending, collected>>

Recv(t) ==
    /\ pc[t] = "recv"
    /\ Mine(t) \in sent
    /\ sent' = sent \ {Mine(t)}
    /\ left' = [left EXCEPT ![t] = @ - 1]
    /\ Goto(t, IF left[t] > 1 THEN "submit" ELSE "returned")
    /\ UNCHANGED <<once, contexts, ticket, queue, result, pending, collected>>

\* The message says that the buffer could not be mapped.
RecvError(t) ==
    /\ pc[t] = "recv"
    /\ Mine(t) \in sent
    /\ sent' = sent \ {Mine(t)}
    /\ Goto(t, "error")
    /\ UNCHANGED <<once, contexts, left, ticket, queue, result, pending, collected>>

\* The device completes the oldest submission: the copy is in its staging buffer.
Complete ==
    /\ queue # << >>
    /\ result' = result \cup {Head(queue)}
    /\ queue' = Tail(queue)
    /\ UNCHANGED <<once, contexts, pc, left, ticket, pending, collected, sent>>

Step(t) ==
    \/ BeginInit(t) \/ InitReady(t) \/ InitFailed(t) \/ InitPanics(t)
    \/ GetContext(t) \/ GetError(t) \/ Refuse(t)
    \/ Submit(t) \/ SubmitPanics(t) \/ MapAsync(t) \/ Poll(t) \/ PollFails(t)
    \/ RunCallback(t) \/ PollReturns(t) \/ Recv(t) \/ RecvError(t)

Finished == {"returned", "error", "panicked"}

\* A thread that has an answer may call again; a panic has ended its thread.
Again(t) ==
    /\ pc[t] \in {"returned", "error"}
    /\ Goto(t, "idle")
    /\ UNCHANGED <<once, contexts, left, ticket, device>>

\* The end of the bounded run: no thread has tickets for another call.
AllEnded ==
    /\ \A t \in Threads :
          \/ pc[t] = "panicked"
          \/ pc[t] = "idle" /\ ticket[t] + MaxReadbacks > MaxTickets
    /\ UNCHANGED vars

Next == Complete \/ AllEnded \/ \E t \in Threads : Call(t) \/ Step(t) \/ Again(t)

Spec == Init /\ [][Next]_vars

\* Threads in a call are scheduled, and the device executes its queue.
FairSpec == Spec /\ WF_vars(Complete) /\ \A t \in Threads : WF_vars(Step(t))

-----------------------------------------------------------------------------
(* Properties                                                              *)

\* The type invariant: a readback is submitted once and has one callback.
TypeOK ==
    /\ once \in {"empty", "initialising", "ready", "failed"}
    /\ pc \in [Threads -> {"idle", "context", "new", "submit", "map", "poll",
                           "callbacks", "recv"} \cup Finished]
    /\ \A t \in Threads : left[t] \in 0 .. MaxReadbacks /\ ticket[t] \in 0 .. MaxTickets
    /\ \A i, j \in DOMAIN queue : queue[i] \in Readbacks /\ (i # j => queue[i] # queue[j])
    /\ result \cup pending \cup sent \subseteq Readbacks
    /\ \A t \in Threads : collected[t] \subseteq Readbacks

\* One context is ever published, however many threads race for the first
\* call, and no thread works on the device without it.
OneContext ==
    /\ contexts <= 1
    /\ Cardinality({t \in Threads : pc[t] = "new"}) <= 1
    /\ \A t \in Threads :
          pc[t] \in {"submit", "map", "poll", "callbacks", "recv"} => once = "ready"

\* A published outcome, success or failure, is never replaced.
OutcomeIsFinal == [][(once \in {"ready", "failed"}) => UNCHANGED once]_vars

\* A call that waits in recv is owed exactly one message: it is in the channel
\* or on its way on some thread's poll, and its own bytes have arrived.  No
\* failure of another call, on this thread or another, takes it away.
OwedBy(r) == {t \in Threads : r \in collected[t]}

CallbackNotLost ==
    /\ \A t \in Threads :
          pc[t] = "recv" => Mine(t) \in sent \/ OwedBy(Mine(t)) # {}
    /\ \A r \in Readbacks :
          /\ r \in sent \/ OwedBy(r) # {} => r \in result /\ r \notin pending
          /\ Cardinality(OwedBy(r)) + (IF r \in sent THEN 1 ELSE 0) <= 1

\* Every call returns: with a value, with the cached error, or unwinding.
CallsReturn == \A t \in Threads : pc[t] = "context" ~> pc[t] \in Finished
=============================================================================
