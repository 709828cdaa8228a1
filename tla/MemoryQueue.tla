---------------------------- MODULE MemoryQueue -----------------------------
(***************************************************************************)
(* The FIFO queue of internal/queue/memory_queue.go seen by its callers: a  *)
(* buffered Go channel, the mutex-protected flag `closed', the WaitGroup    *)
(* `wg' of Enqueue calls in progress and the channel `done' that tells them *)
(* to give up.  Goroutines call Enqueue, Dequeue, DequeueOrWait and Close   *)
(* in any order and any number of them at the same time.                    *)
(*                                                                         *)
(* The section between mu.Lock and mu.Unlock is one step; every channel or  *)
(* WaitGroup operation outside it is a step of its own.                     *)
(***************************************************************************)
EXTENDS Naturals, Sequences, FiniteSets

CONSTANTS
  Enqueuers,   \* goroutines that call Enqueue: handlers, workers, sweeper
  Dequeuers,   \* goroutines that call Dequeue or DequeueOrWait
  Closers,     \* goroutines that call Close
  Jobs,        \* jobs that are passed around
  Capacity,    \* bufferSize of NewMemoryQueue
  MaxCalls     \* bound on the number of Enqueue calls

ASSUME QueueAssumption ==
  /\ IsFiniteSet(Enqueuers)
  /\ Capacity \in Nat \ {0}
  /\ MaxCalls \in Nat

VARIABLES
  life,        \* "open", "closing" (Close was called), "closed" (q.jobs is)
  wg,          \* q.wg: Enqueue calls that passed the closed check
  jobs,        \* the buffered channel q.jobs
  enq,         \* where each Enqueue caller is
  arg,         \* the job of each Enqueue call
  deq,         \* where each Dequeue/DequeueOrWait caller is
  cls,         \* where each Close caller is
  calls,       \* Enqueue calls made so far
  sent, got    \* history: jobs accepted by and taken from the channel

chan == <<jobs, sent, got>>
vars == <<life, wg, chan, enq, arg, deq, cls, calls>>

\* q.closed is TRUE and q.done is closed: Close sets both under mu.
closed == life # "open"

\* q.jobs is closed.
chanClosed == life = "closed"

TypeOK ==
  /\ life \in {"open", "closing", "closed"}
  /\ wg \in Nat
  /\ jobs \in Seq(Jobs)
  /\ enq \in [Enqueuers -> {"idle", "select", "return"}]
  /\ arg \in [Enqueuers -> Jobs]
  /\ deq \in [Dequeuers -> {"idle", "dequeue", "poll", "stopped"}]
  /\ cls \in [Closers -> {"idle", "wait", "close", "returned"}]
  /\ calls \in Nat
  /\ sent \in Seq(Jobs)
  /\ got \in Seq(Jobs)

\* NewMemoryQueue.
Init ==
  /\ life = "open"
  /\ wg = 0
  /\ jobs = <<>>
  /\ enq = [e \in Enqueuers |-> "idle"]
  /\ arg \in [Enqueuers -> Jobs]
  /\ deq = [d \in Dequeuers |-> "idle"]
  /\ cls = [c \in Closers |-> "idle"]
  /\ calls = 0
  /\ sent = <<>>
  /\ got = <<>>

-----------------------------------------------------------------------------
(* Enqueue *)

\* Under mu: a closed queue refuses the job at once.
EnqueueRefused(e) ==
  /\ enq[e] = "idle"
  /\ calls < MaxCalls
  /\ closed
  /\ calls' = calls + 1
  /\ UNCHANGED <<life, wg, chan, enq, arg, deq, cls>>

\* Under mu: an open queue lets the call go on to its select, having added n
\* to the WaitGroup.
Admit(e, j, n) ==
  /\ enq[e] = "idle"
  /\ calls < MaxCalls
  /\ ~closed
  /\ calls' = calls + 1
  /\ wg' = wg + n
  /\ enq' = [enq EXCEPT ![e] = "select"]
  /\ arg' = [arg EXCEPT ![e] = j]
  /\ UNCHANGED <<life, chan, deq, cls>>

\* Mutant: the call is not registered in the WaitGroup.
EnqueueAdmittedUncounted(e, j) == Admit(e, j, 0)

EnqueueAdmitted(e, j) == Admit(e, j, 1)

\* case q.jobs <- job.  Go panics when the channel is closed; that no caller
\* is in the select then is an invariant below, not a guard here.
SelectSend(e) ==
  /\ enq[e] = "select"
  /\ Len(jobs) < Capacity
  /\ jobs' = Append(jobs, arg[e])
  /\ sent' = Append(sent, arg[e])
  /\ enq' = [enq EXCEPT ![e] = "return"]
  /\ UNCHANGED <<life, wg, got, arg, deq, cls, calls>>

\* Another arm of the select ends the call with an error.
GiveUp(e) ==
  /\ enq[e] = "select"
  /\ enq' = [enq EXCEPT ![e] = "return"]
  /\ UNCHANGED <<life, wg, chan, arg, deq, cls, calls>>

\* case <-q.done.
SelectDone(e) == closed /\ GiveUp(e)

\* Mutant: the select has no timeout arm.
SelectNoTimeout(e) == FALSE /\ GiveUp(e)

\* case <-time.After(5s): the sender is still parked, so the buffer is full.
SelectTimeout(e) == Len(jobs) = Capacity /\ GiveUp(e)

\* The deferred wg.Done.
EnqueueReturn(e) ==
  /\ enq[e] = "return"
  /\ wg' = wg - 1
  /\ enq' = [enq EXCEPT ![e] = "idle"]
  /\ UNCHANGED <<life, chan, arg, deq, cls, calls>>

-----------------------------------------------------------------------------
(* Dequeue and DequeueOrWait *)

\* Only the position of the caller changes.
DequeuerMoves(d, from, to) ==
  /\ deq[d] = from
  /\ deq' = [deq EXCEPT ![d] = to]
  /\ UNCHANGED <<life, wg, chan, enq, arg, cls, calls>>

DequeueCall(d) == DequeuerMoves(d, "idle", "dequeue")

DequeueOrWaitCall(d) == DequeuerMoves(d, "idle", "poll")

\* <-q.jobs yields a job, closed or not, as long as one is buffered.
Receive(d) ==
  /\ deq[d] \in {"dequeue", "poll"}
  /\ jobs # <<>>
  /\ got' = Append(got, Head(jobs))
  /\ jobs' = Tail(jobs)
  /\ deq' = [deq EXCEPT ![d] = "idle"]
  /\ UNCHANGED <<life, wg, sent, enq, arg, cls, calls>>

\* Mutant: Dequeue trusts q.closed instead of the channel.
DequeueNilOnFlag(d) ==
  closed /\ jobs = <<>> /\ DequeuerMoves(d, "dequeue", "stopped")

\* Dequeue on a closed and empty channel returns nil: its caller stops.
DequeueNil(d) ==
  chanClosed /\ jobs = <<>> /\ DequeuerMoves(d, "dequeue", "stopped")

\* DequeueOrWait returns nil: the channel is closed and empty, or the timer
\* fired.  With d = 0 the timer races a buffered job, so a job may be there.
DequeueOrWaitNil(d) == DequeuerMoves(d, "poll", "idle")

-----------------------------------------------------------------------------
(* Close *)

\* Mutant: the already-closed check is missing.
CloseCallUnguarded(c) ==
  /\ cls[c] = "idle"
  /\ life' = IF closed THEN life ELSE "closing"
  /\ cls' = [cls EXCEPT ![c] = "wait"]
  /\ UNCHANGED <<wg, chan, enq, arg, deq, calls>>

\* Under mu: the first call marks the queue closed, tells the blocked
\* Enqueue calls and goes on; any later one returns.
CloseCall(c) ==
  /\ cls[c] = "idle"
  /\ life' = IF closed THEN life ELSE "closing"
  /\ cls' = [cls EXCEPT ![c] = IF closed THEN "returned" ELSE "wait"]
  /\ UNCHANGED <<wg, chan, enq, arg, deq, calls>>

\* Past wg.Wait, on the way to close(q.jobs).
WaitOver(c) ==
  /\ cls[c] = "wait"
  /\ cls' = [cls EXCEPT ![c] = "close"]
  /\ UNCHANGED <<life, wg, chan, enq, arg, deq, calls>>

\* Mutant: Close does not wait for the calls in progress.
CloseNoWait(c) == WaitOver(c)

\* wg.Wait returns once the counter is zero.
CloseWait(c) == wg = 0 /\ WaitOver(c)

\* Mutant: Close returns without closing the channel.
CloseChannelSkipped(c) ==
  /\ cls[c] = "close"
  /\ cls' = [cls EXCEPT ![c] = "returned"]
  /\ UNCHANGED <<life, wg, chan, enq, arg, deq, calls>>

\* close(q.jobs).
CloseChannel(c) ==
  /\ cls[c] = "close"
  /\ life' = "closed"
  /\ cls' = [cls EXCEPT ![c] = "returned"]
  /\ UNCHANGED <<wg, chan, enq, arg, deq, calls>>

-----------------------------------------------------------------------------
EnqueueStep(e) ==
  SelectSend(e) \/ SelectDone(e) \/ SelectTimeout(e) \/ EnqueueReturn(e)

DequeueStep(d) ==
  Receive(d) \/ DequeueNil(d) \/ DequeueOrWaitNil(d)

CloseStep(c) ==
  CloseWait(c) \/ CloseChannel(c)

Next ==
  \/ \E e \in Enqueuers :
       \/ EnqueueRefused(e)
       \/ \E j \in Jobs : EnqueueAdmitted(e, j)
       \/ EnqueueStep(e)
  \/ \E d \in Dequeuers :
       DequeueCall(d) \/ DequeueOrWaitCall(d) \/ DequeueStep(d)
  \/ \E c \in Closers : CloseCall(c) \/ CloseStep(c)

Spec == Init /\ [][Next]_vars

\* A goroutine inside a call keeps running; nobody is obliged to call.
Fairness ==
  /\ \A e \in Enqueuers : WF_vars(EnqueueStep(e))
  /\ \A d \in Dequeuers : WF_vars(DequeueStep(d))
  /\ \A c \in Closers : WF_vars(CloseStep(c))

FairSpec == Spec /\ Fairness

-----------------------------------------------------------------------------
(* Properties *)

\* The WaitGroup that Close waits on counts exactly the Enqueue calls that
\* are past the closed check and have not returned.
Active == {e \in Enqueuers : enq[e] # "idle"}

WgCountsActive == wg = Cardinality(Active)

\* No Enqueue call is in its select once the channel is closed: Go would
\* panic with "send on closed channel" and take the whole server down.
NoSendOnClosed == chanClosed => \A e \in Enqueuers : enq[e] # "select"

\* However many goroutines call Close, close(q.jobs) is executed once: at
\* most one of them is on its way to it, and none after it happened.
ClosesOnce ==
  /\ \A c1, c2 \in Closers :
       cls[c1] \in {"wait", "close"} /\ cls[c2] \in {"wait", "close"}
         => c1 = c2
  /\ chanClosed => \A c \in Closers : cls[c] \notin {"wait", "close"}

\* A Dequeue that returned nil told its caller that the queue is finished.
\* That stays true: no job is buffered or will ever be.
DrainedIsFinal ==
  (\E d \in Dequeuers : deq[d] = "stopped")
    => jobs = <<>> /\ \A e \in Enqueuers : enq[e] # "select"

\* Every Enqueue call returns, even with the buffer full and nobody
\* receiving: the timeout arm bounds the wait.
EnqueueReturns ==
  \A e \in Enqueuers : enq[e] = "select" ~> enq[e] = "idle"

\* Close returns although Enqueue calls were blocked on a full buffer.
CloseReturns ==
  \A c \in Closers : cls[c] = "wait" ~> cls[c] = "returned"

\* Once the queue is closed no Dequeue caller stays blocked.
DequeueUnblocks ==
  \A d \in Dequeuers : closed /\ deq[d] = "dequeue" ~> deq[d] # "dequeue"

\* The queue as its callers see it implements FifoContract: however Enqueue
\* and Close overlap, no job is accepted once the channel is shut, and what
\* was accepted before can still be taken.
Contract == INSTANCE FifoContract WITH open <- ~chanClosed

Implements == Contract!Spec
=============================================================================
