---------------------------- MODULE SortedQueue -----------------------------
(***************************************************************************)
(* The priority queue of internal/queue/sorted_que.go seen by its callers:  *)
(* a slice kept in order under a mutex, a channel `signal' with room for    *)
(* one wake-up, and `closed' and `done' which Close sets together.          *)
(*                                                                         *)
(* The section between mu.Lock and mu.Unlock is one step; the send of the   *)
(* wake-up after it, and every arm of a select, are steps of their own.     *)
(***************************************************************************)
EXTENDS JobOrder

CONSTANTS
  Enqueuers,   \* goroutines that call Enqueue: handlers, Recover, sweeper
  Dequeuers,   \* goroutines that call Dequeue or DequeueOrWait
  MaxCalls     \* bound on the number of Enqueue calls

ASSUME SortedAssumption == MaxCalls \in Nat

VARIABLES
  jobs,        \* the slice q.jobs
  signal,      \* wake-ups in the channel q.signal
  life,        \* "open", or "closed": q.closed is set and q.done is closed
  enq,         \* where each Enqueue caller is
  deq,         \* where each Dequeue or DequeueOrWait caller is
  calls,       \* Enqueue calls made so far
  put, got     \* history: how often each job was accepted and handed out

vars == <<jobs, signal, life, enq, deq, calls, put, got>>

TypeOK ==
  /\ jobs \in Seq(Jobs)
  /\ signal \in 0..1
  /\ life \in {"open", "closed"}
  /\ enq \in [Enqueuers -> {"idle", "signal"}]
  /\ deq \in [Dequeuers -> {"idle", "dequeue", "wait", "stopped",
                            "poll", "pollwait", "repoll"}]
  /\ calls \in Nat
  /\ put \in [Jobs -> Nat]
  /\ got \in [Jobs -> Nat]

\* NewSortedQueue.
Init ==
  /\ jobs = <<>>
  /\ signal = 0
  /\ life = "open"
  /\ enq = [e \in Enqueuers |-> "idle"]
  /\ deq = [d \in Dequeuers |-> "idle"]
  /\ calls = 0
  /\ put = [j \in Jobs |-> 0]
  /\ got = [j \in Jobs |-> 0]

-----------------------------------------------------------------------------
(* Enqueue *)

Calling(e) ==
  /\ enq[e] = "idle"
  /\ calls < MaxCalls
  /\ calls' = calls + 1

EnqueueRefused(e) ==
  /\ Calling(e)
  /\ life = "closed"
  /\ UNCHANGED <<jobs, signal, life, enq, deq, put, got>>

\* Under mu: the job takes its place in the slice.
EnqueueInsert(e, j) ==
  /\ Calling(e)
  /\ life = "open"
  /\ jobs' = InsertSorted(jobs, j)
  /\ put' = [put EXCEPT ![j] = @ + 1]
  /\ enq' = [enq EXCEPT ![e] = "signal"]
  /\ UNCHANGED <<signal, life, deq, got>>

\* The wake-up is sent or not.
Signalled(e) ==
  /\ enq[e] = "signal"
  /\ enq' = [enq EXCEPT ![e] = "idle"]
  /\ UNCHANGED <<jobs, life, deq, calls, put, got>>

\* Mutant: the channel has no buffer, so the wake-up is lost on a waiter that
\* has seen the empty slice and is not in its select yet.
EnqueueSignalUnbuffered(e) == Signalled(e) /\ signal' \in {signal, 1}

\* Mutant: every wake-up is kept.
EnqueueSignalKept(e) == Signalled(e) /\ signal' = signal + 1

\* The send does not block: a wake-up is dropped when one is there already.
EnqueueSignal(e) == Signalled(e) /\ signal' = 1

-----------------------------------------------------------------------------
(* Dequeue and DequeueOrWait *)

\* Only the position of the caller changes.
Moves(d, from, to) ==
  /\ deq[d] = from
  /\ deq' = [deq EXCEPT ![d] = to]
  /\ UNCHANGED <<jobs, life, enq, calls, put, got>>

DequeueCall(d) == Moves(d, "idle", "dequeue") /\ UNCHANGED signal

DequeueOrWaitCall(d) == Moves(d, "idle", "poll") /\ UNCHANGED signal

\* Mutant: the newest entry is taken.
PopLast(d) ==
  /\ deq[d] \in {"dequeue", "poll", "repoll"}
  /\ jobs # <<>>
  /\ jobs' = SubSeq(jobs, 1, Len(jobs) - 1)
  /\ got' = [got EXCEPT ![jobs[Len(jobs)]] = @ + 1]
  /\ deq' = [deq EXCEPT ![d] = "idle"]
  /\ UNCHANGED <<signal, life, enq, calls, put>>

\* Under mu: popLocked finds a job, which is returned.
Pop(d) ==
  /\ deq[d] \in {"dequeue", "poll", "repoll"}
  /\ jobs # <<>>
  /\ jobs' = Tail(jobs)
  /\ got' = [got EXCEPT ![Head(jobs)] = @ + 1]
  /\ deq' = [deq EXCEPT ![d] = "idle"]
  /\ UNCHANGED <<signal, life, enq, calls, put>>

\* Under mu: nothing waits.  A closed queue gives nil, and Dequeue's caller
\* stops; an open one makes the caller wait in its select.
Empty(d) ==
  /\ jobs = <<>>
  /\ \/ Moves(d, "dequeue", IF life = "closed" THEN "stopped" ELSE "wait")
     \/ Moves(d, "poll", IF life = "closed" THEN "idle" ELSE "pollwait")
     \/ Moves(d, "repoll", "idle")
  /\ UNCHANGED signal

\* case <-q.signal: look again, DequeueOrWait for the last time.
WakeUp(d) ==
  /\ signal = 1
  /\ signal' = 0
  /\ Moves(d, "wait", "dequeue") \/ Moves(d, "pollwait", "repoll")

\* Mutant: Dequeue's select has no arm for q.done.
WaitDonePollOnly(d) ==
  /\ life = "closed"
  /\ Moves(d, "pollwait", "idle")
  /\ UNCHANGED signal

\* case <-q.done: nil, whether or not a job waits.
WaitDone(d) ==
  /\ life = "closed"
  /\ Moves(d, "wait", "stopped") \/ Moves(d, "pollwait", "idle")
  /\ UNCHANGED signal

\* case <-time.After(d).
WaitTimeout(d) == Moves(d, "pollwait", "idle") /\ UNCHANGED signal

-----------------------------------------------------------------------------
\* The first Close; a later one returns at once.
Close ==
  /\ life = "open"
  /\ life' = "closed"
  /\ UNCHANGED <<jobs, signal, enq, deq, calls, put, got>>

DequeueStep(d) ==
  Pop(d) \/ Empty(d) \/ WakeUp(d) \/ WaitDone(d) \/ WaitTimeout(d)

Next ==
  \/ \E e \in Enqueuers :
       \/ EnqueueRefused(e)
       \/ \E j \in Jobs : EnqueueInsert(e, j)
       \/ EnqueueSignal(e)
  \/ \E d \in Dequeuers :
       DequeueCall(d) \/ DequeueOrWaitCall(d) \/ DequeueStep(d)
  \/ Close

Spec == Init /\ [][Next]_vars

\* A goroutine inside a call keeps running; nobody is obliged to call.
Fairness ==
  /\ \A e \in Enqueuers : WF_vars(EnqueueSignal(e))
  /\ \A d \in Dequeuers : WF_vars(DequeueStep(d))

FairSpec == Spec /\ Fairness

-----------------------------------------------------------------------------
(* Properties *)

\* However many goroutines insert and pop, the slice stays in order, so that
\* popLocked may take its first entry.
SliceInOrder == InOrder(jobs)

\* A single consumer never sleeps on a job: while it is in the select of
\* Dequeue and a job waits, a wake-up is in the channel or about to be sent.
\* (Two consumers may share one wake-up, and one of them then sleeps on.)
NoLostWakeup ==
  \A d \in Dequeuers :
    Dequeuers = {d} /\ deq[d] \in {"wait", "pollwait"} /\ jobs # <<>>
      => signal = 1 \/ \E e \in Enqueuers : enq[e] = "signal"

\* A single caller of Dequeue gets a job that waits, and any caller is
\* released when the queue is closed.
DequeueReturns ==
  \A d \in Dequeuers :
    /\ deq[d] = "wait" /\ life = "closed" ~> deq[d] # "wait"
    /\ Dequeuers = {d} =>
         (deq[d] = "wait" /\ jobs # <<>> ~> deq[d] # "wait")

\* Callers get the jobs as PriorityContract says: once each, the most urgent
\* and then the oldest first.
Contract == INSTANCE PriorityContract

Implements == Contract!Spec
=============================================================================
