------------------------------- MODULE Router -------------------------------
(***************************************************************************)
(* The three in-memory queues behind internal/queue/router.go and the token *)
(* bucket of the rate-limited one, as their callers see them: a put and a   *)
(* take are single steps, which is what MemoryQueue and SortedQueue are     *)
(* shown to implement (FifoContract, PriorityContract).                     *)
(***************************************************************************)
EXTENDS JobStore

CONSTANTS
  BufferSize,    \* capacity of the two channels: ten times the workers
  SortedBound,   \* model bound on the priority queue, a slice without limit
  Burst          \* tokens the bucket holds

ASSUME RouterAssumption ==
  /\ BufferSize \in Nat \ {0}
  /\ SortedBound \in Nat
  /\ Burst \in Nat \ {0}

VARIABLES queue,   \* the jobs waiting in each queue, next one first
          tokens   \* tokens left in the bucket

RouterTypeOK ==
  /\ queue \in [QueueNames -> Seq(Jobs)]
  /\ tokens \in 0..Burst

EmptyQueues == [q \in QueueNames |-> <<>>]

Room(q) ==
  Len(queue[q]) < IF q = "priority" THEN SortedBound ELSE BufferSize

\* Enqueue on an open queue with room.
Put(q, j) ==
  /\ Room(q)
  /\ queue' = [queue EXCEPT
                 ![q] = IF q = "priority" THEN InsertSorted(@, j)
                                          ELSE Append(@, j)]

\* Enqueue on a channel gives up after five seconds without room.
TimesOut(q) == q # "priority" /\ ~Room(q)

\* A receive or pop that finds job j.
Take(q, j) ==
  /\ queue[q] # <<>>
  /\ j = Head(queue[q])
  /\ queue' = [queue EXCEPT ![q] = Tail(@)]

\* Mutant: the bucket has no limit.
AddTokenUncapped == tokens' = tokens + 1

\* The refill goroutine.
AddToken ==
  /\ tokens < Burst
  /\ tokens' = tokens + 1

SpendToken ==
  /\ tokens > 0
  /\ tokens' = tokens - 1
=============================================================================
