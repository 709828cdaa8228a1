------------------------- MODULE SortedQueueProofs --------------------------
(***************************************************************************)
(* Proofs about SortedQueue for any callers, jobs and priorities.          *)
(*                                                                         *)
(* The slice is in order because insertLocked keeps it so (JobOrderProofs), *)
(* and it holds each job as often as it was accepted and not handed out.   *)
(* Both together make the first entry one that PriorityContract may give.  *)
(***************************************************************************)
EXTENDS SortedQueue, JobOrderProofs

\* Each job is in the slice as often as it was accepted and not handed out.
CountInv == \A j \in Jobs : put[j] = got[j] + Occurs(jobs, j)

SortedInv == TypeOK /\ SliceInOrder /\ CountInv /\ NoLostWakeup

\* The steps of a consumer that take no job.
LookStep(d) ==
  \/ DequeueCall(d) \/ DequeueOrWaitCall(d)
  \/ Empty(d) \/ WakeUp(d) \/ WaitDone(d) \/ WaitTimeout(d)

\* Every step has one of these forms.
LEMMA StepCases ==
  ASSUME [Next]_vars
  PROVE  \/ UNCHANGED vars
         \/ \E e \in Enqueuers :
              \/ EnqueueRefused(e)
              \/ \E j \in Jobs : EnqueueInsert(e, j)
              \/ EnqueueSignal(e)
         \/ \E d \in Dequeuers : Pop(d) \/ LookStep(d)
         \/ Close
  BY DEF Next, DequeueStep, LookStep

\* A consumer that takes no job leaves slice and history alone.
LEMMA LookChangesNothing ==
  ASSUME NEW d \in Dequeuers, LookStep(d)
  PROVE  UNCHANGED <<jobs, life, enq, calls, put, got>>
  BY DEF LookStep, DequeueCall, DequeueOrWaitCall, Empty, WakeUp, WaitDone,
         WaitTimeout, Moves

LEMMA TypingStep ==
  ASSUME TypeOK, [Next]_vars
  PROVE  TypeOK'
<1> USE DEF TypeOK
<1>1. CASE UNCHANGED vars
  BY <1>1 DEF vars
<1>2. ASSUME NEW e \in Enqueuers, EnqueueRefused(e) PROVE TypeOK'
  BY <1>2 DEF EnqueueRefused, Calling
<1>3. ASSUME NEW e \in Enqueuers, NEW j \in Jobs, EnqueueInsert(e, j)
      PROVE  TypeOK'
  <2>1. jobs' \in Seq(Jobs)
    BY <1>3, InsertEntries DEF EnqueueInsert
  <2> QED
    BY <1>3, <2>1 DEF EnqueueInsert, Calling
<1>4. ASSUME NEW e \in Enqueuers, EnqueueSignal(e) PROVE TypeOK'
  BY <1>4 DEF EnqueueSignal, Signalled
<1>5. ASSUME NEW d \in Dequeuers, Pop(d) PROVE TypeOK'
  <2>1. Head(jobs) \in Jobs /\ Tail(jobs) \in Seq(Jobs)
    BY <1>5 DEF Pop
  <2> QED
    BY <1>5, <2>1 DEF Pop
<1>6. ASSUME NEW d \in Dequeuers, LookStep(d) PROVE TypeOK'
  <2>1. UNCHANGED <<jobs, life, enq, calls, put, got>>
    BY <1>6, LookChangesNothing
  <2>2. signal' \in 0..1
    BY <1>6 DEF LookStep, DequeueCall, DequeueOrWaitCall, Empty, WakeUp,
                WaitDone, WaitTimeout
  <2>3. \E to \in {"idle", "dequeue", "wait", "stopped", "poll", "pollwait",
                   "repoll"} : deq' = [deq EXCEPT ![d] = to]
    BY <1>6 DEF LookStep, DequeueCall, DequeueOrWaitCall, Empty, WakeUp,
                WaitDone, WaitTimeout, Moves
  <2> QED
    BY <2>1, <2>2, <2>3
<1>7. CASE Close
  BY <1>7 DEF Close
<1> QED
  BY <1>1, <1>2, <1>3, <1>4, <1>5, <1>6, <1>7, StepCases

LEMMA SliceStep ==
  ASSUME TypeOK, SliceInOrder, CountInv, [Next]_vars
  PROVE  SliceInOrder' /\ CountInv'
<1> USE DEF TypeOK
<1>1. ASSUME UNCHANGED <<jobs, put, got>> PROVE SliceInOrder' /\ CountInv'
  BY <1>1 DEF SliceInOrder, CountInv
<1>2. CASE UNCHANGED vars
  BY <1>1, <1>2 DEF vars
<1>3. ASSUME NEW e \in Enqueuers, EnqueueRefused(e) \/ EnqueueSignal(e)
      PROVE  UNCHANGED <<jobs, put, got>>
  BY <1>3 DEF EnqueueRefused, EnqueueSignal, Signalled
<1>4. ASSUME NEW d \in Dequeuers, LookStep(d)
      PROVE  UNCHANGED <<jobs, put, got>>
  BY <1>4, LookChangesNothing
<1>5. CASE Close
  BY <1>1, <1>5 DEF Close
<1>6. ASSUME NEW e \in Enqueuers, NEW j \in Jobs, EnqueueInsert(e, j)
      PROVE  SliceInOrder' /\ CountInv'
  <2>1. /\ jobs' = InsertSorted(jobs, j)
        /\ put' = [put EXCEPT ![j] = @ + 1] /\ got' = got
    BY <1>6 DEF EnqueueInsert
  <2>2. SliceInOrder'
    BY <2>1, InsertKeepsOrder DEF SliceInOrder
  <2>3. ASSUME NEW k \in Jobs PROVE put'[k] = got'[k] + Occurs(jobs', k)
    <3>1. Occurs(jobs', k) = IF k = j THEN Occurs(jobs, k) + 1
                                      ELSE Occurs(jobs, k)
      BY <2>1, InsertCounts
    <3>2. Occurs(jobs, k) \in Nat
      BY OccursType
    <3> QED
      BY <2>1, <3>1, <3>2 DEF CountInv
  <2> QED
    BY <2>2, <2>3 DEF CountInv
<1>7. ASSUME NEW d \in Dequeuers, Pop(d) PROVE SliceInOrder' /\ CountInv'
  <2>1. /\ jobs # <<>> /\ jobs' = Tail(jobs) /\ jobs' \in Seq(Jobs)
        /\ got' = [got EXCEPT ![Head(jobs)] = @ + 1] /\ put' = put
    BY <1>7 DEF Pop
  <2>2. SliceInOrder'
    BY <2>1, HeadIsFirst DEF SliceInOrder
  <2>3. ASSUME NEW k \in Jobs PROVE put'[k] = got'[k] + Occurs(jobs', k)
    <3>1. Occurs(jobs, k) = IF k = Head(jobs) THEN Occurs(jobs', k) + 1
                                              ELSE Occurs(jobs', k)
      BY <2>1, PopCounts
    <3>2. Occurs(jobs', k) \in Nat
      BY <2>1, OccursType
    <3>3. put[k] = got[k] + Occurs(jobs, k)
      BY DEF CountInv
    <3>4. got'[k] = IF k = Head(jobs) THEN got[k] + 1 ELSE got[k]
      BY <2>1
    <3>5. got[k] \in Nat /\ put'[k] = put[k]
      BY <2>1
    <3> QED
      BY <3>1, <3>2, <3>3, <3>4, <3>5
  <2> QED
    BY <2>2, <2>3 DEF CountInv
<1> QED
  BY <1>1, <1>2, <1>3, <1>4, <1>5, <1>6, <1>7, StepCases

\* A consumer goes to sleep only on an empty slice; an Enqueue that fills it
\* owes a wake-up until it is in the channel; only the consumer takes it out,
\* and then it is awake.
LEMMA WakeupStep ==
  ASSUME TypeOK, NoLostWakeup, [Next]_vars
  PROVE  NoLostWakeup'
<1> USE DEF TypeOK
<1> SUFFICES ASSUME NEW c \in Dequeuers, Dequeuers = {c},
                    deq'[c] \in {"wait", "pollwait"}, jobs' # <<>>
             PROVE  signal' = 1 \/ \E e \in Enqueuers : enq'[e] = "signal"
  BY DEF NoLostWakeup
<1>1. ASSUME UNCHANGED <<jobs, signal, enq, deq>>
      PROVE  signal' = 1 \/ \E e \in Enqueuers : enq'[e] = "signal"
  BY <1>1 DEF NoLostWakeup
<1>2. CASE UNCHANGED vars
  BY <1>1, <1>2 DEF vars
<1>3. ASSUME NEW e \in Enqueuers, EnqueueRefused(e)
      PROVE  UNCHANGED <<jobs, signal, enq, deq>>
  BY <1>3 DEF EnqueueRefused
<1>4. ASSUME NEW e \in Enqueuers, NEW j \in Jobs, EnqueueInsert(e, j)
      PROVE  \E f \in Enqueuers : enq'[f] = "signal"
  BY <1>4 DEF EnqueueInsert
<1>5. ASSUME NEW e \in Enqueuers, EnqueueSignal(e) PROVE signal' = 1
  BY <1>5 DEF EnqueueSignal
<1>6. ASSUME NEW d \in Dequeuers, Pop(d) PROVE FALSE
  BY <1>6 DEF Pop
<1>7. ASSUME NEW d \in Dequeuers, LookStep(d)
      PROVE  UNCHANGED <<jobs, signal, enq, deq>>
  BY <1>7 DEF LookStep, DequeueCall, DequeueOrWaitCall, Empty, WakeUp,
              WaitDone, WaitTimeout, Moves
<1>8. CASE Close
  BY <1>1, <1>8 DEF Close
<1> QED
  BY <1>1, <1>2, <1>3, <1>4, <1>5, <1>6, <1>7, <1>8, StepCases

-----------------------------------------------------------------------------
(* The theorems *)

LEMMA Invariance == Spec => []SortedInv
<1>1. Init => SortedInv
  <2> SUFFICES ASSUME Init PROVE SortedInv
    OBVIOUS
  <2>1. TypeOK
    BY DEF Init, TypeOK
  <2>2. SliceInOrder
    BY DEF Init, SliceInOrder, InOrder
  <2>3. CountInv
    <3>1. jobs \in Seq(Jobs) /\ \A i \in 1..Len(jobs) : FALSE
      BY DEF Init
    <3>2. \A j \in Jobs : Occurs(jobs, j) = 0
      BY <3>1, OccursType
    <3>3. \A j \in Jobs : put[j] = 0 /\ got[j] = 0
      BY DEF Init
    <3> QED
      BY <3>2, <3>3, 0 = 0 + 0 DEF CountInv
  <2>4. NoLostWakeup
    BY DEF Init, NoLostWakeup
  <2> QED
    BY <2>1, <2>2, <2>3, <2>4 DEF SortedInv
<1>2. SortedInv /\ [Next]_vars => SortedInv'
  BY TypingStep, SliceStep, WakeupStep DEF SortedInv
<1> QED
  BY <1>1, <1>2, PTL DEF Spec

\* Every variable keeps its type; the signal channel never holds two wake-ups.
THEOREM TypeCorrect == Spec => []TypeOK
<1>1. SortedInv => TypeOK
  BY DEF SortedInv
<1> QED
  BY <1>1, Invariance, PTL

\* The slice is in order for any interleaving of inserts and pops.
THEOREM SliceStaysInOrder == Spec => []SliceInOrder
<1>1. SortedInv => SliceInOrder
  BY DEF SortedInv
<1> QED
  BY <1>1, Invariance, PTL

\* A single consumer never sleeps on a waiting job without a wake-up on its
\* way, for any number of producers.
THEOREM WakeupsAreNotLost == Spec => []NoLostWakeup
<1>1. SortedInv => NoLostWakeup
  BY DEF SortedInv
<1> QED
  BY <1>1, Invariance, PTL

\* The slice with its mutex, signal channel and selects implements the
\* abstract priority queue: an insert is a Put, a pop a Get of a job that no
\* other waiting one goes ahead of, Close a Shut.
THEOREM QueueImplementsContract == Spec => Implements
<1>1. Init => Contract!Init
  BY DEF Init, Contract!Init
<1>2. SortedInv /\ [Next]_vars => [Contract!Next]_(Contract!vars)
  <2> SUFFICES ASSUME SortedInv, [Next]_vars
               PROVE  Contract!Next \/ UNCHANGED Contract!vars
    OBVIOUS
  <2> USE DEF SortedInv, TypeOK
  <2>1. ASSUME UNCHANGED <<put, got, life>> PROVE UNCHANGED Contract!vars
    BY <2>1 DEF Contract!vars
  <2>2. ASSUME UNCHANGED vars PROVE UNCHANGED <<put, got, life>>
    BY <2>2 DEF vars
  <2>3. ASSUME NEW e \in Enqueuers, EnqueueRefused(e) \/ EnqueueSignal(e)
        PROVE  UNCHANGED <<put, got, life>>
    BY <2>3 DEF EnqueueRefused, EnqueueSignal, Signalled
  <2>4. ASSUME NEW d \in Dequeuers, LookStep(d)
        PROVE  UNCHANGED <<put, got, life>>
    BY <2>4, LookChangesNothing
  <2>5. ASSUME NEW e \in Enqueuers, NEW j \in Jobs, EnqueueInsert(e, j)
        PROVE  Contract!Next
    <3>1. Contract!Put(j)
      BY <2>5 DEF EnqueueInsert, Contract!Put
    <3> QED
      BY <3>1 DEF Contract!Next
  <2>6. ASSUME NEW d \in Dequeuers, Pop(d) PROVE Contract!Next
    <3> DEFINE h == Head(jobs)
    <3>1. jobs # <<>> /\ h \in Jobs /\ Len(jobs) >= 1 /\ h = jobs[1]
      BY <2>6 DEF Pop
    <3>2. \A j \in Jobs : j \in Contract!Waiting <=> Occurs(jobs, j) # 0
      <4> SUFFICES ASSUME NEW j \in Jobs
                   PROVE  got[j] < put[j] <=> Occurs(jobs, j) # 0
        BY DEF Contract!Waiting
      <4>1. Occurs(jobs, j) \in Nat
        BY OccursType
      <4>2. put[j] = got[j] + Occurs(jobs, j)
        BY DEF CountInv
      <4> QED
        BY <4>1, <4>2
    <3>3. h \in Contract!Waiting
      BY <3>1, <3>2, OccursType
    <3>4. ASSUME NEW i \in Contract!Waiting PROVE ~Contract!Ahead(i, h)
      <4>1. i \in Jobs /\ Occurs(jobs, i) # 0
        BY <3>2 DEF Contract!Waiting
      <4>2. PICK n \in 1..Len(jobs) : jobs[n] = i
        BY <4>1, OccursType
      <4>3. ~Ahead(i, h)
        BY <3>1, <4>2, HeadIsFirst DEF SliceInOrder
      <4> QED
        BY <4>3 DEF Ahead, Contract!Ahead
    <3>5. Contract!Get(h)
      BY <2>6, <3>3, <3>4 DEF Pop, Contract!Get
    <3> QED
      BY <3>1, <3>5 DEF Contract!Next
  <2>7. CASE Close
    <3>1. Contract!Shut
      BY <2>7 DEF Close, Contract!Shut
    <3> QED
      BY <3>1 DEF Contract!Next
  <2> QED
    BY <2>1, <2>2, <2>3, <2>4, <2>5, <2>6, <2>7, StepCases
<1> QED
  BY <1>1, <1>2, Invariance, PTL DEF Implements, Contract!Spec, Spec
=============================================================================
