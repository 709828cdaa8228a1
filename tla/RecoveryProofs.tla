--------------------------- MODULE RecoveryProofs ---------------------------
(***************************************************************************)
(* What a restart finds again: proofs about JobSystem for any jobs,        *)
(* workers, sweepers, crashes, stops, panics, failing statements and       *)
(* manual retries, and for channels of any size.  Here a job may be held   *)
(* several times; what matters is that it is held at all.                  *)
(***************************************************************************)
EXTENDS CustodyProofs

\* No statement has failed and no processor has panicked so far.
Unharmed == faults["db"] = 0 /\ faults["panic"] = 0

\* Job j is held, or an Enqueue that was to pass it on gave up.
Tracked(j) == Held(j) \/ j \in unqueued

\* Some worker is between SetProcessing and the statement that ends job j.
AtWork(j) ==
  \E w \in Workers : /\ worker[w].job = j
                     /\ worker[w].at \in {"running", "ack", "failed", "nack"}

\* Job j is not lost.  While the process lives a processing row belongs to a
\* worker that will write it again, unless Recover has the job on its list;
\* hence no sweeper ever lists the job as stuck.
Safe(j) ==
  /\ db[j].status = "pending" /\ phase \in {"recovering", "serving"} =>
       Tracked(j) \/ (phase = "recovering" /\ todo["recover"][j] # "none")
  /\ db[j].status = "processing" /\ phase # "down" =>
       \/ AtWork(j) /\ db[j].age = "fresh"
       \/ phase = "recovering" /\ todo["recover"][j] \in {"processing", "stuck"}
  /\ \A q \in QueueNames : todo[q][j] \in {"none", "pending"}

RecoveryInv ==
  /\ phase # "recovering" => todo["recover"] = NoList
  /\ Unharmed => \A j \in Jobs : Safe(j)

-----------------------------------------------------------------------------
(* Steps that do not touch a job *)

\* The row of job k stays as it is, and so does who has it.
Kept(k) ==
  /\ db'[k] = db[k]
  /\ Tracked(k) => Tracked(k)'
  /\ AtWork(k) => AtWork(k)'

\* The lists say of job k what they said before.
ListedSame(k) ==
  /\ phase' = phase
  /\ \A l \in Listers : todo'[l][k] = todo[l][k]

LEMMA KeptSafe ==
  ASSUME NEW k \in Jobs, Safe(k), Kept(k), ListedSame(k)
  PROVE  Safe(k)'
<1>1. "recover" \in Listers /\ QueueNames \subseteq Listers
  BY DEF Listers
<1> QED
  BY <1>1 DEF Safe, Kept, ListedSame

\* A job that keeps its holders is kept.
LEMMA KeptBy ==
  ASSUME NEW k \in Jobs, db'[k] = db[k], k \in unqueued => k \in unqueued',
         \A q \in QueueNames : Waits(k, q) => Waits(k, q)',
         \A w \in Workers : slot[w] = k => slot'[w] = k,
         InHandler(k) => InHandler(k)',
         \A w \in Workers : worker[w].job = k =>
           /\ worker'[w].job = k
           /\ worker[w].at \in {"running", "ack", "failed", "nack"}
                => worker'[w].at \in {"running", "ack", "failed", "nack"}
  PROVE  Kept(k)
<1>1. Held(k) => Held(k)'
  BY DEF Held
<1>2. AtWork(k) => AtWork(k)'
  BY DEF AtWork
<1> QED
  BY <1>1, <1>2 DEF Kept, Tracked

LEMMA SameKept ==
  ASSUME NEW k \in Jobs, Same(k), UNCHANGED unqueued
  PROVE  Kept(k)
  BY KeptBy DEF Same, InHandler

\* A take removes no other job.
LEMMA TakeLeaves ==
  ASSUME queue \in [QueueNames -> Seq(Jobs)], NEW q \in QueueNames, NEW j,
         Take(q, j)
  PROVE  \A k \in Jobs \ {j}, r \in QueueNames : Waits(k, r) => Waits(k, r)'
<1> DEFINE s == queue[q]
           t == queue'[q]
<1>1. s \in Seq(Jobs) /\ \A r \in QueueNames \ {q} : queue'[r] = queue[r]
  BY DEF Take
<1>2. s # <<>> /\ j = Head(s) /\ t = Tail(s)
  BY DEF Take
<1> HIDE DEF s, t
<1>3. /\ j = s[1] /\ Len(s) \in Nat /\ Len(s) >= 1
      /\ Len(t) = Len(s) - 1
      /\ \A i \in 1..Len(s) - 1 : t[i] = s[i + 1]
  BY <1>1, <1>2
<1>4. ASSUME NEW k \in Jobs \ {j}, NEW i \in 1..Len(s), s[i] = k
      PROVE  \E m \in 1..Len(t) : t[m] = k
  <2>1. i # 1 /\ i - 1 \in 1..Len(t) /\ t[i - 1] = s[i]
    BY <1>3, <1>4
  <2> QED
    BY <1>4, <2>1
<1>5. ASSUME NEW k \in Jobs \ {j}, NEW r \in QueueNames, Waits(k, r)
      PROVE  Waits(k, r)'
  <2>1. CASE r = q
    BY <1>4, <1>5, <2>1 DEF Waits, s, t
  <2>2. CASE r # q
    BY <1>1, <1>5, <2>2 DEF Waits
  <2> QED
    BY <2>1, <2>2
<1> QED
  BY <1>5

\* However an Enqueue of job j ends, the job is in the queue or on record as
\* not queued, and nothing else changes in the queues.
LEMMA EnqueueEnds ==
  ASSUME queue \in [QueueNames -> Seq(Jobs)], NEW q \in QueueNames,
         NEW j \in Jobs, Queued(q, j) \/ NotQueued(j)
  PROVE  /\ \A k \in Jobs, r \in QueueNames : Waits(k, r) => Waits(k, r)'
         /\ \A k \in Jobs \ {j} : k \in unqueued => k \in unqueued'
         /\ Waits(j, q)' \/ j \in unqueued'
<1>1. CASE Queued(q, j)
  BY <1>1, PutWaits DEF Queued
<1>2. CASE NotQueued(j)
  BY <1>2, WaitsSame DEF NotQueued
<1> QED
  BY <1>1, <1>2

-----------------------------------------------------------------------------
(* The handlers *)

LEMMA ApiSafe ==
  ASSUME SystemInv, NEW j \in Jobs, ApiStep(j), Unharmed',
         \A k \in Jobs : Safe(k)
  PROVE  \A k \in Jobs : Safe(k)'
<1> USE Shapes DEF SystemInv
<1>1. /\ UNCHANGED <<todo, phase>>
      /\ \A k \in Jobs : ListedSame(k)
  BY StaysCalm DEF ListedSame
<1>2. \A k \in Jobs : Kept(k) => Safe(k)'
  BY <1>1, KeptSafe
<1>3. CASE CreateJob(j) \/ RetryJob(j)
  <2>1. /\ UNCHANGED <<queue, worker, slot, unqueued>>
        /\ \E r \in {"saved", "enqueue", "retry"} : api' = [api EXCEPT ![j] = r]
    BY <1>3 DEF CreateJob, RetryJob, Reply, mem
  <2>2. /\ db'[j].status = "pending"
        /\ \A k \in Jobs \ {j} : db'[k] = db[k]
    <3>1. CASE CreateJob(j)
      <4>1. db' = [db EXCEPT ![j] = [status |-> "pending", retry |-> 0,
                                     max |-> MaxRetries, age |-> "fresh"]]
        BY <3>1 DEF CreateJob, SaveJob
      <4> QED
        BY <4>1
    <3>2. CASE RetryJob(j)
      <4>1. PICK n : Revived(j, n)
        BY <3>2 DEF RetryJob, ResetForRetry
      <4>2. db' = [db EXCEPT ![j] = [db[j] EXCEPT !.status = "pending",
                     !.age = "fresh", !.max = db[j].max + ExtraRetries,
                     !.retry = n]]
        BY <4>1 DEF Revived
      <4>3. db[j] \in Row
        OBVIOUS
      <4> QED
        BY <4>2, <4>3 DEF Row
    <3> QED
      BY <1>3, <3>1, <3>2
  <2>3. ASSUME NEW k \in Jobs \ {j} PROVE Kept(k)
    <3>1. InHandler(k) => InHandler(k)'
      BY <2>1 DEF InHandler
    <3> QED
      BY <2>1, <2>2, <3>1, WaitsSame, KeptBy
  <2>4. Safe(j)'
    <3>1. Held(j)'
      BY <2>1 DEF Held, InHandler
    <3> QED
      BY <1>1, <2>2, <3>1 DEF Safe, Tracked
  <2> QED
    BY <1>2, <2>3, <2>4
<1>4. CASE HandlerFails(j)
  BY <1>4, FaultsGrow DEF HandlerFails, Unharmed
<1>5. CASE NoPreemption(j) \/ \E w \in Workers : Preempt(j, w)
  <2>1. /\ UNCHANGED <<db, queue, unqueued>>
        /\ \A k \in Jobs \ {j} : api'[k] = api[k]
    BY <1>5 DEF NoPreemption, Preempt, CancelFirst, Reply, mem, store
  <2>2. \A v \in Workers : /\ worker'[v].job = worker[v].job
                           /\ worker'[v].at = worker[v].at
    <3>1. CASE NoPreemption(j)
      BY <3>1 DEF NoPreemption, mem
    <3>2. ASSUME NEW w \in Workers, Preempt(j, w), NEW v \in Workers
          PROVE  worker'[v].job = worker[v].job /\ worker'[v].at = worker[v].at
      <4> DEFINE c == IF worker[w].ctx = "live" THEN "canceled"
                      ELSE worker[w].ctx
      <4>1. worker' = [worker EXCEPT ![w] = [worker[w] EXCEPT !.ctx = c]]
        BY <3>2 DEF Preempt, CancelFirst
      <4>2. worker[v] \in WorkerRecord /\ worker[w] \in WorkerRecord
        OBVIOUS
      <4> HIDE DEF c
      <4> QED
        BY <4>1, <4>2 DEF WorkerRecord
    <3> QED
      BY <1>5, <3>1, <3>2
  <2>3. \/ UNCHANGED slot /\ api'[j] = "enqueue"
        \/ \E w \in Workers : slot[w] = NoJob /\ slot' = [slot EXCEPT ![w] = j]
    BY <1>5 DEF NoPreemption, Preempt, CancelFirst, Preemptable, Reply, mem
  <2>4. \A k \in Jobs, w \in Workers : slot[w] = k => slot'[w] = k
    BY <2>3
  <2>5. InHandler(j)' \/ \E w \in Workers : slot'[w] = j
    BY <2>3 DEF InHandler
  <2>6. ASSUME NEW k \in Jobs \ {j} PROVE Kept(k)
    <3>1. InHandler(k) => InHandler(k)'
      BY <2>1 DEF InHandler
    <3> QED
      BY <2>1, <2>2, <2>4, <3>1, WaitsSame, KeptBy
  <2>7. Kept(j)
    <3>1. AtWork(j) => AtWork(j)'
      BY <2>2 DEF AtWork
    <3>2. Tracked(j)'
      BY <2>5 DEF Held, Tracked
    <3> QED
      BY <2>1, <3>1, <3>2 DEF Kept
  <2> QED
    BY <1>2, <2>6, <2>7
<1>6. ASSUME NEW q \in QueueNames, HandlerEnqueue(j, q)
      PROVE  \A k \in Jobs : Safe(k)'
  <2>1. /\ UNCHANGED <<db, worker, slot>>
        /\ \A k \in Jobs \ {j} : api'[k] = api[k]
    BY <1>6 DEF HandlerEnqueue, Reply, store
  <2>2. /\ \A k \in Jobs, r \in QueueNames : Waits(k, r) => Waits(k, r)'
        /\ \A k \in Jobs \ {j} : k \in unqueued => k \in unqueued'
        /\ Waits(j, q)' \/ j \in unqueued'
    BY <1>6, EnqueueEnds DEF HandlerEnqueue
  <2>3. ASSUME NEW k \in Jobs \ {j} PROVE Kept(k)
    <3>1. InHandler(k) => InHandler(k)'
      BY <2>1 DEF InHandler
    <3> QED
      BY <2>1, <2>2, <3>1, KeptBy
  <2>4. Kept(j)
    <3>1. AtWork(j) => AtWork(j)'
      BY <2>1 DEF AtWork
    <3>2. Tracked(j)'
      BY <2>2 DEF Held, Tracked
    <3> QED
      BY <2>1, <3>1, <3>2 DEF Kept
  <2> QED
    BY <1>2, <2>3, <2>4
<1> QED
  BY <1>3, <1>4, <1>5, <1>6 DEF ApiStep

-----------------------------------------------------------------------------
(* The workers *)

\* A worker that takes a job has it; the other jobs stay where they are.
LEMMA PollSafe ==
  ASSUME SystemInv, NEW w \in Workers, PollStep(w), \A k \in Jobs : Safe(k)
  PROVE  \A k \in Jobs : Safe(k)'
<1> USE Shapes DEF SystemInv
<1>1. \A k \in Jobs : ListedSame(k)
  BY StaysCalm DEF ListedSame
<1>2. UNCHANGED <<db, api, unqueued>>
  BY DEF PollStep, TakeSlot, ReadSlot, TakePriority, TakeLimited, TakeFifo,
         PriorityMiss, LimitedMiss, FifoMiss, TakeToken, Exit, Polling, store
<1>3. worker[w].at \notin {"running", "ack", "failed", "nack"}
  BY DEF PollStep, TakeSlot, ReadSlot, TakePriority, TakeLimited, TakeFifo,
         PriorityMiss, LimitedMiss, FifoMiss, TakeToken, Exit
<1>4. ASSUME NEW k \in Jobs,
             \A v \in Workers \ {w} : worker'[v] = worker[v]
      PROVE  AtWork(k) => AtWork(k)'
  BY <1>3, <1>4 DEF AtWork
<1> SUFFICES ASSUME NEW k \in Jobs PROVE Kept(k)
  BY <1>1, KeptSafe
<1>5. CASE PriorityMiss(w) \/ LimitedMiss(w) \/ FifoMiss(w) \/ Exit(w)
  BY <1>2, <1>5, MissCustody, SameKept
<1>6. CASE TakeToken(w)
  <2>1. UNCHANGED <<queue, slot>>
    BY <1>6 DEF TakeToken
  <2>2. Becomes(w, "claimed", worker[w].job, worker[w].retry, worker[w].max)
    BY <1>6, WorkerBecomes DEF TakeToken
  <2> QED
    BY <1>2, <1>3, <2>1, <2>2, WaitsSame, KeptBy DEF Becomes, InHandler
<1>7. ASSUME NEW j \in Jobs,
             \/ TakeSlot(w) /\ j = slot[w]
             \/ TakePriority(w, j) \/ TakeLimited(w, j) \/ TakeFifo(w, j)
      PROVE  Kept(k)
  <2>1. worker[w].job = NoJob
    <3>1. worker[w].at \notin Holding
      BY <1>7 DEF TakeSlot, ReadSlot, TakePriority, TakeLimited, TakeFifo,
                  Holding
    <3> QED
      BY <3>1 DEF WorkerShape
  <2>2. PICK s \in {"token", "claimed"} :
          Becomes(w, s, j, worker[w].retry, worker[w].max)
    BY <1>7, WorkerBecomes
       DEF TakeSlot, ReadSlot, TakePriority, TakeLimited, TakeFifo
  <2>3. /\ \A v \in Workers \ {w} : worker'[v] = worker[v]
        /\ worker'[w].job = j
    BY <2>2 DEF Becomes
  <2>4. /\ \A i \in Jobs \ {j}, r \in QueueNames : Waits(i, r) => Waits(i, r)'
        /\ \A i \in Jobs \ {j}, v \in Workers : slot[v] = i => slot'[v] = i
    <3>1. CASE TakeSlot(w) /\ j = slot[w]
      <4>1. UNCHANGED queue /\ slot' = [slot EXCEPT ![w] = NoJob]
        BY <3>1 DEF TakeSlot, ReadSlot
      <4> QED
        BY <3>1, <4>1, WaitsSame
    <3>2. CASE TakePriority(w, j) \/ TakeLimited(w, j) \/ TakeFifo(w, j)
      <4>1. UNCHANGED slot /\ \E q \in QueueNames : Take(q, j)
        BY <3>2 DEF TakePriority, TakeLimited, TakeFifo, QueueNames
      <4> QED
        BY <4>1, TakeLeaves
    <3> QED
      BY <1>7, <3>1, <3>2
  <2>5. CASE k = j
    <3>1. Tracked(j)'
      BY <2>3 DEF Held, Tracked
    <3> QED
      BY <1>2, <1>4, <2>3, <2>5, <3>1 DEF Kept
  <2>6. CASE k # j
    <3>1. \A v \in Workers : worker[v].job = k => worker'[v] = worker[v]
      BY <2>1, <2>3
    <3> QED
      BY <1>2, <2>4, <2>6, <3>1, KeptBy DEF InHandler
  <2> QED
    BY <2>5, <2>6
<1>8. CASE TakeSlot(w)
  <2>1. PICK j \in Jobs : j = slot[w]
    BY <1>8 DEF TakeSlot, ReadSlot
  <2> QED
    BY <1>7, <1>8, <2>1
<1> QED
  BY <1>5, <1>6, <1>7, <1>8 DEF PollStep

\* What a step of worker w on its job j leaves: a row that is over, a row
\* that is pending and a job that is tracked, or a row that was written by a
\* worker that is still at it.
LEMMA OnJobSafe ==
  ASSUME SystemInv, NEW w \in Workers, NEW j \in Jobs, worker[w].job = j,
         UNCHANGED <<slot, api, todo, phase>>,
         \A v \in Workers \ {w} : worker'[v] = worker[v],
         \A k \in Jobs \ {j} : db'[k] = db[k],
         \A k \in Jobs \ {j} : k \in unqueued => k \in unqueued',
         \A k \in Jobs \ {j}, q \in QueueNames : Waits(k, q) => Waits(k, q)',
         \A k \in Jobs : Safe(k),
         \/ db'[j].status \in {"completed", "failed"}
         \/ db'[j].status = "pending" /\ Tracked(j)'
         \/ db'[j].status = "processing" /\ db'[j].age = "fresh" /\ AtWork(j)'
         \/ Kept(j)
  PROVE  \A k \in Jobs : Safe(k)'
<1>1. \A k \in Jobs : ListedSame(k)
  BY DEF ListedSame
<1>2. ASSUME NEW k \in Jobs \ {j} PROVE Safe(k)'
  <2>1. \A v \in Workers : worker[v].job = k => worker'[v] = worker[v]
    OBVIOUS
  <2>2. Kept(k)
    BY <2>1, KeptBy DEF InHandler
  <2> QED
    BY <1>1, <2>2, KeptSafe
<1>3. Safe(j)'
  <2>1. CASE Kept(j)
    BY <1>1, <2>1, KeptSafe
  <2>2. CASE ~Kept(j)
    BY <2>2 DEF Safe
  <2> QED
    BY <2>1, <2>2
<1> QED
  BY <1>2, <1>3

LEMMA JobSafe ==
  ASSUME SystemInv, NEW w \in Workers, JobStep(w), Unharmed',
         \A k \in Jobs : Safe(k)
  PROVE  \A k \in Jobs : Safe(k)'
<1> USE Shapes DEF SystemInv
<1>1. UNCHANGED <<todo, phase, slot, api>>
  BY DEF JobStep, StartProcessing, Deadline, ProcessReturns, Panic, Restart,
         Ack, RequeuePreempted, Preempted, NackRead, NackWrite, WriteCounter,
         PutBack, LeaveAfterPut, StoreFails, Working
<1>2. CASE Restart(w)
  <2>1. UNCHANGED unqueued
    BY <1>2 DEF Restart, Working
  <2>2. \A k \in Jobs : Kept(k)
    BY <1>2, <2>1, MissCustody, SameKept
  <2> QED
    BY <1>1, <2>2, KeptSafe DEF ListedSame
<1>3. ~Panic(w)
  BY FaultsGrow DEF Panic, Unharmed
<1>4. ~StoreFails(w)
  BY FaultsGrow DEF StoreFails, Unharmed
<1>5. CASE ~Restart(w)
  <2>1. worker[w].at \in Holding
    BY <1>3, <1>4, <1>5
       DEF JobStep, StartProcessing, Deadline, ProcessReturns, Ack,
           RequeuePreempted, Preempted, NackRead, NackWrite, WriteCounter,
           PutBack, LeaveAfterPut, Holding
  <2>2. PICK j \in Jobs : worker[w].job = j
    BY <2>1, HeldIsJob
  <2>3. worker[w] \in WorkerRecord /\ db[j] \in Row
    OBVIOUS
  <2>4. ASSUME UNCHANGED queue
        PROVE  \A k \in Jobs, q \in QueueNames : Waits(k, q) => Waits(k, q)'
    BY <2>4, WaitsSame
  <2>5. CASE StartProcessing(w)
    <3>1. UNCHANGED <<queue, unqueued>> /\ UpdateJobStatus(j, "processing")
      BY <2>2, <2>5, FaultsGrow DEF StartProcessing, Working, Unharmed
    <3>2. Becomes(w, "running", j, worker[w].retry, worker[w].max)
      <4>1. worker' = [worker EXCEPT ![w] =
                         [worker[w] EXCEPT !.at = "running", !.ctx = "live"]]
        BY <2>5 DEF StartProcessing
      <4> QED
        BY <2>2, <2>3, <4>1 DEF Becomes, WorkerRecord
    <3>3. db' = [db EXCEPT ![j] = [db[j] EXCEPT !.status = "processing",
                                               !.age = "fresh"]]
      BY <3>1 DEF UpdateJobStatus
    <3>4. /\ \A k \in Jobs \ {j} : db'[k] = db[k]
          /\ db'[j].status = "processing" /\ db'[j].age = "fresh"
      BY <2>3, <3>3 DEF Row
    <3>5. AtWork(j)' /\ \A v \in Workers \ {w} : worker'[v] = worker[v]
      BY <3>2 DEF Becomes, AtWork
    <3> QED
      BY <1>1, <2>2, <2>4, <3>1, <3>4, <3>5, OnJobSafe
  <2>6. CASE \/ Deadline(w) \/ NackRead(w)
             \/ \E s \in {"ack", "failed"} : ProcessReturns(w, s)
    <3>1. UNCHANGED <<queue, db, unqueued>>
      BY <2>6 DEF Deadline, NackRead, ProcessReturns, Working, store
    <3>2. /\ \A v \in Workers \ {w} : worker'[v] = worker[v]
          /\ worker'[w].job = j
          /\ worker'[w].at \in {"running", "ack", "failed", "nack"}
      <4>1. CASE Deadline(w)
        <5>1. worker' = [worker EXCEPT ![w] =
                           [worker[w] EXCEPT !.ctx = "deadline"]]
          BY <4>1 DEF Deadline
        <5> QED
          BY <2>2, <2>3, <4>1, <5>1 DEF Deadline, WorkerRecord
      <4>2. CASE NackRead(w)
        <5>1. worker' = [worker EXCEPT ![w] =
                [worker[w] EXCEPT !.at = "nack", !.retry = db[j].retry + 1,
                                  !.max = db[j].max]]
          BY <2>2, <4>2 DEF NackRead
        <5> QED
          BY <2>2, <2>3, <5>1 DEF WorkerRecord
      <4>3. ASSUME NEW s \in {"ack", "failed"}, ProcessReturns(w, s)
            PROVE  Becomes(w, s, worker[w].job, worker[w].retry, worker[w].max)
        BY <4>3, WorkerBecomes DEF ProcessReturns
      <4> QED
        BY <2>2, <2>6, <4>1, <4>2, <4>3 DEF Becomes
    <3>3. Kept(j)
      BY <1>1, <2>2, <3>1, <3>2, WaitsSame, KeptBy DEF InHandler
    <3> QED
      BY <1>1, <2>2, <2>4, <3>1, <3>2, <3>3, OnJobSafe
  <2>7. CASE Ack(w)
    <3>1. UNCHANGED <<queue, unqueued>> /\ UpdateJobStatus(j, "completed")
      BY <2>2, <2>7 DEF Ack, Working
    <3>2. RowIs(j, "completed", db[j].retry)
      BY <3>1, RowEffect
    <3>3. Becomes(w, "top", NoJob, 0, 0)
      BY <2>7, WorkerBecomes DEF Ack
    <3> QED
      BY <1>1, <2>2, <2>4, <3>1, <3>2, <3>3, OnJobSafe DEF RowIs, Becomes
  <2>8. CASE RequeuePreempted(w)
    <3>1. UNCHANGED <<queue, unqueued>> /\ Requeue(j) /\ Goto(w, "put")
      BY <2>2, <2>8 DEF RequeuePreempted, Preempted, Working
    <3>2. RowIs(j, "pending", db[j].retry)
      BY <3>1, RowEffect
    <3>3. Becomes(w, "put", j, worker[w].retry, worker[w].max)
      BY <2>2, <3>1, WorkerBecomes
    <3>4. Tracked(j)'
      BY <3>3 DEF Becomes, Held, Tracked
    <3> QED
      BY <1>1, <2>2, <2>4, <3>1, <3>2, <3>3, <3>4, OnJobSafe DEF RowIs, Becomes
  <2>9. CASE NackWrite(w)
    <3> DEFINE exhausted == worker[w].retry >= worker[w].max
    <3>1. UNCHANGED <<queue, unqueued>>
      BY <2>9 DEF NackWrite, WriteCounter, Working
    <3>2. CASE exhausted
      <4>1. UpdateJobRetry(j, "failed", worker[w].retry) /\ Finish(w)
        BY <2>2, <2>9, <3>2 DEF NackWrite, WriteCounter
      <4>2. RowIs(j, "failed", worker[w].retry)
        BY <4>1, RowEffect
      <4>3. Becomes(w, "top", NoJob, 0, 0)
        BY <4>1, WorkerBecomes
      <4> QED
        BY <1>1, <2>2, <2>4, <3>1, <4>2, <4>3, OnJobSafe DEF RowIs, Becomes
    <3>3. CASE ~exhausted
      <4>1. UpdateJobRetry(j, "pending", worker[w].retry) /\ Goto(w, "put")
        BY <2>2, <2>9, <3>3 DEF NackWrite, WriteCounter
      <4>2. RowIs(j, "pending", worker[w].retry)
        BY <4>1, RowEffect
      <4>3. Becomes(w, "put", j, worker[w].retry, worker[w].max)
        BY <2>2, <4>1, WorkerBecomes
      <4>4. Tracked(j)'
        BY <4>3 DEF Becomes, Held, Tracked
      <4> QED
        BY <1>1, <2>2, <2>4, <3>1, <4>2, <4>3, <4>4, OnJobSafe
           DEF RowIs, Becomes
    <3> QED
      BY <3>2, <3>3
  <2>10. CASE PutBack(w)
    <3>1. UNCHANGED db /\ worker[w].at = "put" /\ Finish(w)
      BY <2>10 DEF PutBack, LeaveAfterPut, store
    <3>2. \A v \in Workers \ {w} : worker'[v] = worker[v]
      BY <3>1, WorkerBecomes DEF Becomes
    <3>3. AtWork(j) => AtWork(j)'
      BY <3>1, <3>2 DEF AtWork
    <3>4. "fifo" \in QueueNames
      BY DEF QueueNames
    <3>5. Queued("fifo", j) \/ NotQueued(j)
      BY <2>2, <2>10 DEF PutBack, PutDone
    <3>6. /\ \A k \in Jobs, q \in QueueNames : Waits(k, q) => Waits(k, q)'
          /\ \A k \in Jobs \ {j} : k \in unqueued => k \in unqueued'
          /\ Waits(j, "fifo")' \/ j \in unqueued'
      BY <3>4, <3>5, EnqueueEnds
    <3>7. Kept(j)
      <4>1. Tracked(j)'
        BY <3>4, <3>6 DEF Held, Tracked
      <4> QED
        BY <3>1, <3>3, <4>1 DEF Kept
    <3> QED
      BY <1>1, <2>2, <3>1, <3>2, <3>6, <3>7, OnJobSafe
  <2> QED
    BY <1>3, <1>4, <1>5, <2>5, <2>6, <2>7, <2>8, <2>9, <2>10 DEF JobStep
<1> QED
  BY <1>2, <1>5

-----------------------------------------------------------------------------
(* Recover and the sweepers *)

\* What a listing says of a job.
LEMMA Listed ==
  ASSUME TypeOK, NEW q, NEW j \in Jobs
  PROVE  /\ db[j].status = "pending" => ListFor("fifo")[j] = "pending"
         /\ db[j].status = "processing"
              => ListFor("fifo")[j] \in {"processing", "stuck"}
         /\ SweepListFor(q)[j] \in {"none", "pending", "stuck"}
         /\ SweepListFor(q)[j] = "stuck"
              => db[j].status = "processing" /\ db[j].age = "old"
<1>1. db[j] \in Row
  BY Shapes
<1>2. ListPendingJobs[j] =
        IF db[j].status = "processing" /\ db[j].age = "old" THEN "stuck"
        ELSE IF db[j].status \in {"pending", "processing"} THEN db[j].status
        ELSE "none"
  BY DEF ListPendingJobs
<1>3. \A r : ListFor(r)[j] = IF r = "priority" /\ QType[j] # r THEN "none"
                             ELSE ListPendingJobs[j]
  BY DEF ListFor
<1>4. SweepListFor(q)[j] = IF ListFor(q)[j] = "processing" THEN "none"
                           ELSE ListFor(q)[j]
  BY DEF SweepListFor
<1> QED
  BY <1>1, <1>2, <1>3, <1>4 DEF Row

\* Recover and the sweepers take nothing from anybody.
LEMMA ListingKeeps ==
  ASSUME NEW k \in Jobs, UNCHANGED <<worker, slot, api>>, db'[k] = db[k],
         k \in unqueued
           => k \in unqueued' \/ \E q \in QueueNames : Waits(k, q)',
         \A q \in QueueNames : Waits(k, q) => Waits(k, q)'
  PROVE  Kept(k)
<1>1. CASE k \in unqueued => k \in unqueued'
  BY <1>1, KeptBy DEF InHandler
<1>2. CASE \E q \in QueueNames : Waits(k, q)'
  <2>1. Tracked(k)'
    BY <1>2 DEF Held, Tracked
  <2> QED
    BY <2>1 DEF Kept, AtWork
<1> QED
  BY <1>1, <1>2

LEMMA BootSafe ==
  ASSUME SystemInv, RecoveryInv, Boot \/ RecoverNext
  PROVE  RecoveryInv'
<1> USE Shapes DEF SystemInv
<1>1. /\ todo \in [Listers -> [Jobs -> {"none", "pending", "processing", "stuck"}]]
      /\ "recover" \in Listers /\ QueueNames \subseteq Listers
      /\ "recover" \notin QueueNames
  BY TypeParts DEF PlainTypeOK, Listers, QueueNames
<1>2. UNCHANGED <<db, queue, worker, slot, unqueued, api, faults>>
  BY DEF Boot, RecoverNext, store
<1>3. \A k \in Jobs : Kept(k)
  BY <1>2, WaitsSame, ListingKeeps
<1>4. CASE Boot
  <2>1. /\ phase' = "recovering"
        /\ todo' = [todo EXCEPT !["recover"] = ListFor("fifo")]
    BY <1>4 DEF Boot
  <2>2. /\ todo'["recover"] = ListFor("fifo")
        /\ \A q \in QueueNames : todo'[q] = todo[q]
    BY <1>1, <2>1
  <2>3. ASSUME NEW k \in Jobs, Safe(k) PROVE Safe(k)'
    BY <1>2, <2>1, <2>2, <2>3, Listed DEF Safe
  <2> QED
    BY <1>2, <2>1, <2>3 DEF RecoveryInv, Unharmed
<1>5. CASE RecoverNext
  <2>1. /\ phase = "recovering" /\ todo["recover"] = NoList
        /\ phase' \in {"recovering", "serving"}
        /\ phase' # "recovering" => UNCHANGED todo
        /\ \A q \in QueueNames : todo'[q] = todo[q]
    BY <1>1, <1>5 DEF RecoverNext
  <2>2. \A k \in Jobs : todo["recover"][k] = "none"
    BY <2>1 DEF NoList
  <2>3. ASSUME NEW k \in Jobs, Safe(k) PROVE Safe(k)'
    <3>1. /\ db[k].status = "pending" => Tracked(k)
          /\ db[k].status = "processing" => AtWork(k) /\ db[k].age = "fresh"
          /\ \A q \in QueueNames : todo'[q][k] \in {"none", "pending"}
      BY <2>1, <2>2, <2>3 DEF Safe
    <3>2. Kept(k)
      BY <1>3
    <3> QED
      BY <2>1, <3>1, <3>2 DEF Safe, Kept
  <2> QED
    BY <1>2, <2>1, <2>3 DEF RecoveryInv, Unharmed
<1> QED
  BY <1>4, <1>5

LEMMA SweepSafe ==
  ASSUME SystemInv, RecoveryInv, NEW q \in QueueNames, SweepList(q)
  PROVE  RecoveryInv'
<1> USE Shapes DEF SystemInv
<1>1. /\ todo \in [Listers -> [Jobs -> {"none", "pending", "processing", "stuck"}]]
      /\ "recover" \in Listers /\ QueueNames \subseteq Listers
      /\ "recover" \notin QueueNames
  BY TypeParts DEF PlainTypeOK, Listers, QueueNames
<1>2. UNCHANGED <<db, queue, worker, slot, unqueued, api, faults, phase>>
  BY DEF SweepList, Sweeping, store
<1>3. /\ phase \notin {"down", "recovering"}
      /\ todo' = [todo EXCEPT ![q] = SweepListFor(q)]
  BY DEF SweepList
<1>4. /\ todo'["recover"] = todo["recover"]
      /\ \A r \in QueueNames :
           todo'[r] = IF r = q THEN SweepListFor(q) ELSE todo[r]
  BY <1>1, <1>3
<1>5. ASSUME NEW k \in Jobs, Safe(k) PROVE Safe(k)'
  <2>1. Kept(k)
    BY <1>2, WaitsSame, ListingKeeps
  <2>2. db[k].status = "processing" => db[k].age = "fresh"
    BY <1>3, <1>5 DEF Safe
  <2>3. SweepListFor(q)[k] \in {"none", "pending"}
    BY <2>2, Listed
  <2>4. \A r \in QueueNames : todo'[r][k] \in {"none", "pending"}
    BY <1>4, <1>5, <2>3 DEF Safe
  <2> QED
    BY <1>2, <1>3, <1>4, <1>5, <2>1, <2>4 DEF Safe, Kept
<1> QED
  BY <1>2, <1>4, <1>5 DEF RecoveryInv, Unharmed

\* One listed job is handled.
LEMMA HandleSafe ==
  ASSUME SystemInv, RecoveryInv, NEW l \in Listers, NEW j \in Jobs,
         \/ ResetListed(l, j)
         \/ \E q \in QueueNames : PutListed(l, j, q)
         \/ l \in QueueNames /\ SweepGivesUp(l, j)
  PROVE  RecoveryInv'
<1> USE Shapes DEF SystemInv
<1>1. /\ todo \in [Listers -> [Jobs -> {"none", "pending", "processing", "stuck"}]]
      /\ "recover" \in Listers /\ QueueNames \subseteq Listers
      /\ "recover" \notin QueueNames /\ Listers \subseteq QueueNames \cup {"recover"}
  BY TypeParts DEF PlainTypeOK, Listers, QueueNames
<1>2. UNCHANGED <<worker, slot, api, phase>> /\ todo[l][j] # "none"
  BY DEF ResetListed, PutListed, SweepGivesUp, NextFor, Sweeping
<1>3. phase # "recovering" => l # "recover"
  BY <1>2 DEF RecoveryInv, NoList
<1>4. PICK s \in {"none", "pending"} : Mark(l, j, s)
  BY DEF ResetListed, PutListed, SweepGivesUp
<1>5. /\ todo'[l][j] = s
      /\ \A m \in Listers \ {l} : todo'[m] = todo[m]
      /\ \A m \in Listers, k \in Jobs \ {j} : todo'[m][k] = todo[m][k]
      /\ \A m \in Listers \ {l}, k \in Jobs : todo'[m][k] = todo[m][k]
  BY <1>1, <1>4 DEF Mark
<1>6. phase' # "recovering" => todo'["recover"] = NoList
  BY <1>1, <1>2, <1>3, <1>5 DEF RecoveryInv
<1>7. ASSUME Unharmed' PROVE \A k \in Jobs : Safe(k)'
  <2>1. Unharmed
    <3>1. UNCHANGED faults \/ Fault("db")
      BY DEF ResetListed, PutListed, SweepGivesUp
    <3> QED
      BY <1>7, <3>1, FaultsGrow DEF FaultKinds, Unharmed
  <2>2. \A k \in Jobs : Safe(k)
    BY <2>1 DEF RecoveryInv
  <2>3. \A k \in Jobs \ {j} : ListedSame(k)
    BY <1>2, <1>5 DEF ListedSame
  <2>4. \A q \in QueueNames : todo'[q][j] \in {"none", "pending"}
    BY <1>1, <1>5, <2>2 DEF Safe
  <2>5. CASE ResetListed(l, j)
    <3>1. /\ UpdateJobStatus(j, "pending") /\ UNCHANGED <<queue, unqueued>>
          /\ todo[l][j] \in {"processing", "stuck"} /\ Mark(l, j, "pending")
      BY <2>5 DEF ResetListed
    <3>2. l = "recover" /\ phase = "recovering"
      BY <1>1, <1>3, <2>2, <3>1 DEF Safe
    <3>3. RowIs(j, "pending", db[j].retry)
      BY <3>1, RowEffect
    <3>4. todo'["recover"][j] = "pending"
      BY <1>1, <3>1, <3>2 DEF Mark
    <3>5. Safe(j)'
      BY <1>2, <2>4, <3>2, <3>3, <3>4 DEF Safe, RowIs
    <3>6. ASSUME NEW k \in Jobs \ {j} PROVE Safe(k)'
      <4>1. Kept(k)
        BY <1>2, <3>1, <3>3, WaitsSame, ListingKeeps DEF RowIs
      <4> QED
        BY <2>2, <2>3, <4>1, KeptSafe
    <3> QED
      BY <3>5, <3>6
  <2>6. ASSUME NEW q \in QueueNames, PutListed(l, j, q)
        PROVE  \A k \in Jobs : Safe(k)'
    <3>1. /\ UNCHANGED db /\ todo[l][j] = "pending"
          /\ Put(q, j) /\ unqueued' = unqueued \ {j}
      BY <2>6 DEF PutListed, Queued, store
    <3>2. /\ Waits(j, q)'
          /\ \A k \in Jobs, r \in QueueNames : Waits(k, r) => Waits(k, r)'
      BY <3>1, PutWaits
    <3>3. \A k \in Jobs : Kept(k)
      BY <1>2, <3>1, <3>2, ListingKeeps
    <3>4. ASSUME NEW k \in Jobs \ {j} PROVE Safe(k)'
      BY <2>2, <2>3, <3>3, KeptSafe
    <3>5. Safe(j)'
      <4>1. Tracked(j)'
        BY <3>2 DEF Held, Tracked
      <4>2. Safe(j) /\ Kept(j)
        BY <2>2, <3>3
      <4>3. todo["recover"][j] \in {"processing", "stuck"}
              => todo'["recover"][j] = todo["recover"][j]
        BY <1>1, <1>5, <3>1
      <4> QED
        BY <1>2, <2>4, <4>1, <4>2, <4>3 DEF Safe, Kept
    <3> QED
      BY <3>4, <3>5
  <2>7. CASE l \in QueueNames /\ SweepGivesUp(l, j)
    <3>1. UNCHANGED <<db, queue, unqueued>>
      BY <2>7 DEF SweepGivesUp, store
    <3>2. \A k \in Jobs : Kept(k)
      BY <1>2, <3>1, WaitsSame, ListingKeeps
    <3>3. ASSUME NEW k \in Jobs \ {j} PROVE Safe(k)'
      BY <2>2, <2>3, <3>2, KeptSafe
    <3>4. Safe(j)'
      <4>1. todo'["recover"][j] = todo["recover"][j]
        BY <1>1, <1>5, <2>7
      <4>2. Safe(j) /\ Kept(j)
        BY <2>2, <3>2
      <4> QED
        BY <1>2, <2>4, <4>1, <4>2 DEF Safe, Kept
    <3> QED
      BY <3>3, <3>4
  <2> QED
    BY <2>5, <2>6, <2>7
<1> QED
  BY <1>6, <1>7 DEF RecoveryInv

-----------------------------------------------------------------------------
(* The inductive invariant *)

LEMMA GrowSafe ==
  ASSUME SystemInv, RecoveryInv, NEW j \in Jobs, GrowOld(j)
  PROVE  RecoveryInv'
<1> USE Shapes DEF SystemInv
<1>1. UNCHANGED <<queue, worker, slot, unqueued, api, phase, todo, faults>>
  BY DEF GrowOld, mem
<1>2. db' = [db EXCEPT ![j] = [db[j] EXCEPT !.age = "old"]] /\ db[j] \in Row
  BY DEF GrowOld
<1>3. /\ db'[j].status = db[j].status
      /\ \A k \in Jobs \ {j} : db'[k] = db[k]
  BY <1>2 DEF Row
<1>4. db[j].status = "processing" /\ ~AtWork(j)
  BY DEF GrowOld, AtWork
<1>5. ASSUME NEW k \in Jobs, Safe(k) PROVE Safe(k)'
  <2>1. CASE k = j
    BY <1>1, <1>3, <1>4, <1>5, <2>1 DEF Safe
  <2>2. CASE k # j
    <3>1. Kept(k) /\ ListedSame(k)
      BY <1>1, <1>3, <2>2, WaitsSame, ListingKeeps DEF ListedSame
    <3> QED
      BY <1>5, <3>1, KeptSafe
  <2> QED
    BY <2>1, <2>2
<1> QED
  BY <1>1, <1>5 DEF RecoveryInv, Unharmed

\* Crash and shutdown.
LEMMA StopSafe ==
  ASSUME SystemInv, RecoveryInv,
         Crash \/ Stopped \/ Terminate \/ CloseQueues \/ StopPool
  PROVE  RecoveryInv'
<1> USE Shapes DEF SystemInv
<1>1. CASE Crash \/ Stopped
  <2>1. phase' = "down" /\ todo' = [l \in Listers |-> NoList]
    BY <1>1 DEF Crash, Stopped, Halt
  <2>2. /\ todo'["recover"] = NoList
        /\ \A q \in QueueNames, j \in Jobs : todo'[q][j] = "none"
    BY <2>1 DEF Listers, NoList
  <2> QED
    BY <2>1, <2>2 DEF RecoveryInv, Safe
<1>2. CASE Terminate \/ CloseQueues \/ StopPool
  <2>1. /\ UNCHANGED <<db, queue, worker, slot, api, todo>>
        /\ phase \notin {"recovering", "down"}
        /\ phase' \notin {"recovering", "serving"}
    BY <1>2 DEF Terminate, CloseQueues, StopPool, mem, store
  <2>2. Unharmed' => Unharmed
    BY <1>2, FaultsGrow
       DEF Terminate, CloseQueues, StopPool, FaultKinds, Unharmed
  <2>3. ASSUME NEW k \in Jobs, Safe(k) PROVE Safe(k)'
    <3>1. AtWork(k) => AtWork(k)'
      BY <2>1 DEF AtWork
    <3> QED
      BY <2>1, <2>3, <3>1 DEF Safe
  <2> QED
    BY <2>1, <2>2, <2>3 DEF RecoveryInv
<1> QED
  BY <1>1, <1>2

LEMMA RecoveryStep ==
  ASSUME SystemInv, RecoveryInv, [Next]_vars
  PROVE  RecoveryInv'
<1> USE DEF SystemInv
<1>1. ASSUME UNCHANGED <<todo, phase>>, Onward,
             Unharmed /\ Unharmed' => \A k \in Jobs : Safe(k)'
      PROVE  RecoveryInv'
  BY <1>1 DEF RecoveryInv, Onward, Unharmed
<1>2. ASSUME NEW j \in Jobs, ApiStep(j) PROVE RecoveryInv'
  BY <1>1, <1>2, ApiSafe, StaysCalm DEF RecoveryInv
<1>3. ASSUME NEW w \in Workers, PollStep(w) PROVE RecoveryInv'
  BY <1>1, <1>3, PollSafe, StaysCalm DEF RecoveryInv
<1>4. ASSUME NEW w \in Workers, JobStep(w) PROVE RecoveryInv'
  BY <1>1, <1>4, JobSafe, StaysCalm DEF RecoveryInv
<1>5. CASE Refill \/ UNCHANGED vars
  <2>1. UNCHANGED <<db, queue, worker, slot, unqueued, api, faults, todo,
                    phase>>
    BY <1>5 DEF Refill, Polling, vars, mem, store
  <2>2. \A k \in Jobs : Kept(k) /\ ListedSame(k)
    BY <2>1, WaitsSame, ListingKeeps DEF ListedSame
  <2>3. \A k \in Jobs : Safe(k) => Safe(k)'
    BY <2>2, KeptSafe
  <2> QED
    BY <2>1, <2>3 DEF RecoveryInv, Unharmed
<1>6. CASE ListStep
  <2>1. QueueNames \subseteq Listers
    BY DEF Listers
  <2> QED
    BY <1>6, <2>1, BootSafe, SweepSafe, HandleSafe DEF ListStep
<1> QED
  BY <1>2, <1>3, <1>4, <1>5, <1>6, GrowSafe, StopSafe, StepCases

LEMMA RecoveryInit ==
  Init => RecoveryInv
<1> SUFFICES ASSUME Init PROVE RecoveryInv
  OBVIOUS
<1>1. /\ todo["recover"] = NoList
      /\ \A j \in Jobs : \A q \in QueueNames : todo[q][j] = "none"
      /\ \A j \in Jobs : db[j].status = "none"
  BY DEF Init, Listers, NoList, NoRow
<1> QED
  BY <1>1 DEF RecoveryInv, Safe

LEMMA RecoveryInductive ==
  Spec => [](SystemInv /\ RecoveryInv)
<1>1. SystemInv /\ RecoveryInv /\ [Next]_vars => RecoveryInv'
  BY RecoveryStep
<1> QED
  BY <1>1, RecoveryInit, SystemInductive, PTL DEF Spec

LEMMA SafeIsHeld ==
  SystemInv /\ RecoveryInv => RecoveredIsHeld
<1> SUFFICES ASSUME SystemInv, RecoveryInv, phase = "serving",
                    faults["db"] + faults["panic"] = 0, NEW j \in Jobs,
                    \/ db[j].status = "pending" /\ j \notin unqueued
                    \/ db[j].status = "processing"
             PROVE  Places(j) # {}
  BY DEF RecoveredIsHeld, ListAllPendingJobs, GetProcessingJobs
<1>1. faults["db"] \in Nat /\ faults["panic"] \in Nat
  BY Shapes DEF SystemInv, FaultKinds
<1>2. Safe(j)
  BY <1>1 DEF RecoveryInv, Unharmed
<1>3. Held(j)
  BY <1>2 DEF Safe, Held, AtWork, Tracked
<1> QED
  BY <1>3, HeldHasPlace DEF SystemInv

\* A restart loses no job: whatever crashes, stops, retries, sweeps and
\* recoveries come in between, and however full the channels are, a server
\* that serves holds every job that is not over, but for the pending ones
\* whose Enqueue gave up, as long as no statement has failed and no processor
\* has panicked.
THEOREM RecoveryFindsAll ==
  Spec => []RecoveredIsHeld
BY RecoveryInductive, SafeIsHeld, PTL
=============================================================================
