-------------------------- MODULE JobSystemProofs ---------------------------
(***************************************************************************)
(* Proofs about JobSystem for any jobs, workers, sweepers and faults.      *)
(***************************************************************************)
EXTENDS JobSystem, JobOrderProofs

\* The steps at which a worker has a job in its hands.
Holding == {"token", "claimed", "running", "ack", "failed", "nack", "put"}

\* A worker has a job exactly at those steps, and a context only while the
\* job is registered.
WorkerShape ==
  \A w \in Workers :
    /\ worker[w].job # NoJob <=> worker[w].at \in Holding
    /\ worker[w].ctx # "none" => Registered(w)

\* Only super-urgent jobs ask for a preemption and wait in a slot.
UrgentOnly ==
  /\ \A j \in Jobs : api[j] = "saved" => Prio[j] = 3
  /\ \A w \in Workers : slot[w] # NoJob => Prio[slot[w]] = 3

SystemInv == TypeOK /\ WorkerShape /\ UrgentOnly /\ CanceledForUrgent

\* The steps of worker w that poll the queues or process a job.
PollStep(w) ==
  \/ TakeSlot(w)
  \/ \E j \in Jobs : TakePriority(w, j) \/ TakeLimited(w, j) \/ TakeFifo(w, j)
  \/ PriorityMiss(w) \/ LimitedMiss(w) \/ FifoMiss(w)
  \/ TakeToken(w) \/ Exit(w)

JobStep(w) ==
  \/ StartProcessing(w) \/ Deadline(w)
  \/ \E s \in {"ack", "failed"} : ProcessReturns(w, s)
  \/ Panic(w) \/ Restart(w)
  \/ Ack(w) \/ RequeuePreempted(w)
  \/ NackRead(w) \/ NackWrite(w)
  \/ PutBack(w) \/ StoreFails(w)

\* The steps of the handlers of job j.
ApiStep(j) ==
  \/ CreateJob(j) \/ HandlerFails(j) \/ RetryJob(j)
  \/ \E w \in Workers : Preempt(j, w)
  \/ NoPreemption(j)
  \/ \E q \in QueueNames : HandlerEnqueue(j, q)

\* The steps that read the table again and act on what they have read.
ListStep ==
  \/ Boot \/ RecoverNext
  \/ \E q \in QueueNames : SweepList(q)
  \/ \E l \in Listers, j \in Jobs :
       ResetListed(l, j) \/ \E q \in QueueNames : PutListed(l, j, q)
  \/ \E q \in QueueNames, j \in Jobs : SweepGivesUp(q, j)

LEMMA StepCases ==
  ASSUME TypeOK, [Next]_vars
  PROVE  \/ UNCHANGED vars
         \/ \E j \in Jobs : ApiStep(j) \/ GrowOld(j)
         \/ \E w \in Workers : PollStep(w) \/ JobStep(w)
         \/ Refill
         \/ ListStep
         \/ Crash \/ Terminate \/ CloseQueues \/ StopPool \/ Stopped
<1>1. Sweepers \subseteq QueueNames /\ QueueNames \subseteq Listers
      /\ "recover" \in Listers /\ rec \in QueueNames
  BY SystemAssumption DEF Listers, TypeOK
<1>2. ASSUME NEW j \in Jobs,
             CreateJob(j) \/ HandlerFails(j) \/ RetryJob(j) \/ HandlerStep(j)
      PROVE  ApiStep(j)
  BY <1>2 DEF ApiStep, HandlerStep
<1>3. ASSUME NEW w \in Workers,
             WorkerStep(w) \/ Deadline(w) \/ Panic(w) \/ StoreFails(w)
      PROVE  PollStep(w) \/ JobStep(w)
  BY <1>3 DEF WorkerStep, TakeJob, Miss, ProcessJob, PollStep, JobStep
<1>4. ASSUME NEW q \in Sweepers,
             SweepList(q) \/ \E j \in Jobs : SweepStep(q, j)
      PROVE  ListStep
  BY <1>1, <1>4 DEF SweepStep, ListStep
<1>5. ASSUME MainStep
      PROVE  ListStep \/ CloseQueues \/ StopPool \/ Stopped
  BY <1>1, <1>5 DEF MainStep, RecoverStep, ListStep
<1> QED
  BY <1>2, <1>3, <1>4, <1>5 DEF Next

\* What a statement leaves in the table.
LEMMA StoreTyping ==
  ASSUME StoreTypeOK, NEW j \in Jobs,
         \/ SaveJob(j)
         \/ UpdateJobStatus(j, "pending") \/ UpdateJobStatus(j, "processing")
         \/ UpdateJobStatus(j, "completed")
         \/ Requeue(j)
         \/ ResetForRetry(j)
         \/ \E s \in {"pending", "failed"}, n \in Nat : UpdateJobRetry(j, s, n)
         \/ UNCHANGED store
  PROVE  StoreTypeOK'
<1> USE StoreAssumption DEF StoreTypeOK
<1>1. ASSUME NEW k \in Counters, Count(k)
      PROVE  counter' \in [Counters -> 0..CountTo]
  BY <1>1 DEF Count
<1>2. ASSUME NEW r \in Row, db' = [db EXCEPT ![j] = r]
      PROVE  db' \in [Jobs -> Row]
  BY <1>2
<1>3. CASE SaveJob(j)
  <2>1. [status |-> "pending", retry |-> 0, max |-> MaxRetries,
         age |-> "fresh"] \in Row
    BY DEF Row, Status
  <2> QED
    BY <1>2, <1>3, <2>1 DEF SaveJob
<1>4. ASSUME NEW s \in {"pending", "processing", "completed"},
             UpdateJobStatus(j, s)
      PROVE  StoreTypeOK'
  <2>1. counter' \in [Counters -> 0..CountTo]
    BY <1>1, <1>4 DEF UpdateJobStatus
  <2>2. db' = [db EXCEPT ![j] = [db[j] EXCEPT !.status = s, !.age = "fresh"]]
    BY <1>4 DEF UpdateJobStatus
  <2>3. [db[j] EXCEPT !.status = s, !.age = "fresh"] \in Row
    BY DEF Row, Status
  <2> QED
    BY <1>2, <2>1, <2>2, <2>3
<1>5. CASE Requeue(j)
  <2>1. db' = [db EXCEPT ![j] = [db[j] EXCEPT !.status = "pending",
                                             !.age = "fresh"]]
    BY <1>5 DEF Requeue
  <2>2. [db[j] EXCEPT !.status = "pending", !.age = "fresh"] \in Row
    BY DEF Row, Status
  <2> QED
    BY <1>2, <1>5, <2>1, <2>2 DEF Requeue
<1>6. CASE ResetForRetry(j)
  <2>1. PICK n \in Nat : Revived(j, n)
    BY <1>6 DEF ResetForRetry, Row
  <2>2. db' = [db EXCEPT ![j] = [db[j] EXCEPT !.status = "pending",
                 !.age = "fresh", !.max = @ + ExtraRetries, !.retry = n]]
    BY <2>1 DEF Revived
  <2>3. [db[j] EXCEPT !.status = "pending", !.age = "fresh",
                      !.max = @ + ExtraRetries, !.retry = n] \in Row
    <3>1. db[j].max + ExtraRetries \in Nat
      BY DEF Row
    <3> QED
      BY <3>1 DEF Row, Status
  <2> QED
    BY <1>2, <2>1, <2>2, <2>3 DEF Revived
<1>7. ASSUME NEW s \in {"pending", "failed"}, NEW n \in Nat,
             UpdateJobRetry(j, s, n)
      PROVE  StoreTypeOK'
  <2>1. counter' \in [Counters -> 0..CountTo]
    BY <1>1, <1>7 DEF UpdateJobRetry, Counters
  <2>2. db' = [db EXCEPT ![j] = [db[j] EXCEPT !.status = s, !.retry = n,
                                             !.age = "fresh"]]
    BY <1>7 DEF UpdateJobRetry
  <2>3. [db[j] EXCEPT !.status = s, !.retry = n, !.age = "fresh"] \in Row
    BY DEF Row, Status
  <2> QED
    BY <1>2, <2>1, <2>2, <2>3
<1>8. CASE UNCHANGED store
  BY <1>8 DEF store
<1> QED
  BY <1>3, <1>4, <1>5, <1>6, <1>7, <1>8

\* What a put or a take leaves in the queues.
LEMMA QueueTyping ==
  ASSUME queue \in [QueueNames -> Seq(Jobs)], NEW q \in QueueNames, NEW j,
         (j \in Jobs /\ Put(q, j)) \/ Take(q, j) \/ UNCHANGED queue
  PROVE  queue' \in [QueueNames -> Seq(Jobs)]
<1>1. CASE j \in Jobs /\ Put(q, j)
  <2>1. InsertSorted(queue[q], j) \in Seq(Jobs)
    BY <1>1, InsertEntries
  <2> QED
    BY <1>1, <2>1 DEF Put
<1>2. CASE Take(q, j)
  BY <1>2 DEF Take
<1> QED
  BY <1>1, <1>2

\* The records a worker can be.
WorkerRecord ==
  [at : Steps, job : Jobs \cup {NoJob},
   ctx : {"none", "live", "canceled", "deadline"}, retry : Nat, max : Nat]

LEMMA WorkerTyping ==
  ASSUME TypeOK, NEW w \in Workers,
         \/ \E s \in Steps : Goto(w, s)
         \/ \E s \in Steps, j \in Jobs : Holds(w, j, s)
         \/ \E s \in Steps : worker' = [worker EXCEPT ![w] = [Idle EXCEPT !.at = s]]
         \/ Finish(w)
         \/ worker' = [worker EXCEPT ![w].at = "running", ![w].ctx = "live"]
         \/ \E c \in {"live", "canceled", "deadline"} :
              worker' = [worker EXCEPT ![w].ctx = c]
         \/ \E m, n \in Nat :
              worker' = [worker EXCEPT ![w].at = "nack", ![w].retry = m,
                                       ![w].max = n]
         \/ UNCHANGED worker
  PROVE  worker' \in [Workers -> WorkerRecord]
<1>1. worker \in [Workers -> WorkerRecord] /\ worker[w] \in WorkerRecord
  BY DEF TypeOK, WorkerRecord
<1>2. ASSUME NEW r \in WorkerRecord, worker' = [worker EXCEPT ![w] = r]
      PROVE  worker' \in [Workers -> WorkerRecord]
  BY <1>1, <1>2
<1>3. ASSUME NEW s \in Steps, Goto(w, s)
      PROVE  \E r \in WorkerRecord : worker' = [worker EXCEPT ![w] = r]
  <2>1. [worker[w] EXCEPT !.at = s] \in WorkerRecord
    BY <1>1 DEF WorkerRecord
  <2>2. worker' = [worker EXCEPT ![w] = [worker[w] EXCEPT !.at = s]]
    BY <1>1, <1>3 DEF Goto
  <2> QED
    BY <2>1, <2>2
<1>4. ASSUME NEW s \in Steps, NEW j \in Jobs, Holds(w, j, s)
      PROVE  \E r \in WorkerRecord : worker' = [worker EXCEPT ![w] = r]
  <2>1. [worker[w] EXCEPT !.at = s, !.job = j] \in WorkerRecord
    BY <1>1 DEF WorkerRecord
  <2>2. worker' = [worker EXCEPT ![w] = [worker[w] EXCEPT !.at = s, !.job = j]]
    BY <1>1, <1>4 DEF Holds
  <2> QED
    BY <2>1, <2>2
<1>5. ASSUME NEW s \in Steps PROVE [Idle EXCEPT !.at = s] \in WorkerRecord
  BY DEF WorkerRecord, Idle
<1>6. Idle \in WorkerRecord
  BY DEF WorkerRecord, Idle, Steps
<1>7. [worker[w] EXCEPT !.at = "running", !.ctx = "live"] \in WorkerRecord
  BY <1>1 DEF WorkerRecord, Steps
<1>8. ASSUME worker' = [worker EXCEPT ![w].at = "running", ![w].ctx = "live"]
      PROVE  worker' = [worker EXCEPT ![w] =
                          [worker[w] EXCEPT !.at = "running", !.ctx = "live"]]
  BY <1>1, <1>8
<1>9. ASSUME NEW c \in {"live", "canceled", "deadline"},
             worker' = [worker EXCEPT ![w].ctx = c]
      PROVE  \E r \in WorkerRecord : worker' = [worker EXCEPT ![w] = r]
  <2>1. [worker[w] EXCEPT !.ctx = c] \in WorkerRecord
    BY <1>1 DEF WorkerRecord
  <2>2. worker' = [worker EXCEPT ![w] = [worker[w] EXCEPT !.ctx = c]]
    BY <1>1, <1>9
  <2> QED
    BY <2>1, <2>2
<1>10. ASSUME NEW m \in Nat, NEW n \in Nat,
              worker' = [worker EXCEPT ![w].at = "nack", ![w].retry = m,
                                       ![w].max = n]
       PROVE  \E r \in WorkerRecord : worker' = [worker EXCEPT ![w] = r]
  <2>1. [worker[w] EXCEPT !.at = "nack", !.retry = m, !.max = n]
          \in WorkerRecord
    BY <1>1 DEF WorkerRecord, Steps
  <2>2. worker' = [worker EXCEPT ![w] =
                     [worker[w] EXCEPT !.at = "nack", !.retry = m, !.max = n]]
    BY <1>1, <1>10
  <2> QED
    BY <2>1, <2>2
<1> QED
  BY <1>1, <1>2, <1>3, <1>4, <1>5, <1>6, <1>7, <1>8, <1>9, <1>10 DEF Finish

\* The variables that are neither table, queues nor workers.
PlainTypeOK ==
  /\ tokens \in 0..Burst
  /\ phase \in Phases
  /\ rec \in QueueNames
  /\ todo \in [Listers -> [Jobs -> {"none", "pending", "processing", "stuck"}]]
  /\ slot \in [Workers -> Jobs \cup {NoJob}]
  /\ unqueued \subseteq Jobs
  /\ api \in [Jobs -> {"new", "saved", "enqueue", "retry", "created", "error"}]
  /\ faults \in [FaultKinds -> Nat]
  /\ fails \in [Jobs -> Nat]

LEMMA TypeParts ==
  /\ TypeOK <=> /\ StoreTypeOK
                /\ queue \in [QueueNames -> Seq(Jobs)]
                /\ worker \in [Workers -> WorkerRecord]
                /\ PlainTypeOK
  /\ TypeOK' <=> /\ StoreTypeOK'
                 /\ queue' \in [QueueNames -> Seq(Jobs)]
                 /\ worker' \in [Workers -> WorkerRecord]
                 /\ PlainTypeOK'
  BY DEF TypeOK, RouterTypeOK, WorkerRecord, PlainTypeOK

LEMMA FaultTyping ==
  ASSUME TypeOK,
         Fault("crash") \/ Fault("panic") \/ Fault("db") \/ Fault("stop")
           \/ Fault("retry") \/ UNCHANGED faults
  PROVE  faults' \in [FaultKinds -> Nat]
<1>1. ASSUME NEW k \in FaultKinds, Fault(k)
      PROVE  faults' \in [FaultKinds -> Nat]
  BY <1>1 DEF Fault, TypeOK
<1>2. {"crash", "panic", "db", "stop", "retry"} \subseteq FaultKinds
  BY DEF FaultKinds
<1> QED
  BY <1>1, <1>2 DEF TypeOK

\* The handlers.
LEMMA ApiTyping ==
  ASSUME TypeOK, NEW j \in Jobs, ApiStep(j)
  PROVE  TypeOK'
<1> USE TypeParts
<1>1. StoreTypeOK'
  <2>1. \/ SaveJob(j) \/ ResetForRetry(j) \/ UNCHANGED store
    BY DEF ApiStep, CreateJob, HandlerFails, RetryJob, Preempt, CancelFirst,
           NoPreemption, HandlerEnqueue
  <2> QED
    BY <2>1, StoreTyping
<1>2. queue' \in [QueueNames -> Seq(Jobs)]
  <2>1. \/ \E q \in QueueNames : Put(q, j)
        \/ UNCHANGED queue
    BY DEF ApiStep, CreateJob, HandlerFails, RetryJob, Preempt, CancelFirst,
           NoPreemption, HandlerEnqueue, Queued, NotQueued, mem
  <2> QED
    BY <2>1, QueueTyping
<1>3. worker' \in [Workers -> WorkerRecord]
  <2>1. ASSUME NEW w \in Workers, Preempt(j, w)
        PROVE  worker' \in [Workers -> WorkerRecord]
    <3>1. Registered(w) /\ worker[w] \in WorkerRecord
      BY <2>1 DEF Preempt, CancelFirst, Preemptable
    <3>2. CASE worker[w].ctx = "live"
      BY <2>1, <3>2, WorkerTyping DEF Preempt, CancelFirst
    <3>3. CASE worker[w].ctx # "live"
      <4>1. worker' = [worker EXCEPT ![w] = worker[w]]
        BY <2>1, <3>1, <3>3 DEF Preempt, CancelFirst, WorkerRecord
      <4> QED
        BY <3>1, <4>1
    <3> QED
      BY <3>2, <3>3
  <2>2. UNCHANGED worker \/ \E w \in Workers : Preempt(j, w)
    BY DEF ApiStep, CreateJob, HandlerFails, RetryJob, NoPreemption,
           HandlerEnqueue, mem
  <2> QED
    BY <2>1, <2>2
<1>4. PlainTypeOK'
  <2> USE DEF PlainTypeOK
  <2>1. CASE CreateJob(j) \/ NoPreemption(j)
    BY <2>1 DEF CreateJob, NoPreemption, Reply, mem
  <2>2. CASE HandlerFails(j) \/ RetryJob(j)
    <3>1. /\ \E r \in {"error", "retry"} : Reply(j, r)
          /\ UNCHANGED <<tokens, phase, rec, todo, slot, unqueued, fails>>
      BY <2>2 DEF HandlerFails, RetryJob, mem
    <3>2. faults' \in [FaultKinds -> Nat]
      BY <2>2, FaultTyping DEF HandlerFails, RetryJob
    <3> QED
      BY <3>1, <3>2 DEF Reply
  <2>3. ASSUME NEW w \in Workers, Preempt(j, w) PROVE PlainTypeOK'
    BY <2>3 DEF Preempt, CancelFirst, Reply
  <2>4. ASSUME NEW q \in QueueNames, HandlerEnqueue(j, q) PROVE PlainTypeOK'
    <3>1. unqueued' \subseteq Jobs
      BY <2>4 DEF HandlerEnqueue, Queued, NotQueued
    <3> QED
      BY <2>4, <3>1 DEF HandlerEnqueue, Reply
  <2> QED
    BY <2>1, <2>2, <2>3, <2>4 DEF ApiStep
<1> QED
  BY <1>1, <1>2, <1>3, <1>4

\* Polling.
LEMMA PollTyping ==
  ASSUME TypeOK, NEW w \in Workers, PollStep(w)
  PROVE  TypeOK'
<1> USE TypeParts
<1>1. UNCHANGED <<store, todo, unqueued, phase, rec, api, faults, fails>>
  BY DEF PollStep, TakeSlot, ReadSlot, TakePriority, TakeLimited, TakeFifo,
         PriorityMiss, LimitedMiss, FifoMiss, TakeToken, Exit, Polling
<1>2. StoreTypeOK'
  BY <1>1 DEF StoreTypeOK, store
<1>3. queue' \in [QueueNames -> Seq(Jobs)]
  <2>1. \/ UNCHANGED queue
        \/ \E q \in QueueNames, j \in Jobs : Take(q, j)
    BY DEF PollStep, TakeSlot, ReadSlot, TakePriority, TakeLimited, TakeFifo,
           PriorityMiss, LimitedMiss, FifoMiss, TakeToken, Exit, QueueNames
  <2> QED
    BY <2>1, QueueTyping
<1>4. worker' \in [Workers -> WorkerRecord]
  <2>1. slot[w] \in Jobs \cup {NoJob}
    BY DEF PlainTypeOK
  <2>2. \/ \E s \in Steps : Goto(w, s)
        \/ \E s \in Steps, j \in Jobs : Holds(w, j, s)
    BY <2>1 DEF PollStep, TakeSlot, ReadSlot, TakePriority, TakeLimited,
         TakeFifo, PriorityMiss, LimitedMiss, FifoMiss, TakeToken, Exit, Steps
  <2> QED
    BY <2>2, WorkerTyping
<1>5. tokens' \in 0..Burst
  <2>1. UNCHANGED tokens \/ SpendToken
    BY DEF PollStep, TakeSlot, ReadSlot, TakePriority, TakeLimited, TakeFifo,
           PriorityMiss, LimitedMiss, FifoMiss, TakeToken, Exit
  <2> QED
    BY <2>1, RouterAssumption DEF SpendToken, PlainTypeOK
<1>6. slot' \in [Workers -> Jobs \cup {NoJob}]
  BY DEF PollStep, TakeSlot, ReadSlot, TakePriority, TakeLimited, TakeFifo,
         PriorityMiss, LimitedMiss, FifoMiss, TakeToken, Exit, PlainTypeOK
<1> QED
  BY <1>1, <1>2, <1>3, <1>4, <1>5, <1>6 DEF PlainTypeOK

\* A worker that has a job in its hands: the job is one.
LEMMA HeldIsJob ==
  ASSUME TypeOK, WorkerShape, NEW w \in Workers, worker[w].at \in Holding
  PROVE  worker[w].job \in Jobs
  BY TypeParts DEF WorkerShape, WorkerRecord

\* Processing.
LEMMA JobTyping ==
  ASSUME TypeOK, WorkerShape, NEW w \in Workers, JobStep(w)
  PROVE  TypeOK'
<1> USE TypeParts
<1>1. UNCHANGED <<tokens, todo, slot, phase, rec, api>>
  BY DEF JobStep, StartProcessing, Deadline, ProcessReturns, Panic, Restart,
         Ack, RequeuePreempted, Preempted, NackRead, NackWrite, WriteCounter,
         PutBack, LeaveAfterPut, StoreFails, Working
<1>2. Restart(w) \/ worker[w].job \in Jobs
  <2>1. Restart(w) \/ worker[w].at \in Holding
    BY DEF JobStep, StartProcessing, Deadline, ProcessReturns, Panic,
           Ack, RequeuePreempted, Preempted, NackRead, NackWrite, WriteCounter,
           PutBack, LeaveAfterPut, StoreFails, Holding
  <2>2. ASSUME worker[w].at \in Holding PROVE worker[w].job \in Jobs
    BY <2>2, HeldIsJob
  <2> QED
    BY <2>1, <2>2
<1>3. worker[w] \in WorkerRecord
  OBVIOUS
<1>4. StoreTypeOK'
  <2>1. CASE Restart(w)
    BY <2>1 DEF Restart, StoreTypeOK, store
  <2>2. CASE worker[w].job \in Jobs
    <3> DEFINE j == worker[w].job
    <3>1. worker[w].retry \in Nat
      BY <1>3 DEF WorkerRecord
    <3>2. \/ UpdateJobStatus(j, "processing") \/ UpdateJobStatus(j, "completed")
          \/ Requeue(j)
          \/ \E s \in {"pending", "failed"} : UpdateJobRetry(j, s, worker[w].retry)
          \/ UNCHANGED store
      BY DEF JobStep, StartProcessing, Deadline, ProcessReturns, Panic, Restart,
         Ack, RequeuePreempted, Preempted, NackRead, NackWrite, WriteCounter,
         PutBack, LeaveAfterPut, StoreFails
    <3> QED
      BY <2>2, <3>1, <3>2, StoreTyping
  <2> QED
    BY <1>2, <2>1, <2>2
<1>5. queue' \in [QueueNames -> Seq(Jobs)]
  <2>1. UNCHANGED queue \/ PutBack(w)
    BY DEF JobStep, StartProcessing, Deadline, ProcessReturns, Panic, Restart,
         Ack, RequeuePreempted, Preempted, NackRead, NackWrite, WriteCounter,
         StoreFails
  <2>2. ASSUME PutBack(w)
        PROVE  worker[w].at = "put" /\ (UNCHANGED queue \/ PutDone(w))
    BY <2>2 DEF PutBack, LeaveAfterPut, NotQueued
  <2> QED
    BY <2>1, <2>2, HeldIsJob, QueueTyping
       DEF PutDone, Queued, QueueNames, Holding
<1>6. worker' \in [Workers -> WorkerRecord]
  <2>1. CASE NackRead(w)
    <3>1. /\ db[worker[w].job].retry + 1 \in Nat
          /\ db[worker[w].job].max \in Nat
      BY <1>2, <2>1 DEF NackRead, Restart, StoreTypeOK, Row
    <3> QED
      BY <2>1, <3>1, WorkerTyping DEF NackRead
  <2>2. CASE ~NackRead(w)
    <3>1. \/ \E s \in Steps : Goto(w, s)
          \/ worker' = [worker EXCEPT ![w] = [Idle EXCEPT !.at = "dead"]]
          \/ Finish(w)
          \/ worker' = [worker EXCEPT ![w].at = "running", ![w].ctx = "live"]
          \/ worker' = [worker EXCEPT ![w].ctx = "deadline"]
      BY <2>2 DEF JobStep, StartProcessing, Deadline, ProcessReturns, Panic,
         Restart, Ack, RequeuePreempted, Preempted, NackWrite, WriteCounter,
         PutBack, LeaveAfterPut, StoreFails, Steps
    <3>2. "dead" \in Steps
      BY DEF Steps
    <3> QED
      BY <3>1, <3>2, WorkerTyping
  <2> QED
    BY <2>1, <2>2
<1>7. faults' \in [FaultKinds -> Nat]
  <2>1. UNCHANGED faults \/ Fault("db") \/ Fault("panic")
    BY DEF JobStep, StartProcessing, Deadline, ProcessReturns, Panic, Restart,
         Ack, RequeuePreempted, Preempted, NackRead, NackWrite, WriteCounter,
         PutBack, LeaveAfterPut, StoreFails
  <2> QED
    BY <2>1, FaultTyping
<1>8. fails' \in [Jobs -> Nat]
  <2>1. UNCHANGED fails \/ NackWrite(w)
    BY DEF JobStep, StartProcessing, Deadline, ProcessReturns, Panic, Restart,
         Ack, RequeuePreempted, Preempted, NackRead, 
         PutBack, LeaveAfterPut, StoreFails
  <2>2. CASE NackWrite(w)
    <3> DEFINE j == worker[w].job
               n == IF fails[j] < CountTo THEN fails[j] + 1 ELSE fails[j]
    <3>1. j \in Jobs
      BY <2>2, HeldIsJob DEF NackWrite, WriteCounter, Holding
    <3>2. fails \in [Jobs -> Nat] /\ n \in Nat
      BY <3>1, StoreAssumption DEF PlainTypeOK
    <3>3. fails' = [fails EXCEPT ![j] = n]
      BY <2>2 DEF NackWrite, WriteCounter
    <3> QED
      BY <3>1, <3>2, <3>3
  <2> QED
    BY <2>1, <2>2 DEF PlainTypeOK
<1>9. unqueued' \subseteq Jobs
  <2>1. UNCHANGED unqueued \/ PutBack(w)
    BY DEF JobStep, StartProcessing, Deadline, ProcessReturns, Panic, Restart,
         Ack, RequeuePreempted, Preempted, NackRead, NackWrite, WriteCounter,
         StoreFails, Working
  <2>2. CASE PutBack(w)
    <3>1. worker[w].job \in Jobs
      BY <2>2, HeldIsJob DEF PutBack, LeaveAfterPut, Holding
    <3> QED
      BY <2>2, <3>1 DEF PutBack, PutDone, Queued, NotQueued, PlainTypeOK
  <2> QED
    BY <2>1, <2>2 DEF PlainTypeOK
<1> QED
  BY <1>1, <1>4, <1>5, <1>6, <1>7, <1>8, <1>9 DEF PlainTypeOK

\* What a listing holds.
LEMMA ListingTyping ==
  ASSUME StoreTypeOK, NEW q
  PROVE  /\ ListFor(q) \in [Jobs -> {"none", "pending", "processing", "stuck"}]
         /\ SweepListFor(q)
              \in [Jobs -> {"none", "pending", "processing", "stuck"}]
<1>1. ListPendingJobs \in [Jobs -> {"none", "pending", "processing", "stuck"}]
  BY DEF ListPendingJobs
<1>2. ListFor(q) \in [Jobs -> {"none", "pending", "processing", "stuck"}]
  BY <1>1 DEF ListFor
<1> QED
  BY <1>2 DEF SweepListFor

\* Recovery and sweeps.
LEMMA ListTyping ==
  ASSUME TypeOK, ListStep
  PROVE  TypeOK'
<1> USE TypeParts
<1>1. UNCHANGED <<tokens, worker, slot, api, fails>>
  BY DEF ListStep, Boot, RecoverNext, SweepList, ResetListed, PutListed,
         SweepGivesUp, Sweeping
<1>2. StoreTypeOK'
  <2>1. UNCHANGED store \/ \E j \in Jobs : UpdateJobStatus(j, "pending")
    BY DEF ListStep, Boot, RecoverNext, SweepList, ResetListed, PutListed,
           SweepGivesUp
  <2> QED
    BY <2>1, StoreTyping DEF StoreTypeOK, store
<1>3. queue' \in [QueueNames -> Seq(Jobs)]
  <2>1. UNCHANGED queue \/ \E q \in QueueNames, j \in Jobs : Put(q, j)
    BY DEF ListStep, Boot, RecoverNext, SweepList, ResetListed, PutListed,
           Queued, SweepGivesUp
  <2> QED
    BY <2>1, QueueTyping
<1>4. phase' \in Phases /\ rec' \in QueueNames
  BY DEF ListStep, Boot, RecoverNext, SweepList, ResetListed, PutListed,
         SweepGivesUp, Sweeping, PlainTypeOK, Phases, QueueNames
<1>5. faults' \in [FaultKinds -> Nat]
  <2>1. UNCHANGED faults \/ Fault("db")
    BY DEF ListStep, Boot, RecoverNext, SweepList, ResetListed, PutListed,
           SweepGivesUp
  <2> QED
    BY <2>1, FaultTyping
<1>6. todo' \in [Listers -> [Jobs -> {"none", "pending", "processing", "stuck"}]]
  <2> DEFINE T == [Jobs -> {"none", "pending", "processing", "stuck"}]
  <2>1. todo \in [Listers -> T] /\ QueueNames \subseteq Listers
    BY DEF PlainTypeOK, Listers
  <2>2. ASSUME NEW l \in Listers, NEW t \in T, todo' = [todo EXCEPT ![l] = t]
        PROVE  todo' \in [Listers -> T]
    BY <2>1, <2>2
  <2>3. ASSUME NEW l \in Listers, NEW j \in Jobs, NEW s \in {"pending", "none"},
               Mark(l, j, s)
        PROVE  todo' \in [Listers -> T]
    <3>1. todo' = [todo EXCEPT ![l] = [todo[l] EXCEPT ![j] = s]]
      BY <2>1, <2>3 DEF Mark
    <3>2. [todo[l] EXCEPT ![j] = s] \in T
      BY <2>1
    <3> QED
      BY <2>2, <3>1, <3>2
  <2>4. ASSUME NEW q \in QueueNames
        PROVE  ListFor(q) \in T /\ SweepListFor(q) \in T
    BY ListingTyping
  <2> SUFFICES todo' \in [Listers -> T]
    OBVIOUS
  <2> HIDE DEF T
  <2>5. CASE Boot \/ RecoverNext
    <3>1. \/ UNCHANGED todo
          \/ \E q \in QueueNames : todo' = [todo EXCEPT !["recover"] = ListFor(q)]
      <4>1. CASE Boot
        BY <4>1 DEF Boot, QueueNames
      <4>2. CASE RecoverNext
        BY <4>2, <1>4 DEF RecoverNext
      <4> QED
        BY <2>5, <4>1, <4>2
    <3> QED
      <4>1. "recover" \in Listers
        BY DEF Listers
      <4> QED
        BY <2>1, <2>2, <2>4, <3>1, <4>1
  <2>6. ASSUME NEW q \in QueueNames, SweepList(q) PROVE todo' \in [Listers -> T]
    BY <2>1, <2>2, <2>4, <2>6 DEF SweepList
  <2>7. ASSUME NEW l \in Listers, NEW j \in Jobs,
               ResetListed(l, j) \/ \E q \in QueueNames : PutListed(l, j, q)
        PROVE  todo' \in [Listers -> T]
    BY <2>3, <2>7 DEF ResetListed, PutListed
  <2>8. ASSUME NEW q \in QueueNames, NEW j \in Jobs, SweepGivesUp(q, j)
        PROVE  todo' \in [Listers -> T]
    BY <2>1, <2>3, <2>8 DEF SweepGivesUp
  <2> QED
    BY <2>5, <2>6, <2>7, <2>8 DEF ListStep
<1>7. unqueued' \subseteq Jobs
  BY DEF ListStep, Boot, RecoverNext, SweepList, ResetListed, PutListed,
         Queued, SweepGivesUp, PlainTypeOK
<1> QED
  BY <1>1, <1>2, <1>3, <1>4, <1>5, <1>6, <1>7 DEF PlainTypeOK

\* Refill, the passing of time, and the life of the process.
LEMMA OtherTyping ==
  ASSUME TypeOK,
         \/ \E j \in Jobs : GrowOld(j)
         \/ Refill
         \/ Crash \/ Terminate \/ CloseQueues \/ StopPool \/ Stopped
         \/ UNCHANGED vars
  PROVE  TypeOK'
<1> USE TypeParts
<1>1. ASSUME NEW j \in Jobs, GrowOld(j) PROVE TypeOK'
  <2>1. db' = [db EXCEPT ![j] = [db[j] EXCEPT !.age = "old"]]
    BY <1>1 DEF GrowOld, StoreTypeOK
  <2>2. [db[j] EXCEPT !.age = "old"] \in Row
    BY DEF StoreTypeOK, Row
  <2>3. StoreTypeOK'
    BY <1>1, <2>1, <2>2 DEF StoreTypeOK, GrowOld
  <2> QED
    BY <1>1, <2>3 DEF GrowOld, mem, PlainTypeOK
<1>2. CASE Refill
  <2>1. tokens' \in 0..Burst
    BY <1>2, RouterAssumption DEF Refill, AddToken, PlainTypeOK
  <2>2. StoreTypeOK'
    BY <1>2 DEF Refill, Polling, StoreTypeOK, store
  <2> QED
    BY <1>2, <2>1, <2>2 DEF Refill, Polling, PlainTypeOK
<1>3. ASSUME Halt, faults' \in [FaultKinds -> Nat] PROVE TypeOK'
  <2>1. StoreTypeOK'
    BY <1>3, StoreAssumption DEF Halt, StoreTypeOK, NoCounts
  <2>2. queue' \in [QueueNames -> Seq(Jobs)]
    BY <1>3 DEF Halt, EmptyQueues
  <2>3. worker' \in [Workers -> WorkerRecord]
    <3>1. Idle \in WorkerRecord
      BY DEF WorkerRecord, Idle, Steps
    <3> QED
      BY <1>3, <3>1 DEF Halt
  <2>4. todo' \in [Listers -> [Jobs -> {"none", "pending", "processing", "stuck"}]]
    BY <1>3 DEF Halt, NoList
  <2>5. tokens' \in 0..Burst
    BY <1>3, RouterAssumption DEF Halt
  <2>6. /\ api' \in [Jobs -> {"new", "saved", "enqueue", "retry", "created", "error"}]
        /\ slot' \in [Workers -> Jobs \cup {NoJob}]
        /\ unqueued' \subseteq Jobs
        /\ rec' \in QueueNames
        /\ phase' \in Phases
        /\ fails' \in [Jobs -> Nat]
    BY <1>3 DEF Halt, PlainTypeOK, Phases
  <2> QED
    BY <1>3, <2>1, <2>2, <2>3, <2>4, <2>5, <2>6 DEF PlainTypeOK
<1>4. CASE Crash \/ Stopped
  <2>1. faults' \in [FaultKinds -> Nat]
    BY <1>4, FaultTyping DEF Crash, Stopped
  <2> QED
    BY <1>3, <1>4, <2>1 DEF Crash, Stopped
<1>5. CASE Terminate \/ CloseQueues \/ StopPool \/ UNCHANGED vars
  <2>1. faults' \in [FaultKinds -> Nat]
    BY <1>5, FaultTyping DEF Terminate, CloseQueues, StopPool, vars
  <2>2. UNCHANGED <<store, mem, rec, api, fails>>
    BY <1>5 DEF Terminate, CloseQueues, StopPool, vars
  <2>3. phase' \in Phases
    BY <1>5 DEF Terminate, CloseQueues, StopPool, vars, PlainTypeOK, Phases
  <2>4. StoreTypeOK'
    BY <2>2 DEF StoreTypeOK, store
  <2> QED
    BY <2>1, <2>2, <2>3, <2>4 DEF mem, PlainTypeOK
<1> QED
  BY <1>1, <1>2, <1>4, <1>5

LEMMA TypeStep ==
  ASSUME TypeOK, WorkerShape, [Next]_vars
  PROVE  TypeOK'
  BY StepCases, ApiTyping, PollTyping, JobTyping, ListTyping, OtherTyping

-----------------------------------------------------------------------------
(* Who has a job and who is canceled *)

LEMMA ShapeKept ==
  ASSUME TypeOK, WorkerShape, NEW w \in Workers, NEW r,
         worker' = [worker EXCEPT ![w] = r],
         r.job # NoJob <=> r.at \in Holding,
         r.ctx # "none"
           => r.at \in {"running", "ack", "failed", "nack", "put"}
  PROVE  WorkerShape'
  BY DEF TypeOK, WorkerShape, Registered

LEMMA PollShape ==
  ASSUME TypeOK, WorkerShape, NEW w \in Workers, PollStep(w)
  PROVE  WorkerShape'
<1>1. worker \in [Workers -> WorkerRecord] /\ worker[w] \in WorkerRecord
  BY TypeParts
<1>2. \/ \E s \in {"top", "limited", "fifo", "exited"} :
           worker[w].at \notin Holding /\ Goto(w, s)
      \/ worker[w].at = "token" /\ Goto(w, "claimed")
      \/ \E s \in {"token", "claimed"}, j \in Jobs :
           worker[w].at \notin Holding /\ Holds(w, j, s)
  <2>1. slot[w] \in Jobs \cup {NoJob}
    BY DEF TypeOK
  <2>2. CASE Exit(w) \/ PriorityMiss(w) \/ LimitedMiss(w) \/ FifoMiss(w)
    BY <2>2 DEF Exit, PriorityMiss, LimitedMiss, FifoMiss, Holding
  <2>3. CASE TakeToken(w)
    BY <2>3 DEF TakeToken
  <2>4. CASE TakeSlot(w)
    BY <2>1, <2>4 DEF TakeSlot, ReadSlot, Holding
  <2>5. ASSUME NEW j \in Jobs,
               TakePriority(w, j) \/ TakeLimited(w, j) \/ TakeFifo(w, j)
        PROVE  \E s \in {"token", "claimed"} :
                 worker[w].at \notin Holding /\ Holds(w, j, s)
    BY <2>5 DEF TakePriority, TakeLimited, TakeFifo, Holding
  <2> QED
    BY <2>2, <2>3, <2>4, <2>5 DEF PollStep
<1>3. ASSUME NEW s \in {"top", "limited", "fifo", "exited"},
             worker[w].at \notin Holding, Goto(w, s)
      PROVE  WorkerShape'
  <2> DEFINE r == [worker[w] EXCEPT !.at = s]
  <2>1. worker' = [worker EXCEPT ![w] = r]
    BY <1>1, <1>3 DEF Goto
  <2>2. r.job = NoJob /\ r.at \notin Holding /\ r.ctx = "none"
    BY <1>1, <1>3 DEF WorkerRecord, WorkerShape, Registered, Holding
  <2> HIDE DEF r
  <2> QED
    BY <2>1, <2>2, ShapeKept
<1>4. ASSUME worker[w].at = "token", Goto(w, "claimed")
      PROVE  WorkerShape'
  <2> DEFINE r == [worker[w] EXCEPT !.at = "claimed"]
  <2>1. worker' = [worker EXCEPT ![w] = r]
    BY <1>1, <1>4 DEF Goto
  <2>2. r.job # NoJob /\ r.at \in Holding /\ r.ctx = "none"
    BY <1>1, <1>4 DEF WorkerRecord, WorkerShape, Registered, Holding
  <2> HIDE DEF r
  <2> QED
    BY <2>1, <2>2, ShapeKept
<1>5. ASSUME NEW s \in {"token", "claimed"}, NEW j \in Jobs,
             worker[w].at \notin Holding, Holds(w, j, s)
      PROVE  WorkerShape'
  <2> DEFINE r == [worker[w] EXCEPT !.at = s, !.job = j]
  <2>1. worker' = [worker EXCEPT ![w] = r]
    BY <1>1, <1>5 DEF Holds
  <2>2. r.job # NoJob /\ r.at \in Holding /\ r.ctx = "none"
    BY <1>1, <1>5, OrderAssumption
       DEF WorkerRecord, WorkerShape, Registered, Holding, NoJob
  <2> HIDE DEF r
  <2> QED
    BY <2>1, <2>2, ShapeKept
<1> QED
  BY <1>2, <1>3, <1>4, <1>5

LEMMA JobShape ==
  ASSUME TypeOK, WorkerShape, NEW w \in Workers, JobStep(w)
  PROVE  WorkerShape'
<1>1. worker \in [Workers -> WorkerRecord] /\ worker[w] \in WorkerRecord
  BY TypeParts
<1>2. ASSUME NEW s \in {"top", "dead"},
             worker' = [worker EXCEPT ![w] = [Idle EXCEPT !.at = s]]
      PROVE  WorkerShape'
  <2> DEFINE r == [Idle EXCEPT !.at = s]
  <2>1. r.job = NoJob /\ r.at \notin Holding /\ r.ctx = "none"
    BY DEF Idle, Holding
  <2> HIDE DEF r
  <2>2. worker' = [worker EXCEPT ![w] = r]
    BY <1>2 DEF r
  <2> QED
    BY <2>1, <2>2, ShapeKept
<1>3. CASE \/ Panic(w) \/ Restart(w) \/ Ack(w) \/ PutBack(w) \/ StoreFails(w)
           \/ NackWrite(w) /\ Finish(w)
  <2>1. Idle = [Idle EXCEPT !.at = "top"]
    BY DEF Idle
  <2>2. \E s \in {"top", "dead"} :
          worker' = [worker EXCEPT ![w] = [Idle EXCEPT !.at = s]]
    BY <1>3, <2>1
       DEF Panic, Restart, Ack, PutBack, LeaveAfterPut, StoreFails, Finish
  <2> QED
    BY <1>2, <2>2
<1>4. ASSUME NEW s \in {"ack", "failed", "put"}, Goto(w, s), Registered(w)
      PROVE  WorkerShape'
  <2> DEFINE r == [worker[w] EXCEPT !.at = s]
  <2>1. worker' = [worker EXCEPT ![w] = r]
    BY <1>1, <1>4 DEF Goto
  <2>2. /\ r.job # NoJob /\ r.at \in Holding
        /\ r.at \in {"running", "ack", "failed", "nack", "put"}
    BY <1>1, <1>4 DEF WorkerRecord, WorkerShape, Registered, Holding
  <2> HIDE DEF r
  <2> QED
    BY <2>1, <2>2, ShapeKept
<1>5. CASE \/ \E s \in {"ack", "failed"} : ProcessReturns(w, s)
           \/ RequeuePreempted(w)
           \/ NackWrite(w) /\ ~Finish(w)
  <2>1. Registered(w) /\ \E s \in {"ack", "failed", "put"} : Goto(w, s)
    BY <1>5 DEF ProcessReturns, RequeuePreempted, Preempted, NackWrite,
                WriteCounter, Registered
  <2> QED
    BY <1>4, <2>1
<1>6. CASE StartProcessing(w)
  <2> DEFINE r == [worker[w] EXCEPT !.at = "running", !.ctx = "live"]
  <2>1. worker' = [worker EXCEPT ![w] = r]
    BY <1>1, <1>6 DEF StartProcessing
  <2>2. /\ r.job # NoJob /\ r.at \in Holding /\ r.at = "running"
    BY <1>1, <1>6 DEF WorkerRecord, WorkerShape, Holding, StartProcessing
  <2> HIDE DEF r
  <2> QED
    BY <2>1, <2>2, ShapeKept
<1>7. CASE Deadline(w)
  <2> DEFINE r == [worker[w] EXCEPT !.ctx = "deadline"]
  <2>1. worker' = [worker EXCEPT ![w] = r]
    BY <1>1, <1>7 DEF Deadline
  <2>2. r.job # NoJob /\ r.at \in Holding /\ r.at = "running"
    BY <1>1, <1>7 DEF WorkerRecord, WorkerShape, Holding, Deadline
  <2> HIDE DEF r
  <2> QED
    BY <2>1, <2>2, ShapeKept
<1>8. CASE NackRead(w)
  <2> DEFINE r == [worker[w] EXCEPT !.at = "nack",
                     !.retry = db[worker[w].job].retry + 1,
                     !.max = db[worker[w].job].max]
  <2>1. worker' = [worker EXCEPT ![w] = r]
    BY <1>1, <1>8 DEF NackRead
  <2>2. r.job # NoJob /\ r.at \in Holding /\ r.at = "nack"
    BY <1>1, <1>8 DEF WorkerRecord, WorkerShape, Holding, NackRead
  <2> HIDE DEF r
  <2> QED
    BY <2>1, <2>2, ShapeKept
<1> QED
  BY <1>3, <1>5, <1>6, <1>7, <1>8 DEF JobStep

\* Preempt changes the context of a registered job only.
LEMMA PreemptShape ==
  ASSUME TypeOK, WorkerShape, NEW w \in Workers, NEW j \in Jobs, Preempt(j, w)
  PROVE  /\ WorkerShape'
         /\ \A v \in Workers \ {w} : worker'[v] = worker[v]
<1>1. worker \in [Workers -> WorkerRecord] /\ worker[w] \in WorkerRecord
  BY TypeParts
<1> DEFINE c == IF worker[w].ctx = "live" THEN "canceled" ELSE worker[w].ctx
           r == [worker[w] EXCEPT !.ctx = c]
<1>2. worker' = [worker EXCEPT ![w] = r] /\ Registered(w)
  BY <1>1 DEF Preempt, CancelFirst, Preemptable
<1>3. r.job = worker[w].job /\ r.at = worker[w].at
  BY <1>1 DEF WorkerRecord
<1>4. /\ r.job # NoJob /\ r.at \in Holding
      /\ r.at \in {"running", "ack", "failed", "nack", "put"}
  BY <1>2, <1>3 DEF WorkerShape, Registered, Holding
<1> HIDE DEF r
<1>5. WorkerShape'
  BY <1>2, <1>4, ShapeKept
<1> QED
  BY <1>1, <1>2, <1>5

\* All other steps leave the workers alone or start them over.
LEMMA OtherShape ==
  ASSUME TypeOK, WorkerShape,
         \/ UNCHANGED worker
         \/ worker' = [w \in Workers |-> Idle]
  PROVE  WorkerShape'
  BY DEF WorkerShape, Registered, Idle, Holding

LEMMA OtherWorkers ==
  ASSUME TypeOK,
         \/ \E j \in Jobs : ApiStep(j) /\ ~\E w \in Workers : Preempt(j, w)
         \/ \E j \in Jobs : GrowOld(j)
         \/ Refill \/ ListStep \/ Terminate \/ CloseQueues \/ StopPool
         \/ UNCHANGED vars
  PROVE  UNCHANGED <<worker, slot>>
  BY DEF ApiStep, CreateJob, HandlerFails, RetryJob, NoPreemption,
         HandlerEnqueue, GrowOld, Refill, Polling, ListStep, Boot, RecoverNext,
         SweepList, ResetListed, PutListed, SweepGivesUp, Sweeping, Terminate,
         CloseQueues, StopPool, mem, vars

LEMMA ShapeStep ==
  ASSUME TypeOK, WorkerShape, [Next]_vars
  PROVE  WorkerShape'
<1>1. ASSUME Crash \/ Stopped PROVE WorkerShape'
  BY <1>1, OtherShape DEF Crash, Stopped, Halt
<1>2. ASSUME UNCHANGED worker PROVE WorkerShape'
  BY <1>2, OtherShape
<1> QED
  BY <1>1, <1>2, StepCases, PollShape, JobShape, PreemptShape, OtherWorkers

LEMMA UrgentStep ==
  ASSUME TypeOK, UrgentOnly, [Next]_vars
  PROVE  UrgentOnly'
<1> DEFINE Asks == \A j \in Jobs : api[j] = "saved" => Prio[j] = 3
           Slots == \A w \in Workers : slot[w] # NoJob => Prio[slot[w]] = 3
<1>1. Asks /\ Slots
  BY DEF UrgentOnly
<1>2. /\ api \in [Jobs -> {"new", "saved", "enqueue", "retry", "created", "error"}]
      /\ slot \in [Workers -> Jobs \cup {NoJob}]
  BY DEF TypeOK
<1>3. ASSUME NEW j \in Jobs, ApiStep(j) PROVE Asks'
  <2>1. /\ \E r \in {"saved", "enqueue", "retry", "created", "error"} : Reply(j, r)
        /\ Reply(j, "saved") => CreateJob(j)
    <3>1. CASE CreateJob(j)
      BY <3>1 DEF CreateJob
    <3>2. CASE ~CreateJob(j)
      <4>1. \E r \in {"enqueue", "retry", "created", "error"} : Reply(j, r)
        BY <1>3, <3>2 DEF ApiStep, HandlerFails, RetryJob, Preempt,
                          NoPreemption, HandlerEnqueue
      <4> QED
        BY <1>2, <4>1 DEF Reply
    <3> QED
      BY <3>1, <3>2
  <2>2. CASE CreateJob(j)
    <3>1. api' = [api EXCEPT ![j] = IF Prio[j] = 3 THEN "saved" ELSE "enqueue"]
      BY <2>2 DEF CreateJob, Reply
    <3> QED
      BY <1>1, <1>2, <3>1
  <2>3. CASE ~Reply(j, "saved")
    <3>1. PICK r \in {"enqueue", "retry", "created", "error"} :
            api' = [api EXCEPT ![j] = r]
      BY <2>1, <2>3 DEF Reply
    <3> QED
      BY <1>1, <1>2, <3>1
  <2> QED
    BY <2>1, <2>2, <2>3
<1>4. ASSUME NEW j \in Jobs, NEW w \in Workers, Preempt(j, w) PROVE Slots'
  <2>1. Prio[j] = 3 /\ slot' = [slot EXCEPT ![w] = j]
    BY <1>1, <1>4 DEF Preempt, CancelFirst
  <2> QED
    BY <1>1, <1>2, <2>1
<1>5. ASSUME UNCHANGED slot PROVE Slots'
  BY <1>1, <1>5
<1>6. ASSUME NEW w \in Workers, PollStep(w) PROVE Asks' /\ Slots'
  <2>1. UNCHANGED api
    BY <1>6 DEF PollStep, TakeSlot, ReadSlot, TakePriority, TakeLimited,
                TakeFifo, PriorityMiss, LimitedMiss, FifoMiss, TakeToken, Exit,
                Polling
  <2>2. UNCHANGED slot \/ slot' = [slot EXCEPT ![w] = NoJob]
    BY <1>6 DEF PollStep, TakeSlot, ReadSlot, TakePriority, TakeLimited,
                TakeFifo, PriorityMiss, LimitedMiss, FifoMiss, TakeToken, Exit
  <2> QED
    BY <1>1, <1>2, <2>1, <2>2
<1>7. ASSUME NEW w \in Workers, JobStep(w) PROVE Asks' /\ Slots'
  <2>1. UNCHANGED <<api, slot>>
    BY <1>7
       DEF JobStep, StartProcessing, Deadline, ProcessReturns, Panic, Restart,
           Ack, RequeuePreempted, Preempted, NackRead, NackWrite, WriteCounter,
           PutBack, LeaveAfterPut, StoreFails, Working
  <2> QED
    BY <1>1, <2>1
<1>8. ASSUME Crash \/ Stopped PROVE Asks' /\ Slots'
  <2>1. /\ api' = [j \in Jobs |-> IF InHandler(j) THEN "error" ELSE api[j]]
        /\ slot' = [w \in Workers |-> NoJob]
    BY <1>8 DEF Crash, Stopped, Halt
  <2> QED
    BY <1>1, <2>1
<1>9. ASSUME \/ \E j \in Jobs : GrowOld(j)
             \/ Refill \/ ListStep \/ Terminate \/ CloseQueues \/ StopPool
             \/ UNCHANGED vars
      PROVE  Asks' /\ Slots'
  <2>1. UNCHANGED <<api, slot>>
    BY <1>9 DEF GrowOld, Refill, Polling, ListStep, Boot, RecoverNext,
         SweepList, ResetListed, PutListed, SweepGivesUp, Sweeping, Terminate,
         CloseQueues, StopPool, mem, vars
  <2> QED
    BY <1>1, <2>1
<1>10. Asks' /\ Slots'
  <2> HIDE DEF Asks, Slots
  <2>1. ASSUME NEW j \in Jobs, ApiStep(j), ~\E w \in Workers : Preempt(j, w)
        PROVE  UNCHANGED slot
    BY <2>1, OtherWorkers
  <2> QED
    BY <1>3, <1>4, <1>5, <1>6, <1>7, <1>8, <1>9, <2>1, StepCases
<1> QED
  BY <1>10 DEF UrgentOnly

\* A canceled context means that the slot is full: a worker empties its slot
\* at the top of its loop, where it has no context.
LEMMA CanceledStep ==
  ASSUME SystemInv, [Next]_vars
  PROVE  CanceledForUrgent'
<1> USE DEF SystemInv
<1>1. /\ worker \in [Workers -> WorkerRecord]
      /\ slot \in [Workers -> Jobs \cup {NoJob}]
  BY TypeParts DEF TypeOK
<1>2. UrgentOnly'
  BY UrgentStep
<1>3. TypeOK' /\ slot' \in [Workers -> Jobs \cup {NoJob}]
  BY TypeStep DEF TypeOK
<1> SUFFICES ASSUME NEW v \in Workers, worker'[v].ctx = "canceled"
             PROVE  slot'[v] # NoJob
  BY <1>2 DEF CanceledForUrgent, UrgentOnly
<1>4. ASSUME NEW j \in Jobs, NEW w \in Workers, Preempt(j, w)
      PROVE  slot'[v] # NoJob
  <2>1. slot' = [slot EXCEPT ![w] = j] /\ j # NoJob
    BY <1>4, OrderAssumption DEF Preempt, NoJob
  <2>2. v # w => worker'[v] = worker[v]
    BY <1>4, PreemptShape
  <2> QED
    BY <1>1, <2>1, <2>2 DEF CanceledForUrgent
<1>5. ASSUME worker'[v].ctx = worker[v].ctx, UNCHANGED slot
      PROVE  slot'[v] # NoJob
  BY <1>5 DEF CanceledForUrgent
<1>6. ASSUME NEW w \in Workers, PollStep(w) PROVE slot'[v] # NoJob
  <2>1. \/ \E s \in Steps : Goto(w, s)
        \/ \E s \in Steps, j \in Jobs \cup {NoJob} : Holds(w, j, s)
    BY <1>1, <1>6 DEF PollStep, TakeSlot, ReadSlot, TakePriority, TakeLimited,
         TakeFifo, PriorityMiss, LimitedMiss, FifoMiss, TakeToken, Exit, Steps
  <2>2. worker'[v].ctx = worker[v].ctx
    <3>1. worker[v] \in WorkerRecord
      BY <1>1
    <3>2. \/ \E s \in Steps :
               worker' = [worker EXCEPT ![w] = [worker[w] EXCEPT !.at = s]]
          \/ \E s \in Steps, j \in Jobs \cup {NoJob} :
               worker' = [worker EXCEPT ![w] =
                            [worker[w] EXCEPT !.at = s, !.job = j]]
      BY <1>1, <2>1 DEF Goto, Holds
    <3> QED
      BY <1>1, <3>1, <3>2 DEF WorkerRecord
  <2>3. CASE TakeSlot(w)
    <3>1. slot' = [slot EXCEPT ![w] = NoJob] /\ worker[w].at = "top"
      BY <2>3 DEF TakeSlot, ReadSlot
    <3>2. worker[w].ctx = "none"
      BY <3>1 DEF WorkerShape, Registered
    <3>3. v # w
      BY <2>2, <3>2
    <3> QED
      BY <1>1, <2>2, <3>1, <3>3 DEF CanceledForUrgent
  <2>4. CASE ~TakeSlot(w)
    <3>1. UNCHANGED slot
      BY <1>6, <2>4 DEF PollStep, TakePriority, TakeLimited, TakeFifo,
                  PriorityMiss, LimitedMiss, FifoMiss, TakeToken, Exit
    <3> QED
      BY <1>5, <2>2, <3>1
  <2> QED
    BY <2>3, <2>4
<1>7. ASSUME NEW w \in Workers, JobStep(w) PROVE slot'[v] # NoJob
  <2>1. UNCHANGED slot
    BY <1>7
       DEF JobStep, StartProcessing, Deadline, ProcessReturns, Panic, Restart,
           Ack, RequeuePreempted, Preempted, NackRead, NackWrite, WriteCounter,
           PutBack, LeaveAfterPut, StoreFails, Working
  <2>2. CASE \/ Panic(w) \/ Restart(w) \/ Ack(w) \/ PutBack(w) \/ StoreFails(w)
             \/ NackWrite(w) /\ Finish(w)
    <3>1. \E r \in {Idle, [Idle EXCEPT !.at = "dead"]} :
            worker' = [worker EXCEPT ![w] = r]
      BY <2>2 DEF Panic, Restart, Ack, PutBack, LeaveAfterPut, StoreFails, Finish
    <3>2. v # w
      BY <1>1, <3>1 DEF Idle
    <3> QED
      BY <1>1, <1>5, <2>1, <3>1, <3>2
  <2>3. CASE StartProcessing(w) \/ Deadline(w)
    <3>1. v # w => worker'[v].ctx = worker[v].ctx
      BY <1>1, <2>3 DEF StartProcessing, Deadline
    <3>2. v = w => worker'[v].ctx \in {"live", "deadline"}
      BY <1>1, <2>3 DEF StartProcessing, Deadline, WorkerRecord
    <3> QED
      BY <1>5, <2>1, <3>1, <3>2
  <2>4. CASE \/ \E s \in {"ack", "failed"} : ProcessReturns(w, s)
             \/ RequeuePreempted(w)
             \/ NackWrite(w) /\ ~Finish(w)
             \/ NackRead(w)
    <3>1. \/ \E s \in {"ack", "failed", "put"} : Goto(w, s)
          \/ NackRead(w)
      BY <2>4 DEF ProcessReturns, RequeuePreempted, NackWrite
    <3>2. worker'[v].ctx = worker[v].ctx
      BY <1>1, <3>1 DEF Goto, NackRead, WorkerRecord
    <3> QED
      BY <1>5, <2>1, <3>2
  <2> QED
    BY <1>7, <2>2, <2>3, <2>4 DEF JobStep
<1>8. ASSUME Crash \/ Stopped PROVE FALSE
  BY <1>8 DEF Crash, Stopped, Halt, Idle
<1>9. ASSUME UNCHANGED <<worker, slot>> PROVE slot'[v] # NoJob
  BY <1>5, <1>9
<1> QED
  BY <1>4, <1>6, <1>7, <1>8, <1>9, StepCases, OtherWorkers

LEMMA SystemInductive ==
  Spec => []SystemInv
<1>1. Init => SystemInv
  <2> SUFFICES ASSUME Init PROVE SystemInv
    OBVIOUS
  <2> USE DEF Init
  <2>1. StoreTypeOK
    <3>1. NoRow \in Row
      BY DEF NoRow, Row, Status
    <3> QED
      BY <3>1, StoreAssumption DEF StoreTypeOK, NoCounts
  <2>2. queue \in [QueueNames -> Seq(Jobs)]
    BY DEF EmptyQueues
  <2>3. worker \in [Workers -> WorkerRecord]
    BY DEF WorkerRecord, Idle, Steps
  <2>4. PlainTypeOK
    BY RouterAssumption DEF PlainTypeOK, Phases, QueueNames, NoList
  <2>5. WorkerShape /\ UrgentOnly /\ CanceledForUrgent
    BY DEF WorkerShape, UrgentOnly, CanceledForUrgent, Idle, Holding
  <2> QED
    BY <2>1, <2>2, <2>3, <2>4, <2>5, TypeParts DEF SystemInv
<1>2. SystemInv /\ [Next]_vars => SystemInv'
  <2> SUFFICES ASSUME SystemInv, [Next]_vars PROVE SystemInv'
    OBVIOUS
  <2> QED
    BY TypeStep, ShapeStep, UrgentStep, CanceledStep DEF SystemInv
<1> QED
  BY <1>1, <1>2, PTL DEF Spec

\* The server's state keeps its shape whatever is created, preempted, swept,
\* recovered, crashes or stops: queues and slots hold jobs only, the bucket
\* never holds more than Burst tokens and the table only known statuses.
THEOREM TypeCorrect ==
  Spec => []TypeOK
  BY SystemInductive, PTL DEF SystemInv

\* Pool.Preempt cancels a running job for the sake of another one only: as
\* long as the context is canceled its worker's slot holds a super-urgent job.
THEOREM CanceledOnlyForUrgent ==
  Spec => []CanceledForUrgent
  BY SystemInductive, PTL DEF SystemInv
=============================================================================
