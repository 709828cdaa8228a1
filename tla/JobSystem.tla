----------------------------- MODULE JobSystem ------------------------------
(***************************************************************************)
(* The whole server: the jobs table, the router with its three queues, the  *)
(* worker pool with its preempt slots and supervisor, the handlers that     *)
(* create and retry jobs, the sweepers, recovery at start-up, graceful      *)
(* shutdown and crashes.                                                   *)
(*                                                                         *)
(* Every SQL statement, every channel operation and every section under a   *)
(* mutex is a step; goroutines interleave between them.  Two are joined     *)
(* only where what falls between them might as well come before or after:   *)
(* the registration with SetProcessing, its reset with the last statement   *)
(* or send of the job, the token count with the priority pop that found     *)
(* nothing.  A crash loses all variables but db.                            *)
(***************************************************************************)
EXTENDS Router, FiniteSetsExt

CONSTANTS
  Workers,       \* worker IDs, positive numbers
  Sweepers,      \* queues whose sweeper ticks in this instance
  MaxFaults      \* bound on each kind of fault or operator action

FaultKinds == {"crash", "panic", "db", "stop", "retry"}

ASSUME SystemAssumption ==
  /\ Workers \subseteq Nat \ {0}
  /\ IsFiniteSet(Workers)
  /\ Sweepers \subseteq QueueNames
  /\ MaxFaults \in [FaultKinds -> Nat]

VARIABLES
  phase,    \* life of the process, see Phases
  rec,      \* the queue Recover works on
  todo,     \* what Recover and each sweeper listed and has yet to handle
  worker,   \* each worker goroutine: where it is, its job, its context and
            \* the retry counters its Nack read
  slot,     \* Pool.preemptQueue: the super-urgent job left for a worker
  unqueued, \* history: jobs whose last Enqueue by a handler or a worker was
            \* given up in this process
  api,      \* the handler of each job
  faults,   \* faults so far
  fails     \* history: attempts charged to each job by Nack, up to CountTo

mem == <<queue, tokens, todo, worker, slot, unqueued>>
vars == <<store, mem, phase, rec, api, faults, fails>>

NoJob == 0

Phases == {"down", "recovering", "serving", "draining", "closed", "stopping"}

Steps == {"top", "limited", "token", "fifo", "claimed", "running", "ack",
          "failed", "nack", "put", "exited", "dead"}

Idle == [at |-> "top", job |-> NoJob, ctx |-> "none", retry |-> 0, max |-> 0]

NoList == [j \in Jobs |-> "none"]

Listers == QueueNames \cup {"recover"}

TypeOK ==
  /\ StoreTypeOK
  /\ RouterTypeOK
  /\ phase \in Phases
  /\ rec \in QueueNames
  /\ todo \in [Listers -> [Jobs -> {"none", "pending", "processing", "stuck"}]]
  /\ worker \in [Workers ->
       [at : Steps, job : Jobs \cup {NoJob},
        ctx : {"none", "live", "canceled", "deadline"},
        retry : Nat, max : Nat]]
  /\ slot \in [Workers -> Jobs \cup {NoJob}]
  /\ unqueued \subseteq Jobs
  /\ api \in [Jobs -> {"new", "saved", "enqueue", "retry", "created", "error"}]
  /\ faults \in [FaultKinds -> Nat]
  /\ fails \in [Jobs -> Nat]

\* An empty table and a process that has not been started.
Init ==
  /\ db = [j \in Jobs |-> NoRow]
  /\ counter = NoCounts
  /\ queue = EmptyQueues
  /\ tokens = Burst
  /\ phase = "down"
  /\ rec = "fifo"
  /\ todo = [l \in Listers |-> NoList]
  /\ worker = [w \in Workers |-> Idle]
  /\ slot = [w \in Workers |-> NoJob]
  /\ unqueued = {}
  /\ api = [j \in Jobs |-> "new"]
  /\ faults = [k \in FaultKinds |-> 0]
  /\ fails = [j \in Jobs |-> 0]

\* One more fault of kind k.
Fault(k) ==
  /\ faults[k] < MaxFaults[k]
  /\ faults' = [faults EXCEPT ![k] = @ + 1]

\* Enqueue succeeds on queues that router.Close has not closed yet.
Open == phase \in {"recovering", "serving", "draining"}

\* A worker that looks finds the pool running.
Looping == phase \notin {"down", "stopping"}

\* Enqueue has put job j into queue q, or returned an error.
Queued(q, j) == Open /\ Put(q, j) /\ unqueued' = unqueued \ {j}

NotQueued(j) == UNCHANGED queue /\ unqueued' = unqueued \cup {j}

InHandler(j) == api[j] \in {"saved", "enqueue", "retry"}

-----------------------------------------------------------------------------
(* The handlers of POST /jobs and POST /jobs/{id}/retry *)

Reply(j, r) == api' = [api EXCEPT ![j] = r]

\* Mutant: the job is enqueued before it is saved.
CreateJobUnsaved(j) ==
  /\ phase = "serving"
  /\ api[j] = "new"
  /\ Reply(j, "enqueue")
  /\ UNCHANGED <<store, mem, phase, rec, faults, fails>>

CreateJob(j) ==
  /\ phase = "serving"
  /\ api[j] = "new"
  /\ SaveJob(j)
  /\ Reply(j, IF Prio[j] = 3 THEN "saved" ELSE "enqueue")
  /\ UNCHANGED <<mem, phase, rec, faults, fails>>

\* SaveJob fails and nothing is persisted, or the GetJob that Retry makes
\* after its update fails and nothing is enqueued.
HandlerFails(j) ==
  /\ (phase = "serving" /\ api[j] = "new") \/ api[j] = "retry"
  /\ Fault("db")
  /\ Reply(j, "error")
  /\ UNCHANGED <<store, mem, phase, rec, fails>>

\* A worker inside processJob, from its registration to the deferred reset.
Registered(w) ==
  worker[w].at \in {"running", "ack", "failed", "nack", "put"}

\* Mutant: a filled slot does not protect its worker.
PreemptableAgain(w) == Registered(w) /\ Prio[worker[w].job] = 1

Preemptable(w) ==
  /\ Registered(w)
  /\ Prio[worker[w].job] = 1
  /\ slot[w] = NoJob

\* Pool.Preempt takes the first preemptable worker.  Its cancel changes
\* ctx.Err() only when the deadline has not passed before.
CancelFirst(j, w) ==
  /\ api[j] = "saved"
  /\ Preemptable(w)
  /\ \A v \in Workers : v < w => ~Preemptable(v)
  /\ worker' = [worker EXCEPT ![w].ctx = IF @ = "live" THEN "canceled" ELSE @]
  /\ UNCHANGED <<store, queue, tokens, todo, unqueued, phase, rec, faults,
                 fails>>

\* Mutant: the job is queued normally although another one was canceled.
PreemptNoSlot(j, w) ==
  CancelFirst(j, w) /\ Reply(j, "enqueue") /\ UNCHANGED slot

\* The worker will find the super-urgent job in its slot.
Preempt(j, w) ==
  CancelFirst(j, w) /\ Reply(j, "created") /\ slot' = [slot EXCEPT ![w] = j]

NoPreemption(j) ==
  /\ api[j] = "saved"
  /\ \A w \in Workers : ~Preemptable(w)
  /\ Reply(j, "enqueue")
  /\ UNCHANGED <<store, mem, phase, rec, faults, fails>>

\* Router.Enqueue goes by queue type, Retry always to the FIFO queue.
HandlerEnqueue(j, q) ==
  /\ \/ api[j] = "enqueue" /\ q = QType[j]
     \/ api[j] = "retry" /\ q = "fifo"
  /\ \/ Queued(q, j) /\ Reply(j, "created")
     \/ TimesOut(q) /\ NotQueued(j) /\ Reply(j, "error")
  /\ UNCHANGED <<store, tokens, todo, worker, slot, phase, rec, faults, fails>>

RetryJob(j) ==
  /\ phase = "serving"
  /\ api[j] \in {"created", "error"}
  /\ Fault("retry")
  /\ ResetForRetry(j)
  /\ Reply(j, "retry")
  /\ UNCHANGED <<mem, phase, rec, fails>>

-----------------------------------------------------------------------------
(* The worker loop: slot, priority queue, rate-limited queue, FIFO queue *)

\* Worker w goes on at step s.
Goto(w, s) == worker' = [worker EXCEPT ![w].at = s]

\* Worker w goes on at step s with job j in its hands.
Holds(w, j, s) == worker' = [worker EXCEPT ![w].at = s, ![w].job = j]

\* Only workers and queues are touched.
Polling == UNCHANGED <<store, todo, unqueued, phase, rec, api, faults, fails>>

\* The worker found the pool stopped.
Exit(w) ==
  /\ worker[w].at = "top"
  /\ phase = "stopping"
  /\ Goto(w, "exited")
  /\ Polling /\ UNCHANGED <<queue, tokens, slot>>

\* A super-urgent job waits in the worker's slot.
ReadSlot(w) ==
  /\ worker[w].at = "top"
  /\ Looping
  /\ slot[w] # NoJob
  /\ Holds(w, slot[w], "claimed")
  /\ Polling /\ UNCHANGED <<queue, tokens>>

\* Mutant: the slot is not cleared.
TakeSlotKept(w) == ReadSlot(w) /\ UNCHANGED slot

TakeSlot(w) == ReadSlot(w) /\ slot' = [slot EXCEPT ![w] = NoJob]

TakePriority(w, j) ==
  /\ worker[w].at = "top"
  /\ Looping
  /\ slot[w] = NoJob
  /\ Take("priority", j)
  /\ Holds(w, j, "claimed")
  /\ Polling /\ UNCHANGED <<tokens, slot>>

\* No priority job: the rate-limited queue is tried only if a token is left.
PriorityMiss(w) ==
  /\ worker[w].at = "top"
  /\ Looping
  /\ slot[w] = NoJob
  /\ queue["priority"] = <<>>
  /\ Goto(w, IF tokens > 0 THEN "limited" ELSE "fifo")
  /\ Polling /\ UNCHANGED <<queue, tokens, slot>>

\* The job is out of the channel before the worker has a token for it.
TakeLimited(w, j) ==
  /\ worker[w].at = "limited"
  /\ Take("rate-limited", j)
  /\ Holds(w, j, "token")
  /\ Polling /\ UNCHANGED <<tokens, slot>>

TakeToken(w) ==
  /\ worker[w].at = "token"
  /\ SpendToken
  /\ Goto(w, "claimed")
  /\ Polling /\ UNCHANGED <<queue, slot>>

\* The select has a timer of zero, which may win over a waiting job.
LimitedMiss(w) ==
  /\ worker[w].at = "limited"
  /\ Goto(w, "fifo")
  /\ Polling /\ UNCHANGED <<queue, tokens, slot>>

TakeFifo(w, j) ==
  /\ worker[w].at = "fifo"
  /\ Take("fifo", j)
  /\ Holds(w, j, "claimed")
  /\ Polling /\ UNCHANGED <<tokens, slot>>

\* One round of polling is over.  (The slot and the stop flag are looked at
\* again every 100ms; a slot is only filled while its worker has a job.)
FifoMiss(w) ==
  /\ worker[w].at = "fifo"
  /\ Goto(w, "top")
  /\ Polling /\ UNCHANGED <<queue, tokens, slot>>

Refill ==
  /\ Open
  /\ AddToken
  /\ Polling /\ UNCHANGED <<queue, worker, slot>>

-----------------------------------------------------------------------------
(* processJob *)

\* Only the worker and the table are touched.
Working == UNCHANGED <<tokens, todo, slot, unqueued, phase, rec, api>>

\* processJob returns: the job is unregistered and the loop starts over.
Finish(w) == worker' = [worker EXCEPT ![w] = Idle]

\* SetProcessing and the registration of the job with its context.  A failed
\* SetProcessing is only logged.
StartProcessing(w) ==
  /\ worker[w].at = "claimed"
  /\ \/ UpdateJobStatus(worker[w].job, "processing") /\ UNCHANGED faults
     \/ Fault("db") /\ UNCHANGED store
  /\ worker' = [worker EXCEPT ![w].at = "running", ![w].ctx = "live"]
  /\ Working /\ UNCHANGED <<queue, fails>>

\* The job's timeout runs out.
Deadline(w) ==
  /\ worker[w].at = "running"
  /\ worker[w].ctx = "live"
  /\ worker' = [worker EXCEPT ![w].ctx = "deadline"]
  /\ Working /\ UNCHANGED <<store, queue, faults, fails>>

\* Process returns nil or an error, with or without its context being done.
ProcessReturns(w, s) ==
  /\ worker[w].at = "running"
  /\ s \in {"ack", "failed"}
  /\ Goto(w, s)
  /\ Working /\ UNCHANGED <<store, queue, faults, fails>>

\* Process panics: the worker goroutine ends, the row stays as it is.
Panic(w) ==
  /\ worker[w].at = "running"
  /\ Fault("panic")
  /\ worker' = [worker EXCEPT ![w] = [Idle EXCEPT !.at = "dead"]]
  /\ Working /\ UNCHANGED <<store, queue, fails>>

\* supervise starts a new goroutine for the dead worker's ID.
Restart(w) ==
  /\ worker[w].at = "dead"
  /\ phase # "stopping"
  /\ Finish(w)
  /\ Working /\ UNCHANGED <<store, queue, faults, fails>>

Ack(w) ==
  /\ worker[w].at = "ack"
  /\ UpdateJobStatus(worker[w].job, "completed")
  /\ Finish(w)
  /\ Working /\ UNCHANGED <<queue, faults, fails>>

\* An error with ctx.Err() = Canceled is a preemption.
Preempted(w) ==
  /\ worker[w].at = "failed"
  /\ worker[w].ctx = "canceled"
  /\ Requeue(worker[w].job)
  /\ Working /\ UNCHANGED <<queue, faults, fails>>

RequeuePreempted(w) == Preempted(w) /\ Goto(w, "put")

\* Any other error: Nack reads the row first.
NackRead(w) ==
  /\ worker[w].at = "failed"
  /\ worker[w].ctx # "canceled"
  /\ worker' = [worker EXCEPT ![w].at = "nack",
                              ![w].retry = db[worker[w].job].retry + 1,
                              ![w].max = db[worker[w].job].max]
  /\ Working /\ UNCHANGED <<store, queue, faults, fails>>

\* The counter is written back, with the status it leads to.
WriteCounter(w, exhausted) ==
  /\ worker[w].at = "nack"
  /\ UpdateJobRetry(worker[w].job, IF exhausted THEN "failed" ELSE "pending",
                    worker[w].retry)
  /\ fails' = [fails EXCEPT ![worker[w].job] =
                 IF @ < CountTo THEN @ + 1 ELSE @]
  /\ Working /\ UNCHANGED <<queue, faults>>

\* Mutant: one attempt more than max_retries.
NackWriteLate(w) ==
  LET exhausted == worker[w].retry > worker[w].max
  IN  /\ WriteCounter(w, exhausted)
      /\ IF exhausted THEN Finish(w) ELSE Goto(w, "put")

\* Mutant: a failed job is enqueued again.
NackWritePuts(w) ==
  WriteCounter(w, worker[w].retry >= worker[w].max) /\ Goto(w, "put")

NackWrite(w) ==
  LET exhausted == worker[w].retry >= worker[w].max
  IN  /\ WriteCounter(w, exhausted)
      /\ IF exhausted THEN Finish(w) ELSE Goto(w, "put")

\* Nack and Requeue end with an Enqueue into the FIFO queue, whatever the
\* type of the job.
LeaveAfterPut(w) ==
  /\ worker[w].at = "put"
  /\ Finish(w)
  /\ UNCHANGED <<store, tokens, todo, slot, phase, rec, api, faults, fails>>

PutDone(w) == Queued("fifo", worker[w].job)

\* Mutant: the Enqueue has neither the closed check nor the done arm.
PutBackBlocks(w) ==
  /\ LeaveAfterPut(w)
  /\ PutDone(w) \/ (Open /\ TimesOut("fifo") /\ NotQueued(worker[w].job))

\* Mutant: the Enqueue is forgotten.
PutBackDrops(w) == LeaveAfterPut(w) /\ UNCHANGED <<queue, unqueued>>

\* An error leaves the job pending in the table only.
PutBack(w) ==
  /\ LeaveAfterPut(w)
  /\ PutDone(w) \/ ((~Open \/ TimesOut("fifo")) /\ NotQueued(worker[w].job))

\* A statement of Ack, Requeue or Nack fails; it is logged, no more.  Requeue
\* reads the row once more before its Enqueue, Nack (retry # 0) does not.
StoreFails(w) ==
  /\ \/ worker[w].at \in {"ack", "failed", "nack"}
     \/ worker[w].at = "put" /\ worker[w].retry = 0
  /\ Fault("db")
  /\ Finish(w)
  /\ Working /\ UNCHANGED <<store, queue, fails>>

-----------------------------------------------------------------------------
(* Recover and the sweepers *)

\* What a listing for queue q has to handle.  Only the priority queue looks
\* at the queue type.
ListFor(q) ==
  [j \in Jobs |-> IF q = "priority" /\ QType[j] # q THEN "none"
                  ELSE ListPendingJobs[j]]

\* Mutant: the sweeper has no case for processing jobs.
SweepPendingOnly(q) ==
  [j \in Jobs |-> IF ListFor(q)[j] = "pending" THEN "pending" ELSE "none"]

\* The sweepers leave alone what has been processing for a short time.
SweepListFor(q) ==
  [j \in Jobs |-> IF ListFor(q)[j] = "processing" THEN "none"
                  ELSE ListFor(q)[j]]

\* Job j is the next one l has to handle.
NextFor(l, j) ==
  /\ todo[l][j] # "none"
  /\ \A i \in Jobs : todo[l][i] # "none" => i = j \/ Ahead(j, i)

Mark(l, j, s) == todo' = [todo EXCEPT ![l][j] = s]

\* Only listings, table and queues are touched.
Sweeping == UNCHANGED <<tokens, worker, slot, phase, rec, api, fails>>

\* Boot: the pool starts, then Recover lists the jobs for the FIFO queue.
Boot ==
  /\ phase = "down"
  /\ phase' = "recovering"
  /\ rec' = "fifo"
  /\ todo' = [todo EXCEPT !["recover"] = ListFor("fifo")]
  /\ UNCHANGED <<store, queue, tokens, worker, slot, unqueued, api, faults,
                 fails>>

\* A listed processing job is set back to pending, whoever processes it now.
ResetListed(l, j) ==
  /\ NextFor(l, j)
  /\ todo[l][j] \in {"processing", "stuck"}
  /\ UpdateJobStatus(j, "pending")
  /\ Mark(l, j, "pending")
  /\ Sweeping /\ UNCHANGED <<queue, unqueued, faults>>

\* A listed pending job is put into queue q.
PutListed(l, j, q) ==
  /\ NextFor(l, j)
  /\ todo[l][j] = "pending"
  /\ Queued(q, j)
  /\ Mark(l, j, "none")
  /\ Sweeping /\ UNCHANGED <<store, faults>>

RecoverStep(j) == ResetListed("recover", j) \/ PutListed("recover", j, rec)

\* The next queue's turn; after the last one the HTTP server starts.
RecoverNext ==
  /\ phase = "recovering"
  /\ todo["recover"] = NoList
  /\ IF rec = "rate-limited"
     THEN phase' = "serving" /\ UNCHANGED <<rec, todo>>
     ELSE /\ rec' = IF rec = "fifo" THEN "priority" ELSE "rate-limited"
          /\ todo' = [todo EXCEPT !["recover"] = ListFor(rec')]
          /\ UNCHANGED phase
  /\ UNCHANGED <<store, queue, tokens, worker, slot, unqueued, api, faults,
                 fails>>

\* A tick of the sweeper of queue q that finds something to do.  The first one
\* comes five minutes after the start, when the recovery is over.
SweepList(q) ==
  /\ phase \notin {"down", "recovering"}
  /\ todo[q] = NoList
  /\ SweepListFor(q) # NoList
  /\ todo' = [todo EXCEPT ![q] = SweepListFor(q)]
  /\ Sweeping /\ UNCHANGED <<store, queue, unqueued, faults>>

\* An error is logged and the sweep goes on with the next job.
SweepGivesUp(q, j) ==
  /\ NextFor(q, j)
  /\ \/ todo[q][j] = "pending" /\ (~Open \/ TimesOut(q)) /\ UNCHANGED faults
     \/ todo[q][j] = "stuck" /\ Fault("db")
  /\ Mark(q, j, "none")
  /\ Sweeping /\ UNCHANGED <<store, queue, unqueued>>

SweepStep(q, j) ==
  ResetListed(q, j) \/ PutListed(q, j, q) \/ SweepGivesUp(q, j)

\* Ten minutes pass since the row was last updated.  No worker is on the job,
\* its timeout being shorter; only the wait for a token has no limit.  Nobody
\* but a sweeper looks at the age.
GrowOld(j) ==
  /\ Sweepers # {}
  /\ db[j].status = "processing"
  /\ db[j].age = "fresh"
  /\ \A w \in Workers : worker[w].job = j => worker[w].at = "token"
  /\ db' = [db EXCEPT ![j].age = "old"]
  /\ UNCHANGED <<counter, mem, phase, rec, api, faults, fails>>

-----------------------------------------------------------------------------
(* Crash, start-up failure and graceful shutdown *)

\* The process is gone, and with it everything but the table.
Halt ==
  /\ phase' = "down"
  /\ queue' = EmptyQueues
  /\ tokens' = Burst
  /\ todo' = [l \in Listers |-> NoList]
  /\ worker' = [w \in Workers |-> Idle]
  /\ slot' = [w \in Workers |-> NoJob]
  /\ unqueued' = {}
  /\ api' = [j \in Jobs |-> IF InHandler(j) THEN "error" ELSE api[j]]
  /\ counter' = NoCounts
  /\ UNCHANGED <<db, rec, fails>>

\* Recover's Enqueue finds no room for five seconds: every worker has a job in
\* its hands, or, in the rate-limited queue, nobody has a token.
RecoverTimesOut ==
  /\ phase = "recovering"
  /\ TimesOut(rec)
  /\ \E j \in Jobs : NextFor("recover", j) /\ todo["recover"][j] = "pending"
  /\ \A w \in Workers :
       \/ worker[w].job # NoJob
       \/ rec = "rate-limited" /\ tokens = 0 /\ worker[w].at # "limited"

\* A kill at any time, or log.Fatal when Recover returns an error.
Crash ==
  /\ phase # "down"
  /\ IF RecoverTimesOut THEN UNCHANGED faults ELSE Fault("crash")
  /\ Halt

\* SIGTERM: srv.Shutdown lets the running handlers finish.
Terminate ==
  /\ phase = "serving"
  /\ Fault("stop")
  /\ phase' = "draining"
  /\ UNCHANGED <<store, mem, rec, api, fails>>

\* router.Close, then pool.Stop.
CloseQueues ==
  /\ phase = "draining"
  /\ \A j \in Jobs : ~InHandler(j)
  /\ phase' = "closed"
  /\ UNCHANGED <<store, mem, rec, api, faults, fails>>

StopPool ==
  /\ phase = "closed"
  /\ phase' = "stopping"
  /\ UNCHANGED <<store, mem, rec, api, faults, fails>>

\* pool.Wait returned and main ends.
Stopped ==
  /\ phase = "stopping"
  /\ \A w \in Workers : worker[w].at \in {"exited", "dead"}
  /\ Halt
  /\ UNCHANGED faults

-----------------------------------------------------------------------------
HandlerStep(j) ==
  \/ \E w \in Workers : Preempt(j, w)
  \/ NoPreemption(j)
  \/ \E q \in QueueNames : HandlerEnqueue(j, q)

TakeJob(w) ==
  \/ TakeSlot(w)
  \/ \E j \in Jobs : TakePriority(w, j) \/ TakeLimited(w, j) \/ TakeFifo(w, j)

Miss(w) == PriorityMiss(w) \/ LimitedMiss(w) \/ FifoMiss(w)

ProcessJob(w) ==
  \/ StartProcessing(w)
  \/ \E s \in {"ack", "failed"} : ProcessReturns(w, s)
  \/ Ack(w)
  \/ RequeuePreempted(w)
  \/ NackRead(w)
  \/ NackWrite(w)
  \/ PutBack(w)

WorkerStep(w) ==
  TakeJob(w) \/ Miss(w) \/ TakeToken(w) \/ ProcessJob(w) \/ Exit(w)
    \/ Restart(w)

MainStep ==
  \/ Boot
  \/ RecoverNext
  \/ \E j \in Jobs : RecoverStep(j)
  \/ CloseQueues
  \/ StopPool
  \/ Stopped

Next ==
  \/ \E j \in Jobs :
       \/ CreateJob(j) \/ HandlerFails(j) \/ RetryJob(j)
       \/ HandlerStep(j)
       \/ GrowOld(j)
  \/ \E w \in Workers :
       WorkerStep(w) \/ Deadline(w) \/ Panic(w) \/ StoreFails(w)
  \/ Refill
  \/ \E q \in Sweepers : SweepList(q) \/ \E j \in Jobs : SweepStep(q, j)
  \/ MainStep
  \/ Crash
  \/ Terminate

Spec == Init /\ [][Next]_vars

\* Goroutines keep running, a job's timeout bounds Process, the refill and
\* sweeper tickers tick and time passes; the container is restarted when the
\* process ends.  A select that finds a job waiting each time it is entered
\* receives it at last, Go choosing among ready cases at random.
Fairness ==
  /\ WF_vars(MainStep)
  /\ WF_vars(Refill)
  /\ \A w \in Workers :
       WF_vars(WorkerStep(w)) /\ SF_vars(TakeJob(w))
  /\ \A j \in Jobs : WF_vars(HandlerStep(j)) /\ WF_vars(GrowOld(j))
  /\ \A q \in Sweepers :
       WF_vars(SweepList(q)) /\ \A j \in Jobs : WF_vars(SweepStep(q, j))

FairSpec == Spec /\ Fairness

-----------------------------------------------------------------------------
(* Properties *)

\* Where job j is held in memory.
Places(j) ==
  (UNION {{q} \X {i \in DOMAIN queue[q] : queue[q][i] = j} : q \in QueueNames})
    \cup {"worker"} \X {w \in Workers : worker[w].job = j}
    \cup {"slot"} \X {w \in Workers : slot[w] = j}
    \cup {"handler"} \X {i \in {j} : InHandler(i)}

\* As long as nothing is re-read from the table (no sweep, no recovery) a job
\* is in one place only: no worker, queue, slot or handler shares it, however
\* creation, preemption, requeue, retry and panics interleave.
SingleCustody == \A j \in Jobs : Cardinality(Places(j)) <= 1

\* A pending job is held somewhere, so it will be delivered without the help
\* of a sweeper: a preemption overwrites no slot, a dying worker takes no
\* urgent job with it, a requeue is not forgotten.
PendingIsHeld ==
  faults["db"] = 0 =>
    \A j \in Jobs : db[j].status = "pending" => Places(j) # {}

\* Nobody still holds a job whose row says it is over.
TerminalIsReleased ==
  \A j \in Jobs : Terminal(j) => Places(j) = {}

\* A job is charged for at most as many failed attempts as max_retries says,
\* the ones that manual retries add included.
AttemptsWithinBudget == \A j \in Jobs : fails[j] <= db[j].max

\* A completed job stays completed and a failed one is only revived by an
\* operator's retry.
TerminalIsFinal ==
  [][\A j \in Jobs :
       Terminal(j) /\ db'[j] # db[j]
         => db[j].status = "failed" /\ faults'["retry"] > faults["retry"]]_vars

\* The table, seen row by row, goes through the lifecycle of JobLifecycle.
Lifecycle == INSTANCE JobLifecycle WITH
  row <- [j \in Jobs |-> [status |-> db[j].status, retry |-> db[j].retry,
                          max |-> db[j].max]]

FollowsLifecycle == Lifecycle!Spec

\* A job is canceled for the sake of another one only: its worker has the
\* super-urgent job waiting in the slot.
CanceledForUrgent ==
  \A w \in Workers :
    worker[w].ctx = "canceled" => slot[w] # NoJob /\ Prio[slot[w]] = 3

\* The table tells where the jobs are, so the dashboard and a recovery can rely
\* on it: what waits in a queue, a slot or a handler is listed as pending
\* (persistence comes before delivery), and, unless a worker died or a
\* statement failed, what is listed as processing is with a worker.
TableTellsWhere ==
  /\ {j \in Jobs : \E p \in Places(j) : p[1] # "worker"}
       \subseteq ListAllPendingJobs
  /\ faults["panic"] + faults["db"] = 0 =>
       GetProcessingJobs \subseteq {worker[w].job : w \in Workers}

\* The counters of completed, failed and retried jobs agree with the table, as
\* long as the process lives and makes no copies of a job: a manual retry
\* takes one row out of the failed ones, a preemption counts as nothing.
CountersAgree ==
  /\ counter["completed"] = Cardinality({j \in Jobs : db[j].status = "completed"})
  /\ counter["failed"] = Cardinality({j \in Jobs : db[j].status = "failed"})
                           + faults["retry"]
  /\ counter["failed"] + counter["retried"]
       = MapThenSumSet(LAMBDA j : db[j].retry, Jobs)

\* A restart after a stop or a crash loses nothing, and neither do the copies
\* that recovery and sweeps make: as long as no statement failed and no
\* processor panicked, every job that is not over is held by a serving
\* process without the help of a sweeper, but for the pending jobs whose
\* Enqueue, in CreateJob, RetryJob, Nack or Requeue, found no room.
RecoveredIsHeld ==
  phase = "serving" /\ faults["db"] + faults["panic"] = 0 =>
    \A j \in (ListAllPendingJobs \ unqueued) \cup GetProcessingJobs :
      Places(j) # {}

\* Jobs are never lost and their retries end: once persisted, a job comes to
\* rest as completed or failed, even when sweeps and recovery have left
\* several copies of it in the queues.
Settles ==
  \A j \in Jobs : db[j].status # "none" ~> []Terminal(j)

\* Graceful shutdown comes to an end.
ShutdownCompletes == phase = "draining" ~> phase = "down"

-----------------------------------------------------------------------------
(* What documentation and comments say and the code does not do *)

\* README: jobs of the rate-limited queue wait for a token before they are
\* returned to a worker, and their priority is ignored.  CreateJob preempts for
\* a super-urgent job of any type, and the worker takes it from its slot; a
\* retried or requeued job comes from the FIFO queue.
TokenPerStart ==
  [][\A w \in Workers :
       worker[w].at # "claimed" /\ worker'[w].at = "claimed"
         /\ QType[worker'[w].job] = "rate-limited"
       => tokens' = tokens - 1]_vars

\* README: on startup pending and processing jobs are re-enqueued; this is why
\* jobs are never lost.  Recover gives up when an Enqueue times out, and the
\* restarted process is in the same situation again.
RecoveryEnds == phase = "recovering" ~> phase = "serving"

\* TestNack_MaxRetries: a job with MaxRetries = 2 is failed by its third Nack,
\* with a RetryCount of 3.  The second one fails it.
FailsAboveMax ==
  \A j \in Jobs : db[j].status = "failed" => db[j].retry = db[j].max + 1
=============================================================================
