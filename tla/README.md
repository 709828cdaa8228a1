# RJQ: TLA+ models and proofs

RJQ is a single-process job queue in Go: an HTTP API persists jobs in SQLite or
Postgres, three in-memory queues deliver them to a pool of workers, and
recovery, sweepers and a supervisor repair what crashes, panics and failing
statements leave behind. This directory holds TLA+ models of it, TLC
configurations that check them on small instances, and TLAPS proofs.

## Inventory of the system

| Component | State | Operations | Talks to |
| --- | --- | --- | --- |
| Storage (`internal/storage`) | the `jobs` table: status, retry_count, max_retries, updated_at | SaveJob, UpdateJobStatus, UpdateJobRetry, Requeue, ResetForRetry, list queries | called by everyone |
| MemoryQueue (`memory_queue.go`) | buffered channel, `closed`, WaitGroup, `done` | Enqueue, Dequeue, DequeueOrWait, Ack, Nack, Requeue, Retry, Recover, sweep, Close | storage |
| SortedQueue (`sorted_que.go`) | sorted slice, signal channel of size 1, `closed` | the same | storage |
| RateLimitedQueue (`rate_limited.go`) | a MemoryQueue, token bucket, refill goroutine | Dequeue, DequeueOrWait, AvailableTokens, Close, the rest inherited | storage |
| Router (`router.go`) | the three queues | Enqueue by type, polling in the order priority, rate-limited, FIFO; Ack, Nack, Requeue, Retry always on the FIFO queue; Recover, Close | queues |
| Worker pool (`worker/pool.go`) | per worker: current job, cancel function, preempt slot; `done`, death signals, WaitGroup | worker loop, processJob, Preempt, supervise, Stop, Wait | router, processor |
| API (`api/handlers.go`) | none | CreateJob, RetryJob; reads | storage, router, pool |
| Email processor (`jobs/email`) | none | Process: an SMTP conversation in a goroutine, raced against the context | network |
| Server (`cmd/server/main.go`) | life of the process | start, recover, serve, shut down | all |
| Metrics (`metrics`) | Prometheus counters, gauges, histograms | incremented by storage, pool and API | read by scrapes |
| Configuration, dashboard, experiments | none | not modelled: values become constants, the page and the scripts only use the API | |

What is hard here: Enqueue against Close; workers against Recover, which starts
after them; sweepers against everything, because they act on a listing that is
old when used; preemption against a job that is just ending; Nack's read and
write of the retry counter; a crash, a panic or a failing statement between any
two steps; waiting on a full buffer or for a token while the server stops; a
worker that dies while the pool stops; a mail conversation that outlives its
attempt; a wake-up that comes between a look and a wait. The list, each at its line, is under `hazards` in `PROJECT.json`.

What makes each part correct: the queues lose, repeat and reorder nothing and
never panic (MemoryQueue), and hand out the most urgent job first
(SortedQueue); every dead worker is noticed and replaced once, and Wait waits
for exactly the goroutines there are (pool); a job is completed only when its
mail was accepted, and no goroutine or conversation is left over (email
processor); a job is in one place at a time as long as nothing is
re-read from the table (pool, router, API); the table only makes legal
transitions and the counters stay in budget (storage); every persisted job comes
to rest (recovery, sweepers, supervisor); shutdown ends (server).

## Modules

| Module | Models |
| --- | --- |
| `FifoContract` | abstract: a bounded FIFO channel that can be shut |
| `MemoryQueue` | Enqueue, Dequeue, DequeueOrWait, Close of `MemoryQueue`, one step per channel or WaitGroup operation; any number of callers |
| `MemoryQueueProofs` | theorems about it |
| `JobOrder` | the order of waiting jobs and insertion by it |
| `PriorityContract` | abstract: a queue that hands out a job no other one goes ahead of |
| `JobOrderProofs` | lemmas about order, insertion and number of entries |
| `SortedQueue` | Enqueue, Dequeue, DequeueOrWait, Close of `SortedQueue`, with the signal channel |
| `SortedQueueProofs` | theorems about it |
| `WorkerPool` | goroutines, death signals, supervisor, WaitGroup, Stop and Wait of `Pool` |
| `WorkerPoolProofs` | theorems about it |
| `EmailProcessor` | Process, its sender goroutine and the contexts, over the attempts of one job |
| `EmailProcessorProofs` | theorems about it |
| `JobLifecycle` | abstract: what may happen to the row of a job |
| `JobStore` | the table and the counters; one operator per SQL statement |
| `Router` | the three queues and the token bucket as their callers see them |
| `JobSystem` | the composition: handlers, workers, slots, supervisor, recovery, sweepers, shutdown, crash |
| `JobSystemProofs` | theorems about it that hold through sweeps, stops and crashes |
| `CustodyProofs` | theorems about who holds a job, the life of its row and the counters while nothing is re-read from the table |
| `RecoveryProofs` | theorems about what crashes, restarts and sweeps leave of a job |
| `MC...` | instances for TLC |

`JobSystem` extends `Router`, which extends `JobStore`, which extends `JobOrder`;
`SortedQueue` and `PriorityContract` extend `JobOrder` too. `Router` treats a put
and a take as one step; that is what `MemoryQueue` and `SortedQueue` are proved
to implement. `JobSystem` in turn treats a panic and the restart of the
worker as two steps, and Process as returning nil or an error; `WorkerPool` and
`EmailProcessor` look inside these.

### MemoryQueue

`life` is "open", "closing" once Close has set `closed` and closed `done` (both
under the mutex), "closed" once `close(q.jobs)` is done. `enq`, `deq`, `cls` say
where each caller is; `wg` is the WaitGroup. The section under the mutex is one
step. `SelectSend`, `SelectDone`, `SelectTimeout` are the arms of Enqueue's
select; the timeout arm needs a full buffer, because a parked sender is served
by the receive that makes room. Go's panics (send on closed channel, second
close, negative WaitGroup) are not steps but invariants: they do not happen.
`sent` and `got` are history.

### SortedQueue

The slice changes under the mutex, the signal is sent after it is released.
`signal` is 0 or 1; a send to a full channel does nothing. A consumer that found
nothing is in "wait" (Dequeue) or "pollwait" (DequeueOrWait) until it receives
the signal, sees `done` closed or its timer ends; DequeueOrWait looks once more
and no further. `put` and `got` are history and the refinement mapping.

### WorkerPool

A goroutine is a pair of a worker ID and a generation, because the deferred
calls of a dead worker run beside its replacement. `at` goes through the stages
of `worker`: the loop, then death signal, `recoverWorker` with `wg.Done`, and
the alive counter, in the order in which deferred calls run. The supervisor's
receive, backoff, `wg.Add` and `go` are steps of their own. A worker that leaves
because the pool stops sends a death signal as well, as in the code.

A poll ends with a job, with none, or in the token loop of the rate-limited
queue (`TakeLimited`, `GetToken`), which nobody promises to end. The WaitGroup is
Go's: a Wait that finds the counter above zero sleeps, the Done that takes it to
zero wakes it in a second step (`Release`), and the woken Wait looks at the
counter once more. An Add from zero in between panics, or makes the woken Wait
panic; either ends the process (`main` is "crashed").

### EmailProcessor

`attempt` counts the attempts; each has its own context, sender, channel `done`
and message at the server. Canceling a context (preemption, or the deferred
cancel) ends a dial only; a conversation is bounded by the deadline set on the
connection, which is the deadline of the context. The server decides about a
message it was sent in its own time, also after the sender has given up.

### JobSystem

| Variable | Code |
| --- | --- |
| `db` | the jobs table; `age` is "old" when updated_at is more than ten minutes ago |
| `counter` | the counters of completed, failed and retried jobs, of all queue types together |
| `queue`, `tokens` | the queues and the bucket |
| `worker[w]` | where worker `w` is; its job; ctx.Err() of its context (none, live, canceled, deadline); the counters its Nack has read |
| `slot[w]` | `Pool.preemptQueue` |
| `unqueued` | history: the jobs whose last Enqueue, by a handler, Nack or Requeue, returned an error in this process |
| `api[j]` | how far the handler for job `j` is |
| `todo[l]` | what Recover or a sweeper has listed and not handled yet, with the status the listing had |
| `phase`, `rec` | down, recovering (and which queue), serving, draining (srv.Shutdown), closed (router.Close), stopping (pool.Stop) |
| `faults` | how many faults of each kind happened |
| `fails` | history: attempts charged to each job |

Every SQL statement, channel operation and section under `Pool.mu` is a step.
Steps of one goroutine are merged only where nothing can tell: SetProcessing
with the registration of the job, the last statement of processJob with the
deferred unregistering, the look at the slot with the pop of the priority queue
(a slot is filled only while its worker has a job). One round of
`Router.DequeueOrWait` always ends at the top of the worker loop.

Jobs are numbers, in the order of created_at. Payloads, error messages and the
other metrics are left out. A statement may fail (`db` faults), a worker may panic,
the process may crash at any step or be stopped by SIGTERM; what happens next is
the code's. A crash clears everything but `db`. When an Enqueue of Recover finds
no room and nobody is about to make some (`RecoverTimesOut`), the process ends
by log.Fatal, as often as it happens. A failing statement of Recover ends the
process too and is one of the crashes; so is the panic of the WaitGroup at the
end of a shutdown, when no worker has a job any more (`NoJobAfterWait`).

## Runs

| Run | Instance | Shows |
| --- | --- | --- |
| `memory_queue` | 2 callers of each kind, 2 jobs, buffer 2, 4 calls | no panic, a nil is final, implements `FifoContract`: nothing is accepted after the close; Enqueue, Close and Dequeue return |
| `sorted_queue` | 2 Enqueue callers, 1 consumer, 3 jobs of two priorities, 4 calls | slice in order, no lost wake-up, Dequeue returns, implements `PriorityContract` |
| `worker_pool` | 2 workers, 2 panics each, waits for tokens, a stop at any time | one goroutine per ID, exact WaitGroup, no signal dropped, nobody at a job once Wait is over or has panicked, the dead are replaced, /health recovers, Wait ends unless a worker waits for a token for ever |
| `email` | 2 charged attempts and a preemption | completed means accepted, no overlapping conversations but after a preemption, a confirmed mail is resent only when cut short, senders end, the job settles |
| `custody` | 3 jobs, one per queue, two super-urgent; 2 workers; a panic, a failing statement, a manual retry | one place per job, pending jobs held, finished jobs released, retry budget, cancellation only for an urgent job, table and counters tell the truth, the table follows `JobLifecycle` |
| `recovery` | 1 job, 2 workers, buffer 1, FIFO sweeper, a crash and a panic | the job is found after the crash and comes to rest although copies of it are made |
| `recovered_jobs` | 2 jobs (FIFO, priority), 1 worker, buffer 2, FIFO sweeper, a crash | while it serves, the process holds every job that is not over, but for those whose Enqueue gave up |
| `shutdown` | 2 priority jobs, 1 worker, a stop and a restart, no sweeper | shutdown ends, the rest is found and done after the restart |

The other runs show where the code departs from what the repository says of it;
`findings` in `PROJECT.json` quotes the lines.

| Run | What happens |
| --- | --- |
| `recover_loop` | more unfinished jobs than buffer and workers take: Recover times out, the process dies and starts over, forever |
| `shutdown_hang` | a worker waiting for a token when the refill has stopped waits forever |
| `rate_limit_bypass` | a super-urgent rate-limited job, whose priority should be ignored, preempts a running one and starts from the slot without a token |
| `nack_test` | with two retries the second Nack fails the job; TestNack_MaxRetries says the third, with a retry count of 3 |

Seen in the models, without a run of its own:

- a job that is chosen for preemption while it is being nacked is charged for the
  attempt (`pool.go:107` looks at the registration only), and an attempt that
  fails by itself while its preemption arrives is not;
- a failed or preempted rate-limited job comes back through the FIFO queue and
  is started without a token (`router.go:105`): a second way past the bucket;
- a manual retry on SQLite clears retry_count and raises max_retries as well
  (`sqlite.go:372`; `handlers.go:313` says "Gives a failed job 3 more retries"):
  with `Backend` set to "sqlite", `custody` violates `AttemptsWithinBudget`;
- recovery puts a job into two queues (`router.go:143`), and the second copy takes
  a completed row back to processing (`sqlite.go:218` speaks of a "terminal
  state"), so `TerminalIsFinal` is stated only where nothing is re-read;
- a worker that panicked counts itself off before the supervisor counts its
  replacement (`pool.go:294`), so Wait may return before a replacement has exited
  (`pool.go:84` says "until all workers have exited"), or the Add meets a Wait that
  is being woken and the WaitGroup panics in a goroutine that does not recover
  (`pool.go:266` says that one bad job does not crash the pool): `worker_pool`
  reaches both, and `NoJobAfterWait` says that nobody is at a job then;
- a preempted or failed job of the priority queue waits in the FIFO queue from
  then on, behind everything else (`router.go:105`);
- a sweep enqueues every pending job, also the ones that wait in a queue
  (`memory_queue.go:195`), and only the priority sweeper looks at the type;
- the counters count an update from completed to completed, which copies of a
  job cause after a recovery or a sweep (`sqlite.go:207` speaks of "real
  transitions"), so `CountersAgree` is checked where no copies are made;
- two callers of SortedQueue.Dequeue may share one wake-up, and a consumer in
  its select may be told nil by Close although a job waits;
- a mail is sent again after an error of Quit, after a timeout or a preemption
  that comes too late, and a failed job may have had its mail delivered.

### Bounds

Two workers are enough for every race between two holders of a job. `MaxRetries`
is 2 (3 in the code), so a job can fail, be retried and be exhausted. A buffer
of 1 makes Enqueue time out; in `custody` and `shutdown` the buffer holds every
copy, so that nothing is orphaned by a timeout. `SortedBound` stands for the
priority queue's missing limit and is never reached. `MaxFaults` bounds each
kind of fault. `CountTo` stops the counters and the history `fails`: it is above
what `custody` reaches and 0 where no property looks at them. `recovery` has
one job, because copies of it multiply: a second job would matter to it by
filling the buffer, and the copies do that. It has no failing statements, which
`custody` has: what they leave, a row nobody holds, a panic and a full buffer
leave too. A second job matters to `recovered_jobs`, which has two and a buffer of 2 that the copies of either fill;
an Enqueue of the other one then times out. (With a buffer of 1 Recover itself
fails, as often as it is tried, and each time copies are made.) `recover_loop`
has three jobs, one more than buffer and worker hold. `shutdown` has no panic:
it has no sweeper either, and without one the row of a job whose processor
panicked stays as it is until a restart. `MaxCalls` leaves room for a
full buffer and a late caller, `MaxPanics` for a worker that dies and whose
replacement dies as well, `MaxPreempts` for one sender that outlives its attempt
beside two that do not.

### Fairness

Goroutines inside a call keep running (weak fairness of each goroutine's steps),
Process returns because its context has a timeout, the refill and sweeper
tickers tick, time passes, and the process is restarted when it ends
(`restart: unless-stopped` in `docker-compose.yml`). Strong fairness is assumed
of a worker taking a job only: its select has a timer of zero beside the
channel, and Go chooses among ready cases at random. Nobody is obliged to
submit, retry, stop, preempt, panic or crash anything. A worker of `WorkerPool`
that waits for a token is owed none, because the refill stops before the pool;
in `JobSystem` the refill is modelled, and ticks while the queues are open. And
neither network nor mail server has to answer: in `EmailProcessor` only time, and
the failure of what is past its deadline, are fair.

A job is assumed to be processed in less than ten minutes (`timeout.job_seconds`
is 30), so the sweepers reset no row whose worker is alive, and a recovery to be
over before the first tick of a sweeper, five minutes after the start.

## Proofs

### MemoryQueue

`MemoryQueueProofs` proves, for any finite set of Enqueue callers, any Dequeue
and Close callers, any jobs and any positive capacity (`QueueAssumption`), the
safety properties of the run `memory_queue` and that `MemoryQueue` implements
`FifoContract`. None of the properties is inductive alone. The invariant is
`QueueInv`: the types; the WaitGroup counts the calls past the closed check; a
closer past the check has set the flag, a closer past wg.Wait sees no call in
progress, and so it is when the channel is closed; at most one closer is on its
way; the history is what was received followed by the buffer. The close protocol
is safe because the flag is set under the mutex that the check takes: once the
counter is zero after that, no call can join. `StepCases` lists the forms of a
step, one lemma per conjunct shows it is kept, and the refinement maps sends to
Put, receives to Get, `close(q.jobs)` to Shut and every other step to stuttering.

### SortedQueue

For any callers, jobs and priorities. `SortedInv` adds to the types and to the
two properties that what was put is what was handed out and what is in the slice
(`CountInv`). That an insertion keeps the order rests on lemmas of
`JobOrderProofs`: the order is a strict linear one, the place found for a job is
behind everything ahead of it and before everything it is ahead of, and the new
slice is the old one with the job at that place. A wake-up is not lost because a
producer stays in "signal" from its insertion to its send, and a consumer that
takes the signal looks again before it waits. In the refinement the first entry
of an ordered slice is a job no other waiting one goes ahead of.

### WorkerPool

For any non-empty finite set of workers and any number of panics. `PoolInv` says
who owns a worker ID (`IdInv`): a goroutine that has not sent its death signal,
the signal in the channel, or the supervisor that has received it; at most one
of them, and at most once. So the channel, with a place per worker, has room for
every signal, and a replacement is the only goroutine of its ID. The WaitGroup
and the alive counter are the numbers of goroutines at certain stages, by
counting with `FiniteSetTheorems`. That nobody has a job after Wait, or when the
WaitGroup panics, follows from the WaitGroup being exact: once the counter came to
zero after Stop nobody has a job (`JobsOver`), and a goroutine that the supervisor
launches late finds the pool stopped.

### EmailProcessor

For any number of charged attempts and preemptions. `EmailInv` relates the four
places where an attempt leaves traces: a sender that reports success has read
the server's answer; only the last attempt has a live context, and a context
that was released normally leaves no sender behind; what the worker does agrees
with the row and with what came through the channel.

### JobSystem

`JobSystemProofs` holds for every instance: any jobs, workers, priorities,
sweepers and numbers of faults, with crashes, restarts and shutdown. `SystemInv`
adds to the types that a worker has a job exactly between taking and leaving it
(`WorkerShape`), and that slots and handlers in their preemption step hold
super-urgent jobs (`UrgentOnly`). A worker whose context is canceled therefore
never loses the urgent job: its slot is emptied only at the top of the loop.

`CustodyProofs` assumes `NoRereading`: no sweeper ticks, the process is neither
killed nor stopped. Panics, failing statements, timeouts of Enqueue, preemptions
and manual retries are all there, in any number. The condition is needed:
recovery and sweeps make copies of a job.
`CustodyInv` says of each job (`JobInv`)

- that at most one queue, worker, slot or handler holds it (`OneHolder`);
- what the row of a held job says, worker stage by worker stage (`RowOfHeld`):
  this is what excludes a second holder when Retry revives a failed job, or when
  Ack and Nack write without looking at the status;
- that nothing happened before it was created (`RowOfNew`);
- that an unfinished job has attempts left and that the counters a Nack has read
  are still those of the row when it writes them back (`Attempts`);
- that an unfinished job has a holder, up to the faults that may take it away
  (`HolderOf`).

`Same` says that a step does not touch a job; it keeps `JobInv` of that job.
`OnJob`, with `GoesOn` or `LetsGo`, is what a worker may do to its own. Every
step touches at most one job, so the proof has one lemma per kind of step on
one job. `PendingJobsAreHeld` needs `RoomForAll`, a buffer with room for every
job: otherwise an Enqueue may time out and leave the job in the table only.
`AttemptsAreBounded` is for Postgres: on SQLite a manual retry clears the counter.
`ExtraRetries` is assumed to be positive (3 in `ResetForRetry`): a revived job
has an attempt left. `RowsFollowLifecycle` classifies what a step does to
the table (`RowMove`) and maps each case to an action of `JobLifecycle`;
a requeue of a job whose start was not recorded is a stutter there. `OverIsOver`
says that completed is for ever and failed until a manual retry.

The counters (`CountersTellTheTable`) need two more facts of a state
(`CountInv`): the counters agree with the rows and with the number of manual
retries, and the budget of a row is what it was created with and what the manual
retries have added. The second one bounds the attempts of all jobs together, so
that `CountTo` is never in the way: `CountsAll` says that it is that large, as it
is in `custody` (three jobs with at most 2 + 1 attempts, `CountTo` 9). Each case
of `RowMove` says what was counted: Ack one completion, Nack one failure or one
retry, and nothing else anything. That the sum of the retry counters follows the
one row that a step changes is an induction over the set of jobs. The induction
theorems of the library are out of reach, but `WFMin`, which speaks of sets
instead of predicates, is not: `Reaches` (a set of numbers with 0 and all
successors is `Nat`) and `Shrinks` (what goes from a set without the element a
fold takes first to the whole set holds of every subset) follow from it. With
them `SumExists` shows that the recursive function inside `MapThenSumSet` exists,
`SumBounded` and `SumFollows` how it behaves. The theorem is for Postgres: on
SQLite a manual retry clears retry_count and the sum with it.

`RecoveryProofs` drops `NoRereading`: crashes, stops, restarts, sweeps, manual
retries and preemptions in any number, and any number of copies of a job. What is
shown is that a job is not lost (`RecoveredIsHeld`). `RecoveryInv` says of each
job (`Safe`), until a statement fails or a processor panics (`Unharmed`),

- a pending job is held, or its last Enqueue gave up (`Tracked`), or Recover
  still has it on its list: the first listing, for the FIFO queue, does not look
  at the queue type and so has every job that is not over;
- a processing row belongs to a worker that will write it again and is fresh, or
  Recover has it on the list as unfinished;
- so a sweeper lists pending jobs only, and what it enqueues twice is held at
  least once.

`Kept` says that a step leaves a job's row alone and takes the job from nobody;
one lemma per kind of step shows `Kept` of the jobs it is not about, and `Safe` of
the one it is about. `EnqueueEnds` is where a full channel comes in: the job is in
the queue, or it is in `unqueued` and the caller was told. `RecoveryFindsAll` has
no hypotheses: any number of jobs and workers, any capacity, any number of
faults. What the property leaves out is what the code leaves to the sweeper: a
worker that dies leaves its row in processing, a statement that fails leaves it
as it was, and an Enqueue that gives up leaves the job in the table. That the
sweeper repairs them is `Settles`, which is model-checked.

### Only model-checked

The liveness properties, all of them: fairness and ENABLED are out of the
prover's reach. Every invariant of the passing runs, every action property and
every refinement is the statement of a theorem.

## Plan

Done: the models of all components; proofs of all safety properties. A
continuation could relax the hypotheses: custody with a bounded number of copies
instead of none, `RecoveredIsHeld` with panics, for the jobs of the workers that
are alive, and a bound on the copies that sweeps make.

## Not modelled

Configuration loading (a rate of zero divides by zero, a burst of zero never
hands out a job; LoadConfig checks only port and workers); the blocking Dequeue
of the router and of the rate-limited queue, which nothing calls; the other
metrics; the handlers that only read, whose answers are views of the table, and
the dashboard; SQL text and payloads; the SMTP commands before the message one
by one; two instances on one database.
