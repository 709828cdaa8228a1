----------------------------- MODULE WorkerPool -----------------------------
(***************************************************************************)
(* The goroutines of internal/worker/pool.go: the workers, the supervisor   *)
(* that replaces the ones that panicked, and main, which stops the pool and *)
(* waits for it.  What a worker does with a job is the subject of JobSystem; *)
(* here it is busy for a while and returns or panics.  The WaitGroup is      *)
(* Go's, with the two panics that Add and Wait may meet in each other; they  *)
(* are in goroutines that recover from nothing and end the process.         *)
(*                                                                         *)
(* A worker ID is used by one goroutine after the other, and the deferred   *)
(* calls of an old one may overlap the life of its successor.  A goroutine  *)
(* is therefore a pair of an ID and a generation.                           *)
(***************************************************************************)
EXTENDS Naturals, Sequences, FiniteSets

CONSTANTS
  Workers,     \* worker IDs
  MaxPanics    \* bound on the panics of one worker ID

ASSUME PoolAssumption ==
  /\ IsFiniteSet(Workers)
  /\ Workers # {}
  /\ MaxPanics \in Nat

Routines == Workers \X (0..MaxPanics)

\* Steps of a goroutine in the order it takes them; from "signal" on they are
\* its deferred calls, which run in reverse order of their defer statements.
Stages == {"none", "starting", "loop", "polling", "token", "busy",
           "signal", "wgdone", "release", "alive", "gone"}

\* How far main is: p.done is closed, wg.Wait has found the counter above
\* zero and sleeps, was woken, has returned; or the process has panicked.
Progress == {"serving", "stopped", "waiting", "released", "waited", "crashed"}

NoOne == "no one"

ASSUME NoOneAssumption == NoOne \notin Workers

VARIABLES
  at,            \* the stage of each goroutine
  wg,            \* p.wg
  aliveWorkers,  \* p.aliveWorkers
  workerDied,    \* the channel p.workerDied
  sup,           \* where the supervisor is
  dead,          \* the worker the supervisor is about to replace
  main           \* how far main is

vars == <<at, wg, aliveWorkers, workerDied, sup, dead, main>>

\* p.done is closed.
done == main # "serving"

\* The process has not panicked.
Up == main # "crashed"

\* Mutant: the channel has room for one signal.
DiedCapOne == 1

\* The capacity of p.workerDied.
DiedCap == Cardinality(Workers)

TypeOK ==
  /\ at \in [Routines -> Stages]
  /\ wg \in Nat
  /\ aliveWorkers \in Nat
  /\ workerDied \in Seq(Workers)
  /\ sup \in {"select", "backoff", "add", "spawn", "ended"}
  /\ dead \in Workers \cup {NoOne}
  /\ main \in Progress

\* Start: one goroutine per ID, counted before it is launched.
Init ==
  /\ at = [r \in Routines |-> IF r[2] = 0 THEN "starting" ELSE "none"]
  /\ wg = Cardinality(Workers)
  /\ aliveWorkers = 0
  /\ workerDied = <<>>
  /\ sup = "select"
  /\ dead = NoOne
  /\ main = "serving"

-----------------------------------------------------------------------------
(* The worker goroutine *)

\* Goroutine r goes from one stage to the next.
Moves(r, from, to) ==
  /\ Up
  /\ at[r] = from
  /\ at' = [at EXCEPT ![r] = to]
  /\ UNCHANGED <<sup, dead, main>>

Enter(r) ==
  /\ Moves(r, "starting", "loop")
  /\ aliveWorkers' = aliveWorkers + 1
  /\ UNCHANGED <<wg, workerDied>>

Quiet == UNCHANGED <<wg, aliveWorkers, workerDied>>

\* Mutant: the loop looks at p.done only after a job.
LookUnchecked(r) == Moves(r, "loop", "polling") /\ Quiet

\* The top of the loop: stop, or look for a job for up to 100ms.
Look(r) == Moves(r, "loop", IF done THEN "signal" ELSE "polling") /\ Quiet

\* A job from the slot or the queues.
Take(r) == Moves(r, "polling", "busy") /\ Quiet

\* A rate-limited job that was there after the look at the bucket, when
\* another worker had taken the token.
TakeLimited(r) == Moves(r, "polling", "token") /\ Quiet

\* The token loop ends.  Nothing says that it does: the refill stops before
\* the pool.
GetToken(r) == Moves(r, "token", "busy") /\ Quiet

NoJob(r) == Moves(r, "polling", "loop") /\ Quiet

JobDone(r) == Moves(r, "busy", "loop") /\ Quiet

\* Process panics and the deferred calls run.
Panic(r) ==
  /\ r[2] < MaxPanics
  /\ Moves(r, "busy", "signal")
  /\ Quiet

\* The death signal is sent, or dropped when the channel is full.
SendDied(r) ==
  /\ Moves(r, "signal", "wgdone")
  /\ workerDied' = IF Len(workerDied) < DiedCap
                   THEN Append(workerDied, r[1]) ELSE workerDied
  /\ UNCHANGED <<wg, aliveWorkers>>

\* Mutant: recoverWorker sends a death signal as well.
RecoverSignals(r) ==
  /\ Moves(r, "wgdone",
           IF wg = 1 /\ main = "waiting" THEN "release" ELSE "alive")
  /\ wg' = wg - 1
  /\ workerDied' = IF Len(workerDied) < DiedCap
                   THEN Append(workerDied, r[1]) ELSE workerDied
  /\ UNCHANGED aliveWorkers

\* recoverWorker, which ends the panic, and wg.Done.  Who takes the counter
\* to zero under a sleeping Wait has to wake it.
WgDone(r) ==
  /\ Moves(r, "wgdone",
           IF wg = 1 /\ main = "waiting" THEN "release" ELSE "alive")
  /\ wg' = wg - 1
  /\ UNCHANGED <<aliveWorkers, workerDied>>

\* The second half of that wg.Done: the waiter is taken off and woken.
Release(r) ==
  /\ Up
  /\ at[r] = "release"
  /\ at' = [at EXCEPT ![r] = "alive"]
  /\ main' = "released"
  /\ Quiet /\ UNCHANGED <<sup, dead>>

\* Mutant: nobody counts the goroutine off.
StillAlive(r) == Moves(r, "alive", "gone") /\ Quiet

AliveDone(r) ==
  /\ Moves(r, "alive", "gone")
  /\ aliveWorkers' = aliveWorkers - 1
  /\ UNCHANGED <<wg, workerDied>>

-----------------------------------------------------------------------------
(* The supervisor *)

SupAt(place) == Up /\ sup = place

Supervising == UNCHANGED <<aliveWorkers, main>>

\* case id := <-p.workerDied; the backoff of a second begins.
ReceiveDied ==
  /\ SupAt("select")
  /\ workerDied # <<>>
  /\ dead' = Head(workerDied)
  /\ workerDied' = Tail(workerDied)
  /\ sup' = "backoff"
  /\ Supervising /\ UNCHANGED <<at, wg>>

\* The second is over before the pool is stopped.
BackoffOver ==
  /\ SupAt("backoff")
  /\ ~done
  /\ sup' = "add"
  /\ Supervising /\ UNCHANGED <<at, wg, workerDied, dead>>

\* Mutant: the new goroutine is not counted.
AddUncounted ==
  /\ SupAt("add")
  /\ sup' = "spawn"
  /\ Supervising /\ UNCHANGED <<at, wg, workerDied, dead>>

\* wg.Add(1).  From zero it panics while a Wait is still to be woken.
AddWorker ==
  /\ SupAt("add")
  /\ wg' = wg + 1
  /\ sup' = "spawn"
  /\ main' = IF wg = 0 /\ main = "waiting" THEN "crashed" ELSE main
  /\ UNCHANGED <<at, aliveWorkers, workerDied, dead>>

\* go p.worker(id).
Spawn ==
  /\ SupAt("spawn")
  /\ \E n \in 1..MaxPanics :
       /\ at[<<dead, n>>] = "none"
       /\ \A m \in 0..n - 1 : at[<<dead, m>>] # "none"
       /\ at' = [at EXCEPT ![<<dead, n>>] = "starting"]
  /\ dead' = NoOne
  /\ sup' = "select"
  /\ Supervising /\ UNCHANGED <<wg, workerDied>>

\* case <-p.done, in either select.
SupervisorEnds ==
  /\ SupAt("select") \/ SupAt("backoff")
  /\ done
  /\ sup' = "ended"
  /\ dead' = NoOne
  /\ Supervising /\ UNCHANGED <<at, wg, workerDied>>

-----------------------------------------------------------------------------
(* Stop and Wait *)

Stop ==
  /\ main = "serving"
  /\ main' = "stopped"
  /\ UNCHANGED <<at, wg, aliveWorkers, workerDied, sup, dead>>

\* Wait returns at once when the counter is zero, and sleeps otherwise.
Wait ==
  /\ main = "stopped"
  /\ main' = IF wg = 0 THEN "waited" ELSE "waiting"
  /\ UNCHANGED <<at, wg, aliveWorkers, workerDied, sup, dead>>

\* A woken Wait panics when the counter is in use again, and else returns.
WaitReturn ==
  /\ main = "released"
  /\ main' = IF wg = 0 THEN "waited" ELSE "crashed"
  /\ UNCHANGED <<at, wg, aliveWorkers, workerDied, sup, dead>>

-----------------------------------------------------------------------------
\* What a goroutine does by itself: it gets or does not get a job, and it
\* finishes the one it has.
WorkerStep(r) ==
  \/ Enter(r) \/ Look(r) \/ Take(r) \/ NoJob(r) \/ JobDone(r)
  \/ SendDied(r) \/ WgDone(r) \/ Release(r) \/ AliveDone(r)

\* What may happen to it.
WorkerLuck(r) == Panic(r) \/ TakeLimited(r) \/ GetToken(r)

SupervisorStep ==
  ReceiveDied \/ BackoffOver \/ AddWorker \/ Spawn \/ SupervisorEnds

Next ==
  \/ \E r \in Routines : WorkerStep(r) \/ WorkerLuck(r)
  \/ SupervisorStep
  \/ Stop
  \/ Wait
  \/ WaitReturn

Spec == Init /\ [][Next]_vars

\* Goroutines run, Process returns within its timeout, main waits.  Nothing
\* obliges a worker to panic, a token to come or an operator to stop the
\* server.
Fairness ==
  /\ \A r \in Routines : WF_vars(WorkerStep(r))
  /\ WF_vars(SupervisorStep)
  /\ WF_vars(Wait \/ WaitReturn)

FairSpec == Spec /\ Fairness

\* What GET /health reports.
Degraded == aliveWorkers < Cardinality(Workers)

-----------------------------------------------------------------------------
(* Properties *)

Running(r) == at[r] \in {"starting", "loop", "polling", "token", "busy"}

\* Two goroutines never run with one worker ID: they would share the entry
\* in p.workers and the preempt slot.
OneGoroutinePerID ==
  \A r, s \in Routines :
    Running(r) /\ Running(s) /\ r[1] = s[1] => r = s

\* p.wg counts the goroutines that main has to wait for, and the one that
\* the supervisor is about to launch.
WgExact ==
  wg = Cardinality({r \in Routines : Running(r) \/ at[r] \in {"signal", "wgdone"}})
         + IF sup = "spawn" THEN 1 ELSE 0

\* The death signal of a panicking worker is never dropped: the channel has
\* room whenever one is sent.
NoSignalDropped ==
  \A r \in Routines : at[r] = "signal" => Len(workerDied) < DiedCap

\* After Wait has returned, main closes the storage.  A worker that the
\* supervisor launches that late takes no job any more.  And when its restart
\* makes the WaitGroup panic, the process dies with nobody at a job.
NoJobAfterWait ==
  main \in {"waited", "crashed"} =>
    \A r \in Routines : at[r] \notin {"polling", "token", "busy"}

\* A worker that died is replaced, unless the pool is stopped.
DeadIsReplaced ==
  \A w \in Workers :
    (\A r \in Routines : r[1] = w => ~Running(r))
      ~> done \/ \E r \in Routines : r[1] = w /\ Running(r)

\* GET /health reports a degraded pool for a while only: every worker is
\* counted again, and none that is gone.
HealthRecovers ==
  Degraded \/ aliveWorkers > Cardinality(Workers)
    ~> done \/ aliveWorkers = Cardinality(Workers)

\* A call of Wait that never ends is always the fault of a worker that waits
\* for a token for ever: neither a death signal, nor a restart in progress,
\* nor a wake-up that overlaps one leaves main asleep.
WaitReturns ==
  <>[](main \in {"stopped", "waiting", "released"})
    => \E r \in Routines : <>[](at[r] = "token")
=============================================================================
