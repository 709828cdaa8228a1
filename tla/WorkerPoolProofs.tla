-------------------------- MODULE WorkerPoolProofs --------------------------
(***************************************************************************)
(* Proofs about WorkerPool for any finite set of workers and any number of *)
(* panics.                                                                 *)
(*                                                                         *)
(* The argument: an ID is in one hand only.  Either a goroutine runs with  *)
(* it or is about to send its death signal, or the signal is in the        *)
(* channel, or the supervisor holds it.  So the channel never holds an ID  *)
(* twice nor one whose signal is still to come, which is why its capacity  *)
(* of one entry per worker is enough.                                      *)
(***************************************************************************)
EXTENDS WorkerPool, FiniteSetTheorems, TLAPS

\* The goroutine has its ID until its death signal is sent.
Owns(r) == Running(r) \/ at[r] = "signal"

\* An ID is owned by one goroutine, once in the channel, or with the
\* supervisor.
IdInv ==
  /\ \A r, s \in Routines : Owns(r) /\ Owns(s) /\ r[1] = s[1] => r = s
  /\ \A r \in Routines : Owns(r) => dead # r[1]
  /\ \A r \in Routines : \A i \in 1..Len(workerDied) :
       Owns(r) => workerDied[i] # r[1]
  /\ \A i \in 1..Len(workerDied) : workerDied[i] # dead
  /\ \A i, k \in 1..Len(workerDied) : workerDied[i] = workerDied[k] => i = k
  /\ dead \in Workers <=> sup \in {"backoff", "add", "spawn"}

\* The goroutines that p.wg and p.aliveWorkers count.
Counted == {r \in Routines : Running(r) \/ at[r] \in {"signal", "wgdone"}}

Alive == {r \in Routines :
            at[r] \in {"loop", "polling", "token", "busy", "signal", "wgdone",
                      "release", "alive"}}

AliveExact == aliveWorkers = Cardinality(Alive)

\* The counter has come to zero under Wait: nobody has a job any more.
JobsOver ==
  /\ (\E r \in Routines : at[r] = "release") => done
  /\ main \in {"released", "waited", "crashed"}
       \/ (\E r \in Routines : at[r] = "release") =>
     \A r \in Routines : at[r] \notin {"polling", "token", "busy"}

PoolInv == TypeOK /\ IdInv /\ WgExact /\ AliveExact /\ JobsOver

\* The steps of a goroutine that change no counter and not the channel.
QuietStep(r) ==
  \/ Look(r) \/ Take(r) \/ TakeLimited(r) \/ GetToken(r) \/ NoJob(r)
  \/ JobDone(r) \/ Panic(r)

\* Every step has one of these forms.
LEMMA StepCases ==
  ASSUME [Next]_vars
  PROVE  \/ UNCHANGED vars
         \/ \E r \in Routines :
              \/ QuietStep(r) \/ Enter(r)
              \/ SendDied(r) \/ WgDone(r) \/ Release(r) \/ AliveDone(r)
         \/ ReceiveDied \/ BackoffOver \/ AddWorker \/ Spawn
         \/ SupervisorEnds \/ Stop \/ Wait \/ WaitReturn
  BY DEF Next, WorkerStep, WorkerLuck, SupervisorStep, QuietStep

\* There are finitely many goroutines.
LEMMA RoutinesFinite ==
  ASSUME NEW S \in SUBSET Routines
  PROVE  IsFiniteSet(S) /\ Cardinality(S) \in Nat
<1>1. IsFiniteSet(0..MaxPanics)
  BY PoolAssumption, FS_Interval
<1>2. IsFiniteSet(Routines)
  BY <1>1, PoolAssumption, FS_Product DEF Routines
<1> QED
  BY <1>2, FS_Subset, FS_CardinalityType

\* A quiet step moves a goroutine inside the stages that are counted by both
\* counters, and only to its death signal out of a run.
LEMMA QuietMoves ==
  ASSUME TypeOK, NEW r \in Routines, QuietStep(r)
  PROVE  /\ at[r] \in {"loop", "polling", "token", "busy"}
         /\ \E to \in {"loop", "polling", "token", "busy", "signal"} :
              /\ at' = [at EXCEPT ![r] = to]
              /\ to \in {"polling", "token", "busy"} =>
                   ~done \/ at[r] \in {"polling", "token", "busy"}
         /\ UNCHANGED <<wg, aliveWorkers, workerDied, sup, dead, main>>
  BY DEF QuietStep, Look, Take, TakeLimited, GetToken, NoJob, JobDone,
         Panic, Moves, Quiet, done, TypeOK

\* The death signal finds room: the channel holds other workers' IDs only,
\* each at most once.
LEMMA RoomForSignal ==
  ASSUME TypeOK, IdInv
  PROVE  NoSignalDropped
<1> SUFFICES ASSUME NEW r \in Routines, at[r] = "signal"
             PROVE  Len(workerDied) < DiedCap
  BY DEF NoSignalDropped
<1> DEFINE Others == Workers \ {r[1]}
<1>1. r[1] \in Workers
  BY DEF Routines
<1>2. IsFiniteSet(Others) /\ Cardinality(Others) = Cardinality(Workers) - 1
  BY <1>1, PoolAssumption, FS_RemoveElement
<1>3. workerDied \in Injection(1..Len(workerDied), Others)
  <2>1. workerDied \in [1..Len(workerDied) -> Others]
    BY DEF TypeOK, IdInv, Owns
  <2>2. IsInjective(workerDied)
    BY DEF TypeOK, IdInv, IsInjective
  <2> QED
    BY <2>1, <2>2 DEF Injection
<1>4. Cardinality(1..Len(workerDied)) <= Cardinality(Others)
  BY <1>2, <1>3, FS_Injection
<1>5. Cardinality(1..Len(workerDied)) = Len(workerDied)
  BY FS_Interval DEF TypeOK
<1>6. Cardinality(Workers) \in Nat
  BY PoolAssumption, FS_CardinalityType
<1> QED
  BY <1>2, <1>4, <1>5, <1>6 DEF DiedCap, TypeOK

LEMMA IdStep ==
  ASSUME TypeOK, IdInv, [Next]_vars
  PROVE  IdInv'
<1> USE DEF TypeOK, Owns, Running, SupAt
<1>1. CASE UNCHANGED vars
  BY <1>1 DEF vars, IdInv
<1>2. ASSUME NEW r \in Routines, QuietStep(r) PROVE IdInv'
  BY <1>2, QuietMoves DEF IdInv
<1>3. ASSUME NEW r \in Routines,
             Enter(r) \/ WgDone(r) \/ Release(r) \/ AliveDone(r)
      PROVE  IdInv'
  BY <1>3 DEF Enter, WgDone, Release, AliveDone, Moves, Quiet, IdInv
<1>4. ASSUME NEW r \in Routines, SendDied(r) PROVE IdInv'
  <2>1. at[r] = "signal" /\ r[1] \in Workers
    BY <1>4 DEF SendDied, Moves, Routines
  <2>2. workerDied' = Append(workerDied, r[1])
    BY <1>4, <2>1, RoomForSignal DEF SendDied, NoSignalDropped
  <2>3. /\ Len(workerDied') = Len(workerDied) + 1
        /\ workerDied'[Len(workerDied) + 1] = r[1]
        /\ \A i \in 1..Len(workerDied) : workerDied'[i] = workerDied[i]
    BY <2>1, <2>2
  <2>4. at' = [at EXCEPT ![r] = "wgdone"] /\ UNCHANGED <<sup, dead>>
    BY <1>4 DEF SendDied, Moves
  <2>5. \A i \in 1..Len(workerDied') :
          i \in 1..Len(workerDied) \/ i = Len(workerDied) + 1
    BY <2>3
  <2>6. \A s \in Routines : Owns(s)' => Owns(s) /\ s # r
    BY <2>4
  <2>7. \A s \in Routines : Owns(s)' => s[1] # r[1]
    BY <2>1, <2>6 DEF IdInv
  <2>8. \A i \in 1..Len(workerDied) : workerDied[i] # r[1]
    BY <2>1 DEF IdInv
  <2>9. \A i, k \in 1..Len(workerDied') :
          workerDied'[i] = workerDied'[k] => i = k
    BY <2>3, <2>5, <2>8 DEF IdInv
  <2>10. dead # r[1]
    BY <2>1 DEF IdInv
  <2> QED
    BY <2>3, <2>4, <2>5, <2>6, <2>7, <2>9, <2>10 DEF IdInv
<1>5. CASE ReceiveDied
  <2>1. /\ workerDied # <<>>
        /\ dead' = workerDied[1]
        /\ Len(workerDied') = Len(workerDied) - 1
        /\ \A i \in 1..Len(workerDied') : workerDied'[i] = workerDied[i + 1]
    BY <1>5 DEF ReceiveDied
  <2>2. Len(workerDied) >= 1 /\ workerDied[1] \in Workers
    BY <2>1
  <2>3. sup' = "backoff" /\ at' = at
    BY <1>5 DEF ReceiveDied
  <2>4. \A i \in 1..Len(workerDied') :
          i + 1 \in 1..Len(workerDied) /\ i + 1 # 1
    BY <2>1
  <2>5. \A i \in 1..Len(workerDied') : workerDied'[i] # dead'
    BY <2>1, <2>2, <2>4 DEF IdInv
  <2>6. \A i, k \in 1..Len(workerDied') :
          workerDied'[i] = workerDied'[k] => i = k
    <3> SUFFICES ASSUME NEW i \in 1..Len(workerDied'),
                        NEW k \in 1..Len(workerDied'),
                        workerDied[i + 1] = workerDied[k + 1]
                 PROVE  i = k
      BY <2>1
    <3>1. i + 1 = k + 1
      BY <2>4 DEF IdInv
    <3> QED
      BY <3>1
  <2>7. \A r \in Routines : \A i \in 1..Len(workerDied') :
          Owns(r)' => workerDied'[i] # r[1]
    BY <2>1, <2>3, <2>4 DEF IdInv
  <2>8. \A r \in Routines : Owns(r)' => dead' # r[1]
    BY <2>1, <2>2, <2>3 DEF IdInv
  <2> QED
    BY <2>1, <2>2, <2>3, <2>5, <2>6, <2>7, <2>8 DEF IdInv
<1>6. CASE Spawn
  <2>1. PICK n \in 1..MaxPanics : at' = [at EXCEPT ![<<dead, n>>] = "starting"]
    BY <1>6 DEF Spawn
  <2>2. dead \in Workers /\ dead' = NoOne /\ sup' = "select"
        /\ workerDied' = workerDied
    BY <1>6 DEF Spawn, IdInv
  <2>3. <<dead, n>> \in Routines
    BY <2>1, <2>2, PoolAssumption DEF Routines
  <2>4. \A r \in Routines : r[1] \in Workers
    BY DEF Routines
  <2> QED
    BY <2>1, <2>2, <2>3, <2>4, NoOneAssumption DEF IdInv
<1>7. CASE BackoffOver \/ AddWorker \/ Stop \/ Wait \/ WaitReturn
  BY <1>7 DEF BackoffOver, AddWorker, Stop, Wait, WaitReturn, IdInv
<1>8. CASE SupervisorEnds
  <2>1. \A r \in Routines : r[1] \in Workers
    BY DEF Routines
  <2> QED
    BY <1>8, <2>1, NoOneAssumption DEF SupervisorEnds, IdInv
<1> QED
  BY <1>1, <1>2, <1>3, <1>4, <1>5, <1>6, <1>7, <1>8, StepCases

\* What a step does to the set that p.wg counts.
LEMMA WgStep ==
  ASSUME TypeOK, IdInv, WgExact, [Next]_vars
  PROVE  WgExact'
<1> DEFINE Extra == IF sup = "spawn" THEN 1 ELSE 0
<1> USE DEF TypeOK, SupAt
<1>1. Counted \in SUBSET Routines
  BY DEF Counted
<1>2. IsFiniteSet(Counted) /\ Cardinality(Counted) \in Nat
  BY <1>1, RoutinesFinite
<1>3. wg = Cardinality(Counted) + Extra
  BY DEF WgExact, Counted
<1>4. WgExact' <=> wg' = Cardinality(Counted') + Extra'
  BY DEF WgExact, Counted
<1>5. ASSUME UNCHANGED <<wg, sup>>, Counted' = Counted PROVE WgExact'
  BY <1>3, <1>4, <1>5
<1>6. CASE UNCHANGED vars
  BY <1>5, <1>6 DEF vars, Counted, Running
<1>7. ASSUME NEW r \in Routines, QuietStep(r) PROVE WgExact'
  <2>1. Counted' = Counted
    BY <1>7, QuietMoves DEF Counted, Running
  <2> QED
    BY <1>5, <1>7, <2>1, QuietMoves
<1>8. ASSUME NEW r \in Routines,
             Enter(r) \/ SendDied(r) \/ Release(r) \/ AliveDone(r)
      PROVE  WgExact'
  <2>1. Counted' = Counted
    BY <1>8 DEF Enter, SendDied, Release, AliveDone, Moves, Counted, Running
  <2> QED
    BY <1>5, <1>8, <2>1 DEF Enter, SendDied, Release, AliveDone, Moves, Quiet
<1>9. ASSUME NEW r \in Routines, WgDone(r) PROVE WgExact'
  <2>1. Counted' = Counted \ {r} /\ r \in Counted
    BY <1>9 DEF WgDone, Moves, Counted, Running
  <2>2. Cardinality(Counted') = Cardinality(Counted) - 1
    BY <1>2, <2>1, FS_RemoveElement
  <2> QED
    BY <1>2, <1>3, <1>4, <1>9, <2>2 DEF WgDone, Moves
<1>10. CASE AddWorker
  <2>1. Counted' = Counted
    BY <1>10 DEF AddWorker, Counted, Running
  <2> QED
    BY <1>2, <1>3, <1>4, <1>10, <2>1 DEF AddWorker
<1>11. CASE Spawn
  <2>1. PICK n \in 1..MaxPanics :
          /\ at[<<dead, n>>] = "none"
          /\ at' = [at EXCEPT ![<<dead, n>>] = "starting"]
    BY <1>11 DEF Spawn
  <2>2. <<dead, n>> \in Routines
    BY <1>11, <2>1, PoolAssumption DEF Spawn, IdInv, Routines
  <2>3. Counted' = Counted \cup {<<dead, n>>} /\ <<dead, n>> \notin Counted
    BY <2>1, <2>2 DEF Counted, Running
  <2>4. Cardinality(Counted') = Cardinality(Counted) + 1
    BY <1>2, <2>3, FS_AddElement
  <2> QED
    BY <1>2, <1>3, <1>4, <1>11, <2>4 DEF Spawn
<1>12. CASE \/ ReceiveDied \/ BackoffOver \/ SupervisorEnds
            \/ Stop \/ Wait \/ WaitReturn
  <2>1. Counted' = Counted
    BY <1>12 DEF ReceiveDied, BackoffOver, SupervisorEnds, Stop, Wait,
                 WaitReturn, Counted, Running
  <2> QED
    BY <1>3, <1>4, <1>12, <2>1
       DEF ReceiveDied, BackoffOver, SupervisorEnds, Stop, Wait, WaitReturn
<1> QED
  BY <1>6, <1>7, <1>8, <1>9, <1>10, <1>11, <1>12, StepCases

\* p.aliveWorkers counts the goroutines between their first and their last
\* statement.
LEMMA AliveStep ==
  ASSUME TypeOK, IdInv, AliveExact, [Next]_vars
  PROVE  AliveExact'
<1> USE DEF TypeOK, AliveExact, SupAt
<1>1. Alive \in SUBSET Routines
  BY DEF Alive
<1>2. IsFiniteSet(Alive) /\ Cardinality(Alive) \in Nat
  BY <1>1, RoutinesFinite
<1>3. ASSUME UNCHANGED aliveWorkers, Alive' = Alive PROVE AliveExact'
  BY <1>3
<1>4. CASE UNCHANGED vars
  BY <1>3, <1>4 DEF vars, Alive
<1>5. ASSUME NEW r \in Routines, QuietStep(r) PROVE AliveExact'
  <2>1. Alive' = Alive
    BY <1>5, QuietMoves DEF Alive
  <2> QED
    BY <1>3, <1>5, <2>1, QuietMoves
<1>6. ASSUME NEW r \in Routines, Enter(r) PROVE AliveExact'
  <2>1. Alive' = Alive \cup {r} /\ r \notin Alive
    BY <1>6 DEF Enter, Moves, Alive
  <2>2. Cardinality(Alive') = Cardinality(Alive) + 1
    BY <1>2, <2>1, FS_AddElement
  <2> QED
    BY <1>6, <2>2 DEF Enter
<1>7. ASSUME NEW r \in Routines, SendDied(r) \/ WgDone(r) \/ Release(r)
      PROVE  AliveExact'
  <2>1. Alive' = Alive
    BY <1>7 DEF SendDied, WgDone, Release, Moves, Alive
  <2> QED
    BY <1>3, <1>7, <2>1 DEF SendDied, WgDone, Release, Quiet
<1>8. ASSUME NEW r \in Routines, AliveDone(r) PROVE AliveExact'
  <2>1. Alive' = Alive \ {r} /\ r \in Alive
    BY <1>8 DEF AliveDone, Moves, Alive
  <2>2. Cardinality(Alive') = Cardinality(Alive) - 1
    BY <1>2, <2>1, FS_RemoveElement
  <2> QED
    BY <1>8, <2>2 DEF AliveDone
<1>9. CASE Spawn
  <2>1. PICK n \in 1..MaxPanics :
          /\ at[<<dead, n>>] = "none"
          /\ at' = [at EXCEPT ![<<dead, n>>] = "starting"]
    BY <1>9 DEF Spawn
  <2>2. Alive' = Alive
    BY <2>1 DEF Alive
  <2> QED
    BY <1>3, <1>9, <2>2 DEF Spawn, Supervising
<1>10. CASE \/ ReceiveDied \/ BackoffOver \/ AddWorker \/ SupervisorEnds
            \/ Stop \/ Wait \/ WaitReturn
  <2>1. Alive' = Alive
    BY <1>10 DEF ReceiveDied, BackoffOver, AddWorker, SupervisorEnds, Stop,
                 Wait, WaitReturn, Alive
  <2> QED
    BY <1>3, <1>10, <2>1 DEF ReceiveDied, BackoffOver, AddWorker,
                             SupervisorEnds, Stop, Wait, WaitReturn,
                             Supervising
<1> QED
  BY <1>4, <1>5, <1>6, <1>7, <1>8, <1>9, <1>10, StepCases

\* Neither counter becomes negative, because a goroutine that counts itself
\* off is counted.
LEMMA TypingStep ==
  ASSUME PoolInv, [Next]_vars
  PROVE  TypeOK'
<1> USE DEF PoolInv, TypeOK, Stages, Progress, SupAt
<1>1. CASE UNCHANGED vars
  BY <1>1 DEF vars
<1>2. ASSUME NEW r \in Routines, QuietStep(r) PROVE TypeOK'
  BY <1>2, QuietMoves
<1>3. ASSUME NEW r \in Routines, Enter(r) PROVE TypeOK'
  BY <1>3 DEF Enter, Moves
<1>4. ASSUME NEW r \in Routines, SendDied(r) PROVE TypeOK'
  <2>1. r[1] \in Workers
    BY DEF Routines
  <2> QED
    BY <1>4, <2>1 DEF SendDied, Moves
<1>5. ASSUME NEW r \in Routines, WgDone(r) PROVE TypeOK'
  <2>1. r \in Counted /\ Counted \in SUBSET Routines
    BY <1>5 DEF WgDone, Moves, Counted
  <2>2. Cardinality(Counted) \in Nat \ {0}
    BY <2>1, RoutinesFinite, FS_EmptySet
  <2>3. wg # 0
    BY <2>2 DEF WgExact, Counted
  <2> QED
    BY <1>5, <2>3 DEF WgDone, Moves
<1>6. ASSUME NEW r \in Routines, AliveDone(r) PROVE TypeOK'
  <2>1. r \in Alive /\ Alive \in SUBSET Routines
    BY <1>6 DEF AliveDone, Moves, Alive
  <2>2. aliveWorkers # 0
    BY <2>1, RoutinesFinite, FS_EmptySet DEF AliveExact
  <2> QED
    BY <1>6, <2>2 DEF AliveDone, Moves
<1>7. CASE ReceiveDied
  BY <1>7 DEF ReceiveDied, Supervising
<1>8. CASE \/ BackoffOver \/ AddWorker \/ SupervisorEnds
           \/ Stop \/ Wait \/ WaitReturn
  BY <1>8 DEF BackoffOver, AddWorker, SupervisorEnds, Stop, Wait, WaitReturn,
              Supervising
<1>9. CASE Spawn
  BY <1>9 DEF Spawn, Supervising
<1>10. ASSUME NEW r \in Routines, Release(r) PROVE TypeOK'
  BY <1>10 DEF Release, Quiet
<1> QED
  BY <1>1, <1>2, <1>3, <1>4, <1>5, <1>6, <1>7, <1>8, <1>9, <1>10, StepCases

\* A counter of zero counts nobody with a job, and so does one that the only
\* counted goroutine is about to take to zero.
LEMMA ZeroMeansOver ==
  ASSUME TypeOK, WgExact,
         wg = 0 \/ (wg = 1 /\ \E r \in Routines : at[r] = "wgdone")
  PROVE  \A r \in Routines : at[r] \notin {"polling", "token", "busy"}
<1>1. Counted \in SUBSET Routines /\ IsFiniteSet(Counted)
      /\ Cardinality(Counted) \in Nat
  BY RoutinesFinite DEF Counted
<1>2. Cardinality(Counted) <= wg
  BY <1>1 DEF WgExact, Counted, TypeOK
<1>3. CASE wg = 0
  <2>1. Counted = {}
    BY <1>1, <1>2, <1>3, FS_EmptySet
  <2> QED
    BY <2>1 DEF Counted, Running
<1>4. ASSUME NEW r \in Routines, wg = 1, at[r] = "wgdone"
      PROVE  \A s \in Routines : at[s] \notin {"polling", "token", "busy"}
  <2>1. r \in Counted
    BY <1>4 DEF Counted
  <2>2. IsFiniteSet(Counted \ {r})
        /\ Cardinality(Counted \ {r}) = Cardinality(Counted) - 1
    BY <1>1, <2>1, FS_RemoveElement
  <2>3. Cardinality(Counted \ {r}) \in Nat
    BY <2>2, FS_CardinalityType
  <2>4. Counted \ {r} = {}
    BY <1>1, <1>2, <1>4, <2>2, <2>3, FS_EmptySet
  <2> QED
    BY <1>4, <2>4 DEF Counted, Running
<1> QED
  BY <1>3, <1>4

\* When the counter comes to zero nobody has a job; later nobody gets one, the
\* loop seeing p.done.
LEMMA OverStep ==
  ASSUME PoolInv, [Next]_vars
  PROVE  JobsOver'
<1> USE DEF PoolInv, TypeOK, JobsOver, SupAt, done
<1>1. CASE UNCHANGED vars
  BY <1>1 DEF vars
<1>2. ASSUME NEW r \in Routines, QuietStep(r) PROVE JobsOver'
  <2>1. PICK to \in {"loop", "polling", "token", "busy", "signal"} :
          /\ at' = [at EXCEPT ![r] = to]
          /\ to \in {"polling", "token", "busy"} =>
               ~done \/ at[r] \in {"polling", "token", "busy"}
    BY <1>2, QuietMoves
  <2>2. main' = main
    BY <1>2, QuietMoves
  <2> QED
    BY <2>1, <2>2
<1>3. ASSUME NEW r \in Routines,
             Enter(r) \/ SendDied(r) \/ Release(r) \/ AliveDone(r)
      PROVE  JobsOver'
  BY <1>3 DEF Enter, SendDied, Release, AliveDone, Moves
<1>4. ASSUME NEW r \in Routines, WgDone(r) PROVE JobsOver'
  <2>1. CASE wg = 1 /\ main = "waiting"
    <3>1. at[r] = "wgdone" /\ main' = main
          /\ at' = [at EXCEPT ![r] = "release"]
      BY <1>4, <2>1 DEF WgDone, Moves
    <3>2. \A s \in Routines : at[s] \notin {"polling", "token", "busy"}
      BY <2>1, <3>1, ZeroMeansOver
    <3> QED
      BY <2>1, <3>1, <3>2
  <2>2. CASE ~(wg = 1 /\ main = "waiting")
    BY <1>4, <2>2 DEF WgDone, Moves
  <2> QED
    BY <2>1, <2>2
<1>5. CASE Wait \/ WaitReturn \/ AddWorker
  <2>1. wg = 0 => \A r \in Routines : at[r] \notin {"polling", "token", "busy"}
    BY ZeroMeansOver
  <2>2. at' = at
    BY <1>5 DEF Wait, WaitReturn, AddWorker
  <2>3. CASE main' = main
    BY <2>2, <2>3
  <2>4. CASE main' # main
    BY <1>5, <2>1, <2>2, <2>4 DEF Wait, WaitReturn, AddWorker
  <2> QED
    BY <2>3, <2>4
<1>6. CASE Spawn
  BY <1>6 DEF Spawn, Supervising
<1>7. CASE ReceiveDied \/ BackoffOver \/ SupervisorEnds \/ Stop
  BY <1>7 DEF ReceiveDied, BackoffOver, SupervisorEnds, Stop, Supervising
<1> QED
  BY <1>1, <1>2, <1>3, <1>4, <1>5, <1>6, <1>7, StepCases

-----------------------------------------------------------------------------
(* The theorems *)

LEMMA Invariance == Spec => []PoolInv
<1>1. Init => PoolInv
  <2> SUFFICES ASSUME Init PROVE PoolInv
    OBVIOUS
  <2>1. Cardinality(Workers) \in Nat
    BY PoolAssumption, FS_CardinalityType
  <2>2. TypeOK
    BY <2>1 DEF Init, TypeOK, Stages, Progress
  <2>3. IdInv
    <3>1. \A r, s \in Routines : r[2] = s[2] /\ r[1] = s[1] => r = s
      BY DEF Routines
    <3>2. \A r \in Routines : r[1] \in Workers
      BY DEF Routines
    <3> QED
      BY <3>1, <3>2, NoOneAssumption DEF Init, IdInv, Owns, Running
  <2>4. WgExact
    <3> DEFINE First == {r \in Routines : r[2] = 0}
               f == [w \in Workers |-> <<w, 0>>]
    <3>1. f \in [Workers -> First]
      BY PoolAssumption DEF Routines
    <3>2. \A v, w \in Workers : f[v] = f[w] => v = w
      OBVIOUS
    <3>3. \A r \in First : \E w \in Workers : f[w] = r
      BY DEF Routines
    <3>4. f \in Bijection(Workers, First)
      <4> HIDE DEF f, First
      <4> QED
        BY <3>1, <3>2, <3>3 DEF Bijection, Injection, Surjection, IsInjective
    <3>5. Cardinality(First) = Cardinality(Workers)
      <4> HIDE DEF f, First
      <4> QED
        BY <3>4, PoolAssumption, FS_Bijection DEF ExistsBijection
    <3>6. First = Counted
      BY DEF Init, Running, Counted
    <3>7. WgExact <=> wg = Cardinality(Counted)
                             + IF sup = "spawn" THEN 1 ELSE 0
      BY DEF WgExact, Counted
    <3> HIDE DEF First
    <3>8. wg = Cardinality(Counted) /\ sup # "spawn"
      BY <3>5, <3>6 DEF Init
    <3> QED
      BY <2>1, <3>7, <3>8 DEF Init
  <2>5. Alive = {}
    BY DEF Init, Alive
  <2>6. AliveExact
    BY <2>5, FS_EmptySet DEF Init, AliveExact
  <2> QED
    BY <2>2, <2>3, <2>4, <2>6 DEF Init, PoolInv, JobsOver
<1>2. PoolInv /\ [Next]_vars => PoolInv'
  BY TypingStep, IdStep, WgStep, AliveStep, OverStep DEF PoolInv
<1> QED
  BY <1>1, <1>2, PTL DEF Spec

\* Every variable keeps its type: neither p.wg, on whose negative value Go
\* would panic, nor p.aliveWorkers becomes negative.
THEOREM TypeCorrect == Spec => []TypeOK
<1>1. PoolInv => TypeOK
  BY DEF PoolInv
<1> QED
  BY <1>1, Invariance, PTL

\* No two goroutines run with one worker ID, however often workers die and
\* are replaced.
THEOREM IdsAreNotShared == Spec => []OneGoroutinePerID
<1>1. PoolInv => OneGoroutinePerID
  BY DEF PoolInv, IdInv, Owns, OneGoroutinePerID
<1> QED
  BY <1>1, Invariance, PTL

\* The WaitGroup counts the goroutines that have not passed wg.Done, and the
\* one about to be launched.
THEOREM WaitGroupExact == Spec => []WgExact
<1>1. PoolInv => WgExact
  BY DEF PoolInv
<1> QED
  BY <1>1, Invariance, PTL

\* The number that GET /health compares with the size of the pool is the
\* number of goroutines between their first and their last statement.
THEOREM AliveCounterExact == Spec => []AliveExact
<1>1. PoolInv => AliveExact
  BY DEF PoolInv
<1> QED
  BY <1>1, Invariance, PTL

\* A channel with one place per worker never drops a death signal.
THEOREM SignalsFindRoom == Spec => []NoSignalDropped
<1>1. PoolInv => NoSignalDropped
  BY RoomForSignal DEF PoolInv
<1> QED
  BY <1>1, Invariance, PTL

\* After pool.Wait nobody has or takes a job, so main may close the storage,
\* and a restart that makes the WaitGroup panic interrupts no job.
THEOREM WaitMeansNoJobs == Spec => []NoJobAfterWait
<1>1. PoolInv => NoJobAfterWait
  BY DEF PoolInv, JobsOver, NoJobAfterWait
<1> QED
  BY <1>1, Invariance, PTL
=============================================================================
