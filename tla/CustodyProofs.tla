--------------------------- MODULE CustodyProofs ----------------------------
(***************************************************************************)
(* Who holds a job while the process lives: proofs about JobSystem for any *)
(* jobs, workers, panics, failing statements and manual retries, as long   *)
(* as nothing is read from the table again (no sweep, no restart); what    *)
(* becomes of the rows then, and that the counters agree with them.        *)
(***************************************************************************)
EXTENDS JobSystemProofs

\* The sweepers do not tick, and the process neither dies nor is stopped.
NoRereading ==
  Sweepers = {} /\ MaxFaults["crash"] = 0 /\ MaxFaults["stop"] = 0

\* Job j waits in queue q.
Waits(j, q) == \E i \in 1..Len(queue[q]) : queue[q][i] = j

\* No job is twice in s.
Distinct(s) == \A m, n \in 1..Len(s) : s[m] = s[n] => m = n

\* No two of queues, workers, slots and handlers hold job j.
OneHolder(j) ==
  /\ \A q, r \in QueueNames : Waits(j, q) /\ Waits(j, r) => q = r
  /\ \A v, w \in Workers : worker[v].job = j /\ worker[w].job = j => v = w
  /\ \A v, w \in Workers : slot[v] = j /\ slot[w] = j => v = w
  /\ \A q \in QueueNames : Waits(j, q) =>
       /\ \A w \in Workers : worker[w].job # j /\ slot[w] # j
       /\ ~InHandler(j)
  /\ \A v, w \in Workers : worker[v].job = j => slot[w] # j
  /\ \A w \in Workers : InHandler(j) => worker[w].job # j /\ slot[w] # j

\* What the table says of a job that is held.
RowOfHeld(j) ==
  /\ \A q \in QueueNames : Waits(j, q) => db[j].status = "pending"
  /\ \A w \in Workers : slot[w] = j => db[j].status = "pending"
  /\ InHandler(j) => db[j].status = "pending"
  /\ \A w \in Workers : worker[w].job = j =>
       /\ db[j].status \in {"pending", "processing"}
       /\ worker[w].at \in {"token", "claimed", "put"}
            => db[j].status = "pending"
       /\ worker[w].at \in {"running", "ack", "failed", "nack"}
            /\ faults["db"] = 0 => db[j].status = "processing"

\* A job that was not created yet, and the time before the first one is.
RowOfNew(j) ==
  /\ api[j] = "new" => db[j].status = "none"
  /\ phase # "serving" => db[j].status = "none" /\ ~InHandler(j)
  /\ db[j].status = "none" => db[j].retry = 0 /\ db[j].max = 0 /\ fails[j] = 0

\* The attempts of a job.
Attempts(j) ==
  /\ db[j].retry <= db[j].max
  /\ db[j].status \in {"pending", "processing"} => db[j].retry < db[j].max
  /\ Backend = "postgres" => fails[j] <= db[j].retry
  /\ \A w \in Workers : worker[w].job = j /\ worker[w].at = "nack" =>
       worker[w].retry = db[j].retry + 1 /\ worker[w].max = db[j].max

Held(j) ==
  \/ \E q \in QueueNames : Waits(j, q)
  \/ \E w \in Workers : worker[w].job = j \/ slot[w] = j
  \/ InHandler(j)

RoomForAll == IsFiniteSet(Jobs) /\ Cardinality(Jobs) <= BufferSize

\* A job that is not over is held.
HolderOf(j) ==
  /\ RoomForAll /\ faults["db"] = 0 /\ db[j].status = "pending" => Held(j)
  /\ faults["panic"] = 0 /\ faults["db"] = 0 /\ db[j].status = "processing"
       => \E w \in Workers : worker[w].job = j

JobInv(j) ==
  OneHolder(j) /\ RowOfHeld(j) /\ RowOfNew(j) /\ Attempts(j) /\ HolderOf(j)

\* Nothing is read from the table again.
Calm ==
  /\ phase \in {"down", "recovering", "serving"}
  /\ todo = [l \in Listers |-> NoList]

CustodyInv ==
  /\ Calm
  /\ \A q \in QueueNames : Distinct(queue[q])
  /\ \A j \in Jobs : JobInv(j)

-----------------------------------------------------------------------------
(* Queues *)

\* A new entry at position p leaves the entries distinct.
LEMMA InsertedOnce ==
  ASSUME NEW s, NEW t, NEW j, Len(s) \in Nat,
         NEW p \in 1..Len(s) + 1, Len(t) = Len(s) + 1,
         \A i \in 1..Len(s) + 1 :
           t[i] = IF i < p THEN s[i] ELSE IF i = p THEN j ELSE s[i - 1],
         \A i \in 1..Len(s) : s[i] # j,
         Distinct(s)
  PROVE  Distinct(t)
<1>1. ASSUME NEW x \in 1..Len(s) + 1, NEW y \in 1..Len(s) + 1,
             x < y, t[x] = t[y]
      PROVE  FALSE
  <2> USE DEF Distinct
  <2>1. CASE y < p
    BY <1>1, <2>1
  <2>2. CASE y = p
    BY <1>1, <2>2
  <2>3. CASE y > p /\ x = p
    BY <1>1, <2>3
  <2>4. CASE y > p /\ x < p
    BY <1>1, <2>4
  <2>5. CASE y > p /\ x > p
    BY <1>1, <2>5
  <2> QED
    BY <2>1, <2>2, <2>3, <2>4, <2>5
<1>2. ASSUME NEW x \in 1..Len(s) + 1, NEW y \in 1..Len(s) + 1, t[x] = t[y]
      PROVE  x = y
  <2>1. x < y \/ y < x \/ x = y
    OBVIOUS
  <2> QED
    BY <1>1, <1>2, <2>1
<1> QED
  BY <1>2 DEF Distinct

\* A put adds the job to one queue.
LEMMA PutWaits ==
  ASSUME queue \in [QueueNames -> Seq(Jobs)], NEW q \in QueueNames,
         NEW j \in Jobs, Put(q, j)
  PROVE  /\ \A k \in Jobs, r \in QueueNames :
              Waits(k, r)' <=> Waits(k, r) \/ (k = j /\ r = q)
         /\ ~Waits(j, q) /\ (\A r \in QueueNames : Distinct(queue[r]))
              => \A r \in QueueNames : Distinct(queue'[r])
<1> DEFINE s == queue[q]
           t == queue'[q]
<1>1. s \in Seq(Jobs) /\ \A r \in QueueNames \ {q} : queue'[r] = queue[r]
  BY DEF Put
<1>2. \E p \in 1..Len(s) + 1 :
        /\ t \in Seq(Jobs) /\ Len(t) = Len(s) + 1
        /\ \A i \in 1..Len(s) + 1 :
             t[i] = IF i < p THEN s[i] ELSE IF i = p THEN j ELSE s[i - 1]
  <2>1. CASE q = "priority"
    <3>1. t = InsertSorted(s, j)
      BY <2>1 DEF Put
    <3> HIDE DEF s, t
    <3> QED
      BY <1>1, <3>1, InsertEntries, PlaceFound
  <2>2. CASE q # "priority"
    <3>1. t = Append(s, j)
      BY <2>2 DEF Put
    <3> HIDE DEF s, t
    <3>2. /\ t \in Seq(Jobs) /\ Len(t) = Len(s) + 1
          /\ Len(s) + 1 \in 1..Len(s) + 1
          /\ \A i \in 1..Len(s) + 1 :
               t[i] = IF i < Len(s) + 1 THEN s[i]
                      ELSE IF i = Len(s) + 1 THEN j ELSE s[i - 1]
      BY <1>1, <3>1
    <3> QED
      BY <3>2
  <2> QED
    BY <2>1, <2>2
<1>3. PICK p \in 1..Len(s) + 1 :
        /\ t \in Seq(Jobs) /\ Len(t) = Len(s) + 1
        /\ \A i \in 1..Len(s) + 1 :
             t[i] = IF i < p THEN s[i] ELSE IF i = p THEN j ELSE s[i - 1]
  BY <1>2
<1> HIDE DEF s, t
<1>4. Len(s) \in Nat
  BY <1>1
<1>5. ASSUME NEW k \in Jobs
      PROVE  (\E i \in 1..Len(t) : t[i] = k)
               <=> (\E i \in 1..Len(s) : s[i] = k) \/ k = j
  <2>1. ASSUME NEW i \in 1..Len(s), s[i] = k
        PROVE  \E m \in 1..Len(t) : t[m] = k
    <3>1. CASE i < p
      BY <1>3, <1>4, <2>1, <3>1
    <3>2. CASE i >= p
      <4>1. i + 1 \in 1..Len(s) + 1 /\ ~(i + 1 < p) /\ i + 1 # p
            /\ (i + 1) - 1 = i
        BY <1>3, <1>4, <3>2
      <4>2. t[i + 1] = s[i]
        BY <1>3, <4>1
      <4> QED
        BY <1>3, <2>1, <4>1, <4>2
    <3> QED
      BY <1>3, <1>4, <3>1, <3>2
  <2>2. t[p] = j
    BY <1>3
  <2>3. ASSUME NEW i \in 1..Len(t), t[i] = k, k # j
        PROVE  \E m \in 1..Len(s) : s[m] = k
    <3>1. CASE i < p
      BY <1>3, <1>4, <2>3, <3>1
    <3>2. CASE i > p
      <4>1. i - 1 \in 1..Len(s) /\ t[i] = s[i - 1]
        BY <1>3, <1>4, <3>2
      <4> QED
        BY <2>3, <4>1
    <3> QED
      BY <1>3, <1>4, <2>2, <2>3, <3>1, <3>2
  <2> QED
    BY <1>3, <2>1, <2>2, <2>3
<1>6. ASSUME NEW k \in Jobs, NEW r \in QueueNames
      PROVE  Waits(k, r)' <=> Waits(k, r) \/ (k = j /\ r = q)
  <2>1. CASE r = q
    BY <1>5, <2>1 DEF Waits, s, t
  <2>2. CASE r # q
    BY <1>1, <2>2 DEF Waits
  <2> QED
    BY <2>1, <2>2
<1>7. ASSUME ~Waits(j, q), Distinct(s) PROVE Distinct(t)
  <2>1. \A i \in 1..Len(s) : s[i] # j
    BY <1>7 DEF Waits, s
  <2> QED
    BY <1>3, <1>4, <1>7, <2>1, InsertedOnce
<1>8. ASSUME ~Waits(j, q), \A r \in QueueNames : Distinct(queue[r])
      PROVE  \A r \in QueueNames : Distinct(queue'[r])
  BY <1>1, <1>7, <1>8 DEF s, t
<1> QED
  BY <1>6, <1>8

\* A take removes the job from one queue.
LEMMA TakeWaits ==
  ASSUME queue \in [QueueNames -> Seq(Jobs)], NEW q \in QueueNames, NEW j,
         Take(q, j), \A r \in QueueNames : Distinct(queue[r])
  PROVE  /\ j \in Jobs /\ Waits(j, q)
         /\ \A k \in Jobs, r \in QueueNames :
              Waits(k, r)' <=> Waits(k, r) /\ ~(k = j /\ r = q)
         /\ \A r \in QueueNames : Distinct(queue'[r])
<1> DEFINE s == queue[q]
           t == queue'[q]
<1>1. s \in Seq(Jobs) /\ \A r \in QueueNames \ {q} : queue'[r] = queue[r]
  BY DEF Take
<1>2. s # <<>> /\ j = Head(s) /\ t = Tail(s)
  BY DEF Take
<1>3. \A m, n \in 1..Len(s) : s[m] = s[n] => m = n
  BY DEF Distinct
<1> HIDE DEF s, t
<1>4. /\ j = s[1] /\ j \in Jobs
      /\ Len(s) \in Nat /\ Len(s) >= 1
      /\ t \in Seq(Jobs)
      /\ Len(t) = Len(s) - 1
      /\ \A i \in 1..Len(s) - 1 : t[i] = s[i + 1]
  BY <1>1, <1>2
<1>5. ASSUME NEW k \in Jobs
      PROVE  (\E i \in 1..Len(t) : t[i] = k)
               <=> (\E i \in 1..Len(s) : s[i] = k) /\ k # j
  <2>1. ASSUME NEW i \in 1..Len(t), t[i] = k
        PROVE  (\E m \in 1..Len(s) : s[m] = k) /\ k # j
    <3>1. i + 1 \in 1..Len(s) /\ s[i + 1] = k /\ i + 1 # 1
      BY <1>4, <2>1
    <3>2. k # s[1]
      BY <1>3, <1>4, <3>1
    <3> QED
      BY <1>4, <3>1, <3>2
  <2>2. ASSUME NEW i \in 1..Len(s), s[i] = k, k # j
        PROVE  \E m \in 1..Len(t) : t[m] = k
    <3>1. i # 1 /\ i - 1 \in 1..Len(t) /\ t[i - 1] = s[i]
      BY <1>4, <2>2
    <3> QED
      BY <2>2, <3>1
  <2> QED
    BY <2>1, <2>2
<1>6. Distinct(t)
  <2> SUFFICES ASSUME NEW m \in 1..Len(s) - 1, NEW n \in 1..Len(s) - 1,
                      s[m + 1] = s[n + 1]
               PROVE  m = n
    BY <1>4 DEF Distinct
  <2> QED
    BY <1>3, <1>4
<1>7. ASSUME NEW k \in Jobs, NEW r \in QueueNames
      PROVE  Waits(k, r)' <=> Waits(k, r) /\ ~(k = j /\ r = q)
  <2>1. CASE r = q
    BY <1>5, <2>1 DEF Waits, s, t
  <2>2. CASE r # q
    BY <1>1, <2>2 DEF Waits
  <2> QED
    BY <2>1, <2>2
<1>8. Waits(j, q)
  BY <1>4 DEF Waits, s
<1> QED
  BY <1>1, <1>4, <1>6, <1>7, <1>8 DEF t

\* A queue without job j has room for it when the buffer has room for all.
LEMMA RoomLeft ==
  ASSUME RoomForAll, TypeOK, NEW q \in QueueNames, Distinct(queue[q]),
         NEW j \in Jobs, ~Waits(j, q)
  PROVE  Len(queue[q]) < BufferSize
<1> DEFINE s == queue[q]
           R == Jobs \ {j}
           f == [i \in 1..Len(s) |-> s[i]]
<1>1. s \in Seq(Jobs) /\ Len(s) \in Nat
  BY TypeParts
<1>2. f \in [1..Len(s) -> R]
  BY <1>1 DEF Waits
<1>3. f \in Injection(1..Len(s), R)
  BY <1>2 DEF Injection, IsInjective, Distinct
<1>4. IsFiniteSet(R) /\ Cardinality(R) = Cardinality(Jobs) - 1
  BY FS_RemoveElement DEF RoomForAll
<1>5. Cardinality(1..Len(s)) = Len(s)
  <2>1. ASSUME NEW n \in Nat PROVE Cardinality(1..n) = n
    BY FS_Interval
  <2> QED
    BY <1>1, <2>1
<1>6. Cardinality(1..Len(s)) <= Cardinality(R)
  <2> HIDE DEF f, R, s
  <2> QED
    BY <1>3, <1>4, FS_Injection DEF ExistsInjection
<1>7. Cardinality(Jobs) \in Nat /\ Cardinality(Jobs) <= BufferSize
  BY FS_CardinalityType DEF RoomForAll
<1> QED
  BY <1>1, <1>4, <1>5, <1>6, <1>7, RouterAssumption

LEMMA WaitsSame ==
  ASSUME UNCHANGED queue
  PROVE  /\ \A k \in Jobs, q \in QueueNames : Waits(k, q)' <=> Waits(k, q)
         /\ (\A q \in QueueNames : Distinct(queue[q]))
              => \A q \in QueueNames : Distinct(queue'[q])
  BY DEF Waits

-----------------------------------------------------------------------------
(* Steps that do not touch a job *)

\* Row, holders and attempts of job k stay as they are.
Same(k) ==
  /\ \A q \in QueueNames : Waits(k, q)' <=> Waits(k, q)
  /\ \A w \in Workers : worker[w].job = k \/ worker'[w].job = k =>
       /\ worker'[w].job = worker[w].job
       /\ worker'[w].at = worker[w].at
       /\ worker'[w].retry = worker[w].retry
       /\ worker'[w].max = worker[w].max
  /\ \A w \in Workers : slot'[w] = k <=> slot[w] = k
  /\ api'[k] = api[k]
  /\ db'[k] = db[k]
  /\ fails'[k] = fails[k]

\* Faults are not forgotten, and the server goes on serving.
Onward ==
  /\ faults'["db"] = 0 => faults["db"] = 0
  /\ faults'["panic"] = 0 => faults["panic"] = 0
  /\ phase' # "serving" => phase # "serving"

LEMMA SameKeeps ==
  ASSUME NEW k \in Jobs, JobInv(k), Same(k), Onward
  PROVE  JobInv(k)'
<1> USE DEF JobInv, Same, Onward, InHandler
<1>1. OneHolder(k)'
  BY DEF OneHolder
<1>2. RowOfHeld(k)'
  BY DEF RowOfHeld
<1>3. RowOfNew(k)'
  BY DEF RowOfNew
<1>4. Attempts(k)'
  BY DEF Attempts
<1>5. HolderOf(k)'
  BY DEF HolderOf, Held, RoomForAll
<1> QED
  BY <1>1, <1>2, <1>3, <1>4, <1>5

LEMMA FaultsGrow ==
  ASSUME TypeOK,
         Fault("crash") \/ Fault("panic") \/ Fault("db") \/ Fault("stop")
           \/ Fault("retry") \/ UNCHANGED faults
  PROVE  /\ \A k \in FaultKinds : faults'[k] = 0 => faults[k] = 0
         /\ Fault("db") => faults'["db"] # 0
         /\ Fault("panic") => faults'["panic"] # 0
<1>1. faults \in [FaultKinds -> Nat]
  BY DEF TypeOK
<1>2. ASSUME NEW k \in FaultKinds, Fault(k)
      PROVE  /\ \A i \in FaultKinds : faults'[i] = 0 => faults[i] = 0
             /\ faults'[k] # 0
  BY <1>1, <1>2 DEF Fault
<1>3. {"crash", "panic", "db", "stop", "retry"} \subseteq FaultKinds
  BY DEF FaultKinds
<1> QED
  BY <1>2, <1>3

\* Nobody holds a job that is over or was never created.
LEMMA FreeJob ==
  ASSUME NEW j \in Jobs, JobInv(j),
         db[j].status \notin {"pending", "processing"}
  PROVE  /\ \A q \in QueueNames : ~Waits(j, q)
         /\ \A w \in Workers : worker[w].job # j /\ slot[w] # j
         /\ ~InHandler(j)
  BY DEF JobInv, RowOfHeld

\* How the functions of the state look.
LEMMA Shapes ==
  ASSUME TypeOK
  PROVE  /\ db \in [Jobs -> Row]
         /\ queue \in [QueueNames -> Seq(Jobs)]
         /\ worker \in [Workers -> WorkerRecord]
         /\ slot \in [Workers -> Jobs \cup {NoJob}]
         /\ api \in [Jobs -> {"new", "saved", "enqueue", "retry", "created",
                              "error"}]
         /\ faults \in [FaultKinds -> Nat]
         /\ fails \in [Jobs -> Nat]
         /\ NoJob \notin Jobs
  BY TypeParts, OrderAssumption DEF PlainTypeOK, StoreTypeOK, NoJob

-----------------------------------------------------------------------------
(* The handlers *)

\* SaveJob and ResetForRetry find a job that nobody holds; from then on the
\* handler does.
LEMMA CreateCustody ==
  ASSUME SystemInv, CustodyInv, NEW j \in Jobs, CreateJob(j) \/ RetryJob(j)
  PROVE  (\A k \in Jobs \ {j} : Same(k)) /\ JobInv(j)'
<1> USE Shapes DEF SystemInv
<1>1. /\ UNCHANGED <<queue, worker, slot, fails, phase>>
      /\ phase = "serving"
      /\ \E r \in {"saved", "enqueue", "retry"} : api' = [api EXCEPT ![j] = r]
  BY DEF CreateJob, RetryJob, Reply, mem
<1>2. JobInv(j) /\ db[j] \in Row
  BY DEF CustodyInv
<1>3. db[j].status \notin {"pending", "processing"}
  BY <1>2 DEF CreateJob, RetryJob, ResetForRetry, JobInv, RowOfNew
<1>4. /\ db'[j].status = "pending"
      /\ db'[j].retry < db'[j].max /\ db'[j].retry <= db'[j].max
      /\ Backend = "postgres" => fails[j] <= db'[j].retry
      /\ \A k \in Jobs \ {j} : db'[k] = db[k]
  <2>1. CASE CreateJob(j)
    <3>1. db[j].status = "none" /\ fails[j] = 0
      BY <1>2, <2>1 DEF CreateJob, JobInv, RowOfNew
    <3>2. MaxRetries \in Nat /\ 0 < MaxRetries
      BY StoreAssumption
    <3>3. db' = [db EXCEPT ![j] = [status |-> "pending", retry |-> 0,
                                   max |-> MaxRetries, age |-> "fresh"]]
      BY <2>1 DEF CreateJob, SaveJob
    <3>4. /\ db'[j].status = "pending" /\ db'[j].retry = 0
          /\ db'[j].max = MaxRetries
          /\ \A k \in Jobs \ {j} : db'[k] = db[k]
      BY <3>3
    <3> QED
      BY <3>1, <3>2, <3>4
  <2>2. CASE RetryJob(j)
    <3> DEFINE n == IF Backend = "sqlite" THEN 0 ELSE db[j].retry
               m == db[j].max + ExtraRetries
    <3>1. Revived(j, n)
      BY <2>2 DEF RetryJob, ResetForRetry
    <3>2. /\ db[j].retry \in Nat /\ db[j].max \in Nat /\ fails[j] \in Nat
          /\ ExtraRetries \in Nat /\ 0 < ExtraRetries
      BY <1>2, StoreAssumption DEF Row
    <3>3. /\ db[j].retry <= db[j].max
          /\ Backend = "postgres" => fails[j] <= db[j].retry
      BY <1>2 DEF JobInv, Attempts
    <3>4. /\ n \in Nat /\ m \in Nat /\ n < m
          /\ Backend = "postgres" => fails[j] <= n
      BY <3>2, <3>3
    <3>5. db' = [db EXCEPT ![j] = [db[j] EXCEPT !.status = "pending",
                   !.age = "fresh", !.max = m, !.retry = n]]
      BY <3>1 DEF Revived
    <3> HIDE DEF n, m
    <3>6. /\ db'[j].status = "pending" /\ db'[j].retry = n /\ db'[j].max = m
          /\ \A k \in Jobs \ {j} : db'[k] = db[k]
      BY <1>2, <3>5 DEF Row
    <3> QED
      BY <3>4, <3>6
  <2> QED
    BY <2>1, <2>2
<1>5. /\ \A q \in QueueNames : ~Waits(j, q)
      /\ \A w \in Workers : worker[w].job # j /\ slot[w] # j
  BY <1>2, <1>3, FreeJob
<1>6. \A k \in Jobs, q \in QueueNames : Waits(k, q)' <=> Waits(k, q)
  BY <1>1, WaitsSame
<1>7. ASSUME NEW k \in Jobs \ {j} PROVE Same(k)
  BY <1>1, <1>4, <1>6 DEF Same
<1>8. JobInv(j)'
  <2>1. InHandler(j)' /\ api'[j] # "new" /\ phase' = "serving"
    BY <1>1 DEF InHandler
  <2>2. db'[j].status = "pending" /\ fails'[j] = fails[j]
    BY <1>1, <1>4
  <2>3. /\ \A q \in QueueNames : ~Waits(j, q)'
        /\ \A w \in Workers : worker'[w].job # j /\ slot'[w] # j
    BY <1>1, <1>5, <1>6
  <2>4. OneHolder(j)'
    BY <2>3 DEF OneHolder
  <2>5. RowOfHeld(j)'
    BY <2>2, <2>3 DEF RowOfHeld
  <2>6. RowOfNew(j)'
    BY <2>1, <2>2 DEF RowOfNew
  <2>7. Attempts(j)'
    BY <1>4, <2>2, <2>3 DEF Attempts
  <2>8. HolderOf(j)'
    BY <2>1, <2>2 DEF HolderOf, Held
  <2> QED
    BY <2>4, <2>5, <2>6, <2>7, <2>8 DEF JobInv
<1> QED
  BY <1>7, <1>8

\* A handler that fails lets go of its job.
LEMMA HandlerFailsCustody ==
  ASSUME SystemInv, CustodyInv, NEW j \in Jobs, HandlerFails(j)
  PROVE  (\A k \in Jobs \ {j} : Same(k)) /\ JobInv(j)'
<1> USE Shapes DEF SystemInv
<1>1. /\ UNCHANGED <<db, queue, worker, slot, fails, phase>>
      /\ api' = [api EXCEPT ![j] = "error"]
      /\ faults'["db"] # 0
      /\ (phase = "serving" \/ api[j] = "retry")
  BY FaultsGrow DEF HandlerFails, Reply, mem, store
<1>2. JobInv(j)
  BY DEF CustodyInv
<1>3. \A k \in Jobs, q \in QueueNames : Waits(k, q)' <=> Waits(k, q)
  BY <1>1, WaitsSame
<1>4. ASSUME NEW k \in Jobs \ {j} PROVE Same(k)
  BY <1>1, <1>3 DEF Same
<1>5. ~InHandler(j)' /\ api'[j] # "new" /\ phase' = phase
  BY <1>1 DEF InHandler
<1>6. OneHolder(j)'
  BY <1>1, <1>2, <1>3, <1>5 DEF OneHolder, JobInv
<1>7. RowOfHeld(j)'
  BY <1>1, <1>2, <1>3, <1>5 DEF RowOfHeld, JobInv
<1>8. RowOfNew(j)' /\ Attempts(j)'
  BY <1>1, <1>2, <1>5 DEF RowOfNew, Attempts, JobInv
<1>9. HolderOf(j)'
  BY <1>1 DEF HolderOf
<1> QED
  BY <1>4, <1>6, <1>7, <1>8, <1>9 DEF JobInv

\* Pool.Preempt hands the job over to a slot, or leaves it with the handler.
LEMMA PreemptCustody ==
  ASSUME SystemInv, CustodyInv, NEW j \in Jobs,
         NoPreemption(j) \/ \E w \in Workers : Preempt(j, w)
  PROVE  (\A k \in Jobs \ {j} : Same(k)) /\ JobInv(j)'
<1> USE Shapes DEF SystemInv
<1>1. /\ UNCHANGED <<db, queue, fails, phase, faults>>
      /\ api[j] = "saved"
      /\ \A k \in Jobs \ {j} : api'[k] = api[k]
      /\ api'[j] \in {"enqueue", "created"}
  BY DEF NoPreemption, Preempt, CancelFirst, Reply, mem, store
<1>2. JobInv(j) /\ InHandler(j)
  BY <1>1 DEF CustodyInv, InHandler
<1>3. \A k \in Jobs, q \in QueueNames : Waits(k, q)' <=> Waits(k, q)
  BY <1>1, WaitsSame
<1>4. \A v \in Workers : /\ worker'[v].job = worker[v].job
                         /\ worker'[v].at = worker[v].at
                         /\ worker'[v].retry = worker[v].retry
                         /\ worker'[v].max = worker[v].max
  <2>1. CASE NoPreemption(j)
    BY <2>1 DEF NoPreemption, mem
  <2>2. ASSUME NEW w \in Workers, Preempt(j, w), NEW v \in Workers
        PROVE  /\ worker'[v].job = worker[v].job
               /\ worker'[v].at = worker[v].at
               /\ worker'[v].retry = worker[v].retry
               /\ worker'[v].max = worker[v].max
    <3> DEFINE c == IF worker[w].ctx = "live" THEN "canceled" ELSE worker[w].ctx
    <3>1. worker' = [worker EXCEPT ![w] = [worker[w] EXCEPT !.ctx = c]]
      BY <2>2 DEF Preempt, CancelFirst
    <3>2. worker[v] \in WorkerRecord /\ worker[w] \in WorkerRecord
      OBVIOUS
    <3> HIDE DEF c
    <3> QED
      BY <3>1, <3>2 DEF WorkerRecord
  <2> QED
    BY <2>1, <2>2
<1>5. \/ UNCHANGED slot /\ api'[j] = "enqueue"
      \/ /\ api'[j] = "created"
         /\ \E w \in Workers : slot[w] = NoJob /\ slot' = [slot EXCEPT ![w] = j]
  BY DEF NoPreemption, Preempt, CancelFirst, Preemptable, Reply, mem
<1>6. ASSUME NEW k \in Jobs \ {j} PROVE Same(k)
  BY <1>1, <1>3, <1>4, <1>5 DEF Same
<1>7. /\ \A q \in QueueNames : ~Waits(j, q)'
      /\ \A w \in Workers : worker'[w].job # j
      /\ \A w \in Workers : slot[w] # j
  BY <1>2, <1>3, <1>4 DEF JobInv, OneHolder
<1>8. \/ InHandler(j)' /\ \A w \in Workers : slot'[w] # j
      \/ /\ ~InHandler(j)'
         /\ \E v \in Workers : \A w \in Workers : slot'[w] = j <=> w = v
  <2>1. CASE UNCHANGED slot /\ api'[j] = "enqueue"
    BY <1>7, <2>1 DEF InHandler
  <2>2. ASSUME api'[j] = "created", NEW v \in Workers,
               slot' = [slot EXCEPT ![v] = j]
        PROVE  ~InHandler(j)' /\ \A w \in Workers : slot'[w] = j <=> w = v
    BY <1>7, <2>2 DEF InHandler
  <2> QED
    BY <1>5, <2>1, <2>2
<1>9. db'[j].status = "pending" /\ api'[j] # "new"
  BY <1>1, <1>2 DEF JobInv, RowOfHeld
<1>10. OneHolder(j)'
  BY <1>7, <1>8 DEF OneHolder
<1>11. RowOfHeld(j)'
  BY <1>7, <1>9 DEF RowOfHeld
<1>12. RowOfNew(j)'
  BY <1>1, <1>2, <1>9 DEF RowOfNew, JobInv
<1>13. Attempts(j)'
  BY <1>1, <1>2, <1>7 DEF Attempts, JobInv
<1>14. HolderOf(j)'
  BY <1>8, <1>9 DEF HolderOf, Held
<1> QED
  BY <1>6, <1>10, <1>11, <1>12, <1>13, <1>14 DEF JobInv

\* Router.Enqueue hands the job over to a queue; without room it is dropped,
\* which does not happen when the buffer has room for all jobs.
LEMMA EnqueueCustody ==
  ASSUME SystemInv, CustodyInv, NEW j \in Jobs, NEW q \in QueueNames,
         HandlerEnqueue(j, q)
  PROVE  /\ \A k \in Jobs \ {j} : Same(k)
         /\ JobInv(j)'
         /\ \A r \in QueueNames : Distinct(queue'[r])
<1> USE Shapes DEF SystemInv
<1>1. /\ UNCHANGED <<db, worker, slot, fails, phase, faults>>
      /\ InHandler(j)
      /\ \A k \in Jobs \ {j} : api'[k] = api[k]
      /\ api'[j] \in {"created", "error"}
  BY DEF HandlerEnqueue, Reply, store, InHandler
<1>2. JobInv(j) /\ \A r \in QueueNames : Distinct(queue[r])
  BY DEF CustodyInv
<1>3. /\ \A r \in QueueNames : ~Waits(j, r)
      /\ \A w \in Workers : worker[w].job # j /\ slot[w] # j
      /\ db[j].status = "pending"
  BY <1>1, <1>2 DEF JobInv, OneHolder, RowOfHeld
<1>4. /\ \A r \in QueueNames : Distinct(queue'[r])
      /\ \A k \in Jobs \ {j}, r \in QueueNames : Waits(k, r)' <=> Waits(k, r)
      /\ \A r \in QueueNames : Waits(j, r)' => r = q
      /\ RoomForAll => Waits(j, q)'
  <2>1. CASE Put(q, j)
    BY <1>2, <1>3, <2>1, PutWaits
  <2>2. CASE TimesOut(q) /\ UNCHANGED queue
    <3>1. q # "priority" /\ ~(Len(queue[q]) < BufferSize)
      BY <2>2 DEF TimesOut, Room
    <3>2. ~RoomForAll
      BY <1>2, <1>3, <3>1, RoomLeft
    <3> QED
      BY <1>2, <1>3, <2>2, <3>2, WaitsSame
  <2> QED
    BY <2>1, <2>2 DEF HandlerEnqueue, Queued, NotQueued
<1>5. ASSUME NEW k \in Jobs \ {j} PROVE Same(k)
  BY <1>1, <1>4 DEF Same
<1>6. ~InHandler(j)' /\ api'[j] # "new"
  BY <1>1 DEF InHandler
<1>7. OneHolder(j)'
  BY <1>1, <1>3, <1>4, <1>6 DEF OneHolder
<1>8. RowOfHeld(j)'
  BY <1>1, <1>3, <1>6 DEF RowOfHeld
<1>9. RowOfNew(j)' /\ Attempts(j)'
  BY <1>1, <1>2, <1>3, <1>6 DEF RowOfNew, Attempts, JobInv
<1>10. HolderOf(j)'
  BY <1>1, <1>3, <1>4 DEF HolderOf, Held, RoomForAll
<1> QED
  BY <1>4, <1>5, <1>7, <1>8, <1>9, <1>10 DEF JobInv

-----------------------------------------------------------------------------
(* The workers *)

\* Worker w is at step a with job i and the counters m and n, the other
\* workers are where they were.
Becomes(w, a, i, m, n) ==
  /\ \A v \in Workers \ {w} : worker'[v] = worker[v]
  /\ worker'[w].at = a /\ worker'[w].job = i
  /\ worker'[w].retry = m /\ worker'[w].max = n

LEMMA WorkerBecomes ==
  ASSUME TypeOK, NEW w \in Workers
  PROVE  /\ \A s : Goto(w, s) =>
              Becomes(w, s, worker[w].job, worker[w].retry, worker[w].max)
         /\ \A s, j : Holds(w, j, s) =>
              Becomes(w, s, j, worker[w].retry, worker[w].max)
         /\ Finish(w) => Becomes(w, "top", NoJob, 0, 0)
<1>1. worker \in [Workers -> WorkerRecord] /\ worker[w] \in WorkerRecord
  BY Shapes
<1>2. ASSUME NEW s, Goto(w, s)
      PROVE  Becomes(w, s, worker[w].job, worker[w].retry, worker[w].max)
  <2>1. worker' = [worker EXCEPT ![w] = [worker[w] EXCEPT !.at = s]]
    BY <1>1, <1>2 DEF Goto
  <2> QED
    BY <1>1, <2>1 DEF Becomes, WorkerRecord
<1>3. ASSUME NEW s, NEW j, Holds(w, j, s)
      PROVE  Becomes(w, s, j, worker[w].retry, worker[w].max)
  <2>1. worker' = [worker EXCEPT ![w] = [worker[w] EXCEPT !.at = s, !.job = j]]
    BY <1>1, <1>3 DEF Holds
  <2> QED
    BY <1>1, <2>1 DEF Becomes, WorkerRecord
<1>4. ASSUME Finish(w) PROVE Becomes(w, "top", NoJob, 0, 0)
  BY <1>1, <1>4 DEF Becomes, Finish, Idle
<1> QED
  BY <1>2, <1>3, <1>4

\* A worker that finds nothing holds nothing.
LEMMA MissCustody ==
  ASSUME SystemInv, NEW w \in Workers,
         \/ PriorityMiss(w) \/ LimitedMiss(w) \/ FifoMiss(w) \/ Exit(w)
         \/ Restart(w)
  PROVE  \A k \in Jobs : Same(k)
<1> USE Shapes DEF SystemInv
<1>1. UNCHANGED <<db, queue, slot, api, fails>>
  BY DEF PriorityMiss, LimitedMiss, FifoMiss, Exit, Restart, Polling, Working,
         store
<1>2. worker[w].at \notin Holding
  BY DEF PriorityMiss, LimitedMiss, FifoMiss, Exit, Restart, Holding
<1>3. worker[w].job = NoJob
  BY <1>2 DEF WorkerShape
<1>4. \E s, m, n : Becomes(w, s, NoJob, m, n)
  BY <1>3, WorkerBecomes
     DEF PriorityMiss, LimitedMiss, FifoMiss, Exit, Restart
<1>5. \A v \in Workers : v # w => worker'[v] = worker[v]
  BY <1>4 DEF Becomes
<1>6. worker'[w].job = NoJob
  BY <1>4 DEF Becomes
<1> QED
  BY <1>1, <1>3, <1>5, <1>6, WaitsSame DEF Same

\* A receive, a pop or the slot hands a job over to the worker.
LEMMA TakeCustody ==
  ASSUME SystemInv, CustodyInv, NEW w \in Workers, NEW j \in Jobs,
         \/ TakeSlot(w) /\ j = slot[w]
         \/ TakePriority(w, j) \/ TakeLimited(w, j) \/ TakeFifo(w, j)
  PROVE  /\ \A k \in Jobs \ {j} : Same(k)
         /\ JobInv(j)'
         /\ \A r \in QueueNames : Distinct(queue'[r])
<1> USE Shapes DEF SystemInv
<1>1. UNCHANGED <<db, api, fails, faults, phase>>
  BY DEF TakeSlot, ReadSlot, TakePriority, TakeLimited, TakeFifo, Polling, store
<1>2. JobInv(j) /\ \A r \in QueueNames : Distinct(queue[r])
  BY DEF CustodyInv
<1>3. worker[w].job = NoJob
  <2>1. worker[w].at \notin Holding
    BY DEF TakeSlot, ReadSlot, TakePriority, TakeLimited, TakeFifo, Holding
  <2> QED
    BY <2>1 DEF WorkerShape
<1>4. PICK s \in {"token", "claimed"} :
        Becomes(w, s, j, worker[w].retry, worker[w].max)
  BY WorkerBecomes DEF TakeSlot, ReadSlot, TakePriority, TakeLimited, TakeFifo
<1>5. /\ \A v \in Workers : worker'[v].job = j <=> v = w \/ worker[v].job = j
      /\ \A v \in Workers : v # w => worker'[v] = worker[v]
      /\ worker'[w].job = j /\ worker'[w].at = s
  BY <1>4 DEF Becomes
<1>6. /\ \A k \in Jobs, r \in QueueNames : Waits(k, r)' => Waits(k, r)
      /\ \A k \in Jobs \ {j}, r \in QueueNames : Waits(k, r)' <=> Waits(k, r)
      /\ \A k \in Jobs, v \in Workers : slot'[v] = k => slot[v] = k
      /\ \A k \in Jobs \ {j}, v \in Workers : slot'[v] = k <=> slot[v] = k
      /\ \/ \E v \in Workers : slot[v] = j /\ slot'[v] # j
         \/ \E q \in QueueNames : Waits(j, q) /\ ~Waits(j, q)'
      /\ \A r \in QueueNames : Distinct(queue'[r])
  <2>1. CASE TakeSlot(w) /\ j = slot[w]
    <3>1. UNCHANGED queue /\ slot' = [slot EXCEPT ![w] = NoJob]
      BY <2>1 DEF TakeSlot, ReadSlot
    <3> QED
      BY <1>2, <2>1, <3>1, WaitsSame
  <2>2. CASE TakePriority(w, j) \/ TakeLimited(w, j) \/ TakeFifo(w, j)
    <3>1. UNCHANGED slot /\ \E q \in QueueNames : Take(q, j)
      BY <2>2 DEF TakePriority, TakeLimited, TakeFifo, QueueNames
    <3> QED
      BY <1>2, <3>1, TakeWaits
  <2> QED
    BY <2>1, <2>2
<1>7. ASSUME NEW k \in Jobs \ {j} PROVE Same(k)
  <2>1. \A v \in Workers :
          worker[v].job = k \/ worker'[v].job = k => worker'[v] = worker[v]
    BY <1>3, <1>5
  <2> QED
    BY <1>1, <1>6, <2>1 DEF Same
<1>8. /\ \A r \in QueueNames : ~Waits(j, r)'
      /\ \A v \in Workers : slot'[v] # j
      /\ \A v \in Workers : worker[v].job # j
      /\ ~InHandler(j) /\ ~InHandler(j)'
  <2>1. CASE \E v \in Workers : slot[v] = j /\ slot'[v] # j
    BY <1>1, <1>2, <1>6, <2>1 DEF JobInv, OneHolder, InHandler
  <2>2. CASE \E q \in QueueNames : Waits(j, q) /\ ~Waits(j, q)'
    BY <1>1, <1>2, <1>6, <2>2 DEF JobInv, OneHolder, InHandler
  <2> QED
    BY <1>6, <2>1, <2>2
<1>9. db'[j].status = "pending"
  BY <1>1, <1>2, <1>6 DEF JobInv, RowOfHeld
<1>10. OneHolder(j)'
  BY <1>5, <1>8 DEF OneHolder
<1>11. RowOfHeld(j)'
  BY <1>5, <1>8, <1>9 DEF RowOfHeld
<1>12. RowOfNew(j)'
  BY <1>1, <1>2, <1>8 DEF RowOfNew, JobInv
<1>13. Attempts(j)'
  BY <1>1, <1>2, <1>5, <1>8 DEF Attempts, JobInv
<1>14. HolderOf(j)'
  BY <1>5, <1>9 DEF HolderOf, Held
<1> QED
  BY <1>6, <1>7, <1>10, <1>11, <1>12, <1>13, <1>14 DEF JobInv

\* A worker holds its job alone.
LEMMA HeldAlone ==
  ASSUME CustodyInv, NEW w \in Workers, NEW j \in Jobs, worker[w].job = j
  PROVE  /\ \A q \in QueueNames : ~Waits(j, q)
         /\ \A v \in Workers : slot[v] # j
         /\ \A v \in Workers : worker[v].job = j => v = w
         /\ ~InHandler(j)
         /\ db[j].status \in {"pending", "processing"}
         /\ phase = "serving" /\ api[j] # "new"
         /\ db[j].retry < db[j].max /\ db[j].retry <= db[j].max
         /\ Backend = "postgres" => fails[j] <= db[j].retry
<1>1. JobInv(j)
  BY DEF CustodyInv
<1>2. db[j].status \in {"pending", "processing"}
  BY <1>1 DEF JobInv, RowOfHeld
<1>3. /\ \A q \in QueueNames : ~Waits(j, q)
      /\ \A v \in Workers : slot[v] # j
      /\ \A v \in Workers : worker[v].job = j => v = w
      /\ ~InHandler(j)
  BY <1>1 DEF JobInv, OneHolder
<1> QED
  BY <1>1, <1>2, <1>3 DEF JobInv, RowOfNew, Attempts

\* What a step of worker w may do to its job j: it touches no other job, and
\* leaves no more attempts used than there are.
OnJob(w, j) ==
  /\ worker[w].job = j
  /\ UNCHANGED <<slot, api, phase>>
  /\ \A v \in Workers \ {w} : worker'[v] = worker[v]
  /\ worker'[w].job \in {j, NoJob}
  /\ \A k \in Jobs \ {j} : db'[k] = db[k] /\ fails'[k] = fails[k]
  /\ \A k \in Jobs \ {j}, q \in QueueNames : Waits(k, q)' <=> Waits(k, q)
  /\ db'[j].status # "none"
  /\ db'[j].retry <= db'[j].max
  /\ db'[j].status \in {"pending", "processing"} => db'[j].retry < db'[j].max
  /\ Backend = "postgres" => fails'[j] <= db'[j].retry

\* The worker goes on with its job, and the row says so.
GoesOn(w, j) ==
  /\ worker'[w].job = j
  /\ db'[j].status \in {"pending", "processing"}
  /\ worker'[w].at \in {"token", "claimed", "put"}
       => db'[j].status = "pending"
  /\ worker'[w].at \in {"running", "ack", "failed", "nack"}
       /\ faults'["db"] = 0 => db'[j].status = "processing"
  /\ worker'[w].at = "nack" => /\ worker'[w].retry = db'[j].retry + 1
                               /\ worker'[w].max = db'[j].max

LEMMA KeepCustody ==
  ASSUME SystemInv, CustodyInv, NEW w \in Workers, NEW j \in Jobs,
         OnJob(w, j), UNCHANGED queue, GoesOn(w, j)
  PROVE  (\A k \in Jobs \ {j} : Same(k)) /\ JobInv(j)'
<1> USE Shapes DEF SystemInv
<1>1. ASSUME NEW k \in Jobs \ {j} PROVE Same(k)
  <2>1. \A v \in Workers :
          worker[v].job = k \/ worker'[v].job = k => worker'[v] = worker[v]
    BY DEF OnJob
  <2> QED
    BY <2>1 DEF Same, OnJob
<1> USE DEF GoesOn
<1>2. /\ \A q \in QueueNames : ~Waits(j, q)'
      /\ \A v \in Workers : slot'[v] # j
      /\ \A v \in Workers : worker'[v].job = j <=> v = w
      /\ ~InHandler(j)' /\ api'[j] # "new" /\ phase' = "serving"
  BY HeldAlone, WaitsSame DEF OnJob, InHandler
<1>3. OneHolder(j)'
  BY <1>2 DEF OneHolder
<1>4. RowOfHeld(j)'
  BY <1>2 DEF RowOfHeld
<1>5. RowOfNew(j)'
  BY <1>2 DEF RowOfNew
<1>6. Attempts(j)'
  BY <1>2 DEF Attempts, OnJob
<1>7. HolderOf(j)'
  BY <1>2 DEF HolderOf, Held
<1> QED
  BY <1>1, <1>3, <1>4, <1>5, <1>6, <1>7 DEF JobInv

\* The worker lets its job go; only the FIFO queue may take it over.
LetsGo(w, j) ==
  /\ worker'[w].job = NoJob
  /\ \A q \in QueueNames : Waits(j, q)' =>
       q = "fifo" /\ db'[j].status = "pending"
  /\ RoomForAll /\ faults'["db"] = 0 /\ db'[j].status = "pending"
       => \E q \in QueueNames : Waits(j, q)'
  /\ faults'["panic"] = 0 /\ faults'["db"] = 0
       => db'[j].status # "processing"

LEMMA ReleaseCustody ==
  ASSUME SystemInv, CustodyInv, NEW w \in Workers, NEW j \in Jobs,
         OnJob(w, j), LetsGo(w, j)
  PROVE  (\A k \in Jobs \ {j} : Same(k)) /\ JobInv(j)'
<1> USE Shapes DEF SystemInv, LetsGo
<1>1. ASSUME NEW k \in Jobs \ {j} PROVE Same(k)
  <2>1. \A v \in Workers :
          worker[v].job = k \/ worker'[v].job = k => worker'[v] = worker[v]
    BY DEF OnJob
  <2> QED
    BY <2>1 DEF Same, OnJob
<1>2. /\ \A v \in Workers : slot'[v] # j
      /\ \A v \in Workers : worker'[v].job # j
      /\ ~InHandler(j)' /\ api'[j] # "new" /\ phase' = "serving"
  <2>1. /\ \A v \in Workers : slot[v] # j
        /\ \A v \in Workers : worker[v].job = j => v = w
        /\ ~InHandler(j) /\ api[j] # "new" /\ phase = "serving"
    BY HeldAlone DEF OnJob
  <2>2. \A v \in Workers : worker'[v].job # j
    <3>1. NoJob # j
      OBVIOUS
    <3>2. \A v \in Workers \ {w} : worker'[v] = worker[v]
      BY DEF OnJob
    <3> QED
      BY <2>1, <3>1, <3>2
  <2> QED
    BY <2>1, <2>2 DEF OnJob, InHandler
<1>3. OneHolder(j)'
  BY <1>2 DEF OneHolder
<1>4. RowOfHeld(j)'
  BY <1>2 DEF RowOfHeld
<1>5. RowOfNew(j)'
  BY <1>2 DEF RowOfNew, OnJob
<1>6. Attempts(j)'
  BY <1>2 DEF Attempts, OnJob
<1>7. HolderOf(j)'
  BY <1>2 DEF HolderOf, Held, RoomForAll
<1> QED
  BY <1>1, <1>3, <1>4, <1>5, <1>6, <1>7 DEF JobInv

\* What the statements of a worker do to the row.
RowIs(j, s, n) ==
  /\ \A k \in Jobs \ {j} : db'[k] = db[k]
  /\ db'[j].status = s /\ db'[j].retry = n /\ db'[j].max = db[j].max

LEMMA RowEffect ==
  ASSUME TypeOK, NEW j \in Jobs
  PROVE  /\ \A s : UpdateJobStatus(j, s) => RowIs(j, s, db[j].retry)
         /\ Requeue(j) => RowIs(j, "pending", db[j].retry)
         /\ \A s, n : UpdateJobRetry(j, s, n) => RowIs(j, s, n)
<1>1. db \in [Jobs -> Row] /\ db[j] \in Row
  BY Shapes
<1>2. ASSUME NEW s,
             db' = [db EXCEPT ![j] = [db[j] EXCEPT !.status = s, !.age = "fresh"]]
      PROVE  RowIs(j, s, db[j].retry)
  BY <1>1, <1>2 DEF RowIs, Row
<1>3. ASSUME NEW s, NEW n,
             db' = [db EXCEPT ![j] = [db[j] EXCEPT !.status = s, !.retry = n,
                                                   !.age = "fresh"]]
      PROVE  RowIs(j, s, n)
  BY <1>1, <1>3 DEF RowIs, Row
<1>4. ASSUME NEW s, UpdateJobStatus(j, s) PROVE RowIs(j, s, db[j].retry)
  BY <1>1, <1>2, <1>4 DEF UpdateJobStatus
<1>5. ASSUME Requeue(j) PROVE RowIs(j, "pending", db[j].retry)
  BY <1>1, <1>2, <1>5 DEF Requeue
<1>6. ASSUME NEW s, NEW n, UpdateJobRetry(j, s, n) PROVE RowIs(j, s, n)
  BY <1>1, <1>3, <1>6 DEF UpdateJobRetry
<1> QED
  BY <1>4, <1>5, <1>6

\* The steps that go on with the job.
LEMMA GoOnCustody ==
  ASSUME SystemInv, CustodyInv, NEW w \in Workers,
         NEW j \in Jobs, worker[w].job = j,
         \/ TakeToken(w) \/ StartProcessing(w) \/ Deadline(w)
         \/ \E s \in {"ack", "failed"} : ProcessReturns(w, s)
         \/ RequeuePreempted(w) \/ NackRead(w)
         \/ NackWrite(w) /\ worker[w].retry < worker[w].max
  PROVE  (\A k \in Jobs \ {j} : Same(k)) /\ JobInv(j)' /\ UNCHANGED queue
<1> USE Shapes DEF SystemInv
<1>1. worker[w].job = j /\ worker[w] \in WorkerRecord /\ JobInv(j)
  BY DEF CustodyInv
<1>2. /\ db[j].status \in {"pending", "processing"}
      /\ db[j].retry < db[j].max /\ db[j].retry <= db[j].max
      /\ Backend = "postgres" => fails[j] <= db[j].retry
      /\ db[j].retry \in Nat /\ db[j].max \in Nat /\ fails[j] \in Nat
  <2>1. db[j] \in Row /\ fails[j] \in Nat
    BY <1>1
  <2> QED
    BY <1>1, <2>1, HeldAlone DEF Row
<1>3. UNCHANGED <<queue, slot, api, phase>>
  BY DEF TakeToken, Polling, StartProcessing, Deadline, ProcessReturns,
         RequeuePreempted, Preempted, NackRead, NackWrite, WriteCounter, Working
<1>4. \A k \in Jobs, q \in QueueNames : Waits(k, q)' <=> Waits(k, q)
  BY <1>3, WaitsSame
<1> SUFFICES (\A k \in Jobs \ {j} : Same(k)) /\ JobInv(j)'
  BY <1>3
<1>5. CASE TakeToken(w)
  <2>1. UNCHANGED <<db, fails, faults>> /\ Goto(w, "claimed")
    BY <1>5 DEF TakeToken, Polling, store
  <2>2. Becomes(w, "claimed", j, worker[w].retry, worker[w].max)
    BY <2>1, WorkerBecomes
  <2>3. db[j].status = "pending"
    BY <1>1, <1>5 DEF TakeToken, JobInv, RowOfHeld
  <2>4. OnJob(w, j)
    BY <1>2, <1>3, <1>4, <2>1, <2>2, <2>3 DEF OnJob, Becomes
  <2>5. GoesOn(w, j)
    BY <2>1, <2>2, <2>3 DEF Becomes, GoesOn
  <2> QED
    BY <1>1, <1>3, <2>4, <2>5, KeepCustody
<1>6. CASE StartProcessing(w)
  <2>1. Becomes(w, "running", j, worker[w].retry, worker[w].max)
    <3>1. worker' = [worker EXCEPT ![w] =
                       [worker[w] EXCEPT !.at = "running", !.ctx = "live"]]
      BY <1>6 DEF StartProcessing
    <3> QED
      BY <1>1, <3>1 DEF Becomes, WorkerRecord
  <2>2. /\ \A k \in Jobs \ {j} : db'[k] = db[k]
        /\ db'[j].retry = db[j].retry /\ db'[j].max = db[j].max
        /\ \/ db'[j].status = "processing"
           \/ db'[j].status = db[j].status /\ faults'["db"] # 0
    <3>1. CASE UpdateJobStatus(j, "processing")
      BY <1>1, <3>1, RowEffect DEF RowIs
    <3>2. CASE Fault("db") /\ UNCHANGED store
      BY <3>2, FaultsGrow DEF store
    <3> QED
      BY <1>6, <3>1, <3>2 DEF StartProcessing
  <2>3. UNCHANGED fails
    BY <1>6 DEF StartProcessing
  <2>4. OnJob(w, j)
    BY <1>2, <1>3, <1>4, <2>1, <2>2, <2>3 DEF OnJob, Becomes
  <2>5. GoesOn(w, j)
    BY <1>2, <2>1, <2>2 DEF Becomes, GoesOn
  <2> QED
    BY <1>1, <1>3, <2>4, <2>5, KeepCustody
<1>7. CASE Deadline(w) \/ \E s \in {"ack", "failed"} : ProcessReturns(w, s)
  <2>1. UNCHANGED <<db, fails, faults>> /\ worker[w].at = "running"
    BY <1>7 DEF Deadline, ProcessReturns, store
  <2>2. \E s \in {"running", "ack", "failed"} :
          Becomes(w, s, j, worker[w].retry, worker[w].max)
    <3>1. CASE Deadline(w)
      <4>1. worker' = [worker EXCEPT ![w] =
                         [worker[w] EXCEPT !.ctx = "deadline"]]
        BY <3>1 DEF Deadline
      <4> QED
        BY <1>1, <2>1, <4>1 DEF Becomes, WorkerRecord
    <3>2. CASE \E s \in {"ack", "failed"} : ProcessReturns(w, s)
      BY <3>2, WorkerBecomes DEF ProcessReturns
    <3> QED
      BY <1>7, <3>1, <3>2
  <2>3. faults["db"] = 0 => db[j].status = "processing"
    BY <1>1, <2>1 DEF JobInv, RowOfHeld
  <2>4. OnJob(w, j)
    BY <1>2, <1>3, <1>4, <2>1, <2>2 DEF OnJob, Becomes
  <2>5. GoesOn(w, j)
    BY <1>2, <2>1, <2>2, <2>3 DEF Becomes, GoesOn
  <2> QED
    BY <1>1, <1>3, <2>4, <2>5, KeepCustody
<1>8. CASE RequeuePreempted(w)
  <2>1. Becomes(w, "put", j, worker[w].retry, worker[w].max)
    BY <1>8, WorkerBecomes DEF RequeuePreempted
  <2>2. /\ \A k \in Jobs \ {j} : db'[k] = db[k]
        /\ db'[j].status = "pending"
        /\ db'[j].retry = db[j].retry /\ db'[j].max = db[j].max
    <3>1. Requeue(j)
      BY <1>8 DEF RequeuePreempted, Preempted
    <3> QED
      BY <1>1, <3>1, RowEffect DEF RowIs
  <2>3. UNCHANGED fails
    BY <1>8 DEF RequeuePreempted, Preempted
  <2>4. OnJob(w, j)
    BY <1>2, <1>3, <1>4, <2>1, <2>2, <2>3 DEF OnJob, Becomes
  <2>5. GoesOn(w, j)
    BY <2>1, <2>2 DEF Becomes, GoesOn
  <2> QED
    BY <1>1, <1>3, <2>4, <2>5, KeepCustody
<1>9. CASE NackRead(w)
  <2>1. Becomes(w, "nack", j, db[j].retry + 1, db[j].max)
    <3>1. worker' = [worker EXCEPT ![w] =
            [worker[w] EXCEPT !.at = "nack", !.retry = db[j].retry + 1,
                              !.max = db[j].max]]
      BY <1>9 DEF NackRead
    <3> QED
      BY <1>1, <3>1 DEF Becomes, WorkerRecord
  <2>2. UNCHANGED <<db, fails, faults>> /\ worker[w].at = "failed"
    BY <1>9 DEF NackRead, store
  <2>3. faults["db"] = 0 => db[j].status = "processing"
    BY <1>1, <2>2 DEF JobInv, RowOfHeld
  <2>4. OnJob(w, j)
    BY <1>2, <1>3, <1>4, <2>1, <2>2 DEF OnJob, Becomes
  <2>5. GoesOn(w, j)
    BY <1>2, <2>1, <2>2, <2>3 DEF Becomes, GoesOn
  <2> QED
    BY <1>1, <1>3, <2>4, <2>5, KeepCustody
<1>10. CASE NackWrite(w) /\ worker[w].retry < worker[w].max
  <2>1. worker[w].retry = db[j].retry + 1 /\ worker[w].max = db[j].max
    BY <1>1, <1>10 DEF NackWrite, WriteCounter, JobInv, Attempts
  <2>2. ~(worker[w].retry >= worker[w].max)
    BY <1>2, <1>10, <2>1
  <2>3. Goto(w, "put") /\ UpdateJobRetry(j, "pending", worker[w].retry)
    BY <1>10, <2>2 DEF NackWrite, WriteCounter
  <2>4. Becomes(w, "put", j, worker[w].retry, worker[w].max)
    BY <2>3, WorkerBecomes
  <2>5. /\ \A k \in Jobs \ {j} : db'[k] = db[k]
        /\ db'[j].status = "pending"
        /\ db'[j].retry = db[j].retry + 1 /\ db'[j].max = db[j].max
    BY <1>1, <2>1, <2>3, RowEffect DEF RowIs
  <2>6. /\ \A k \in Jobs \ {j} : fails'[k] = fails[k]
        /\ fails'[j] \in {fails[j], fails[j] + 1}
    BY <1>1, <1>10 DEF NackWrite, WriteCounter
  <2>7. /\ db'[j].retry < db'[j].max /\ db'[j].retry <= db'[j].max
        /\ Backend = "postgres" => fails'[j] <= db'[j].retry
    BY <1>2, <1>10, <2>1, <2>5, <2>6
  <2>8. OnJob(w, j)
    BY <1>3, <1>4, <2>4, <2>5, <2>6, <2>7 DEF OnJob, Becomes
  <2>9. GoesOn(w, j)
    BY <2>4, <2>5 DEF Becomes, GoesOn
  <2> QED
    BY <1>1, <1>3, <2>8, <2>9, KeepCustody
<1> QED
  BY <1>5, <1>6, <1>7, <1>8, <1>9, <1>10

\* The steps that end with the job.
LEMMA EndCustody ==
  ASSUME SystemInv, CustodyInv, NEW w \in Workers,
         NEW j \in Jobs, worker[w].job = j,
         \/ Panic(w) \/ Ack(w) \/ StoreFails(w)
         \/ NackWrite(w) /\ ~(worker[w].retry < worker[w].max)
  PROVE  (\A k \in Jobs \ {j} : Same(k)) /\ JobInv(j)' /\ UNCHANGED queue
<1> USE Shapes DEF SystemInv
<1>1. worker[w].job = j /\ worker[w] \in WorkerRecord /\ JobInv(j)
  BY DEF CustodyInv
<1>2. /\ db[j].status \in {"pending", "processing"}
      /\ db[j].retry < db[j].max /\ db[j].retry <= db[j].max
      /\ Backend = "postgres" => fails[j] <= db[j].retry
      /\ db[j].retry \in Nat /\ db[j].max \in Nat /\ fails[j] \in Nat
  <2>1. db[j] \in Row /\ fails[j] \in Nat
    OBVIOUS
  <2> QED
    BY <1>1, <2>1, HeldAlone DEF Row
<1>3. UNCHANGED <<queue, slot, api, phase>>
  BY DEF Panic, Ack, StoreFails, NackWrite, WriteCounter, Working
<1>4. /\ \A k \in Jobs, q \in QueueNames : Waits(k, q)' <=> Waits(k, q)
      /\ \A q \in QueueNames : ~Waits(j, q)'
  BY <1>1, <1>3, WaitsSame, HeldAlone
<1> SUFFICES (\A k \in Jobs \ {j} : Same(k)) /\ JobInv(j)'
  BY <1>3
<1>5. CASE Panic(w)
  <2>1. Becomes(w, "dead", NoJob, 0, 0)
    BY <1>5 DEF Panic, Becomes, Idle
  <2>2. UNCHANGED <<db, fails>> /\ faults'["panic"] # 0
    BY <1>5, FaultsGrow DEF Panic, store
  <2>3. faults'["db"] = 0 => db[j].status = "processing"
    <3>1. faults'["db"] = 0 => faults["db"] = 0
      BY <1>5, FaultsGrow DEF Panic, FaultKinds
    <3> QED
      BY <1>1, <1>5, <3>1 DEF Panic, JobInv, RowOfHeld
  <2>4. OnJob(w, j)
    BY <1>1, <1>2, <1>3, <1>4, <2>1, <2>2 DEF OnJob, Becomes
  <2>5. LetsGo(w, j)
    BY <1>4, <2>1, <2>2, <2>3 DEF LetsGo, Becomes
  <2> QED
    BY <2>4, <2>5, ReleaseCustody
<1>6. CASE Ack(w)
  <2>1. Becomes(w, "top", NoJob, 0, 0) /\ UNCHANGED fails
    BY <1>6, WorkerBecomes DEF Ack
  <2>2. RowIs(j, "completed", db[j].retry)
    BY <1>1, <1>6, RowEffect DEF Ack
  <2>3. OnJob(w, j)
    BY <1>1, <1>2, <1>3, <1>4, <2>1, <2>2 DEF OnJob, Becomes, RowIs
  <2>4. LetsGo(w, j)
    BY <1>4, <2>1, <2>2 DEF LetsGo, Becomes, RowIs
  <2> QED
    BY <2>3, <2>4, ReleaseCustody
<1>7. CASE StoreFails(w)
  <2>1. Becomes(w, "top", NoJob, 0, 0) /\ UNCHANGED <<db, fails>>
    BY <1>7, WorkerBecomes DEF StoreFails, store
  <2>2. faults'["db"] # 0
    BY <1>7, FaultsGrow DEF StoreFails
  <2>3. OnJob(w, j)
    BY <1>1, <1>2, <1>3, <1>4, <2>1 DEF OnJob, Becomes
  <2>4. LetsGo(w, j)
    BY <1>4, <2>1, <2>2 DEF LetsGo, Becomes
  <2> QED
    BY <2>3, <2>4, ReleaseCustody
<1>8. CASE NackWrite(w) /\ ~(worker[w].retry < worker[w].max)
  <2>1. worker[w].retry = db[j].retry + 1 /\ worker[w].max = db[j].max
    BY <1>1, <1>8 DEF NackWrite, WriteCounter, JobInv, Attempts
  <2>2. worker[w].retry >= worker[w].max
    BY <1>2, <1>8, <2>1
  <2>3. Finish(w) /\ UpdateJobRetry(j, "failed", db[j].retry + 1)
    BY <1>1, <1>8, <2>1, <2>2 DEF NackWrite, WriteCounter
  <2>4. Becomes(w, "top", NoJob, 0, 0)
    BY <2>3, WorkerBecomes
  <2>5. RowIs(j, "failed", db[j].retry + 1)
    BY <2>3, RowEffect
  <2>6. /\ \A k \in Jobs \ {j} : fails'[k] = fails[k]
        /\ fails'[j] \in {fails[j], fails[j] + 1}
    BY <1>1, <1>8 DEF NackWrite, WriteCounter
  <2>7. /\ db[j].retry + 1 <= db[j].max
        /\ Backend = "postgres" => fails'[j] <= db[j].retry + 1
    BY <1>2, <2>6
  <2>8. OnJob(w, j)
    BY <1>1, <1>3, <1>4, <2>4, <2>5, <2>6, <2>7 DEF OnJob, Becomes, RowIs
  <2>9. LetsGo(w, j)
    BY <1>4, <2>4, <2>5 DEF LetsGo, Becomes, RowIs
  <2> QED
    BY <2>8, <2>9, ReleaseCustody
<1> QED
  BY <1>5, <1>6, <1>7, <1>8

\* Nack and Requeue hand the job over to the FIFO queue.
LEMMA PutBackCustody ==
  ASSUME SystemInv, CustodyInv, NEW w \in Workers,
         NEW j \in Jobs, worker[w].job = j, PutBack(w)
  PROVE  /\ \A k \in Jobs \ {j} : Same(k)
         /\ JobInv(j)'
         /\ \A q \in QueueNames : Distinct(queue'[q])
<1> USE Shapes DEF SystemInv
<1>1. JobInv(j) /\ (\A q \in QueueNames : Distinct(queue[q]))
      /\ "fifo" \in QueueNames
  BY DEF CustodyInv, QueueNames
<1>2. UNCHANGED <<db, slot, api, phase, fails, faults>>
  BY DEF PutBack, LeaveAfterPut, Working, store
<1>3. Becomes(w, "top", NoJob, 0, 0) /\ worker[w].at = "put"
  BY WorkerBecomes DEF PutBack, LeaveAfterPut
<1>4. db[j].status = "pending"
  BY <1>1, <1>3 DEF JobInv, RowOfHeld
<1>5. \A q \in QueueNames : ~Waits(j, q)
  BY HeldAlone
<1>6. /\ \A q \in QueueNames : Distinct(queue'[q])
      /\ \A k \in Jobs \ {j}, q \in QueueNames : Waits(k, q)' <=> Waits(k, q)
      /\ \A q \in QueueNames : Waits(j, q)' => q = "fifo"
      /\ RoomForAll => Waits(j, "fifo")'
  <2>1. CASE PutDone(w)
    BY <1>1, <1>5, <2>1, PutWaits DEF PutDone, Queued
  <2>2. CASE (~Open \/ TimesOut("fifo")) /\ UNCHANGED queue
    <3>1. Open
      BY HeldAlone DEF Open
    <3>2. ~(Len(queue["fifo"]) < BufferSize)
      BY <2>2, <3>1 DEF TimesOut, Room
    <3>3. ~RoomForAll
      BY <1>1, <1>5, <3>2, RoomLeft
    <3> QED
      BY <1>1, <1>5, <2>2, <3>3, WaitsSame
  <2> QED
    BY <2>1, <2>2 DEF PutBack, NotQueued
<1>7. OnJob(w, j)
  <2>1. /\ db[j].retry < db[j].max /\ db[j].retry <= db[j].max
        /\ Backend = "postgres" => fails[j] <= db[j].retry
    BY HeldAlone
  <2> QED
    BY <1>2, <1>3, <1>4, <1>6, <2>1 DEF OnJob, Becomes
<1>8. LetsGo(w, j)
  BY <1>1, <1>2, <1>3, <1>4, <1>6 DEF LetsGo, Becomes
<1> QED
  BY <1>6, <1>7, <1>8, ReleaseCustody

-----------------------------------------------------------------------------
(* The inductive invariant *)

\* As long as no job was created there is nothing to list.
LEMMA NothingListed ==
  ASSUME CustodyInv, phase # "serving", NEW q
  PROVE  ListFor(q) = NoList
<1>1. \A j \in Jobs : db[j].status = "none"
  BY DEF CustodyInv, JobInv, RowOfNew
<1>2. \A j \in Jobs : ListPendingJobs[j] = "none"
  BY <1>1 DEF ListPendingJobs
<1> QED
  BY <1>2 DEF ListFor, NoList

\* Without sweeps and restarts there are few kinds of steps: those of the
\* handlers and the workers, and those that touch no job.
LEMMA CalmCases ==
  ASSUME NoRereading, TypeOK, CustodyInv, [Next]_vars
  PROVE  \/ \E j \in Jobs : ApiStep(j)
         \/ \E w \in Workers : PollStep(w) \/ JobStep(w)
         \/ /\ UNCHANGED <<store, queue, worker, slot, api, faults, fails>>
            /\ Calm'
            /\ phase' # "serving" => phase # "serving"
<1>1. /\ phase \in {"down", "recovering", "serving"}
      /\ todo = [l \in Listers |-> NoList]
      /\ "recover" \in Listers
  BY DEF CustodyInv, Calm, Listers
<1>2. todo["recover"] = NoList /\ \A j \in Jobs : todo["recover"][j] = "none"
  BY <1>1 DEF NoList
<1>3. ASSUME NEW j \in Jobs, RecoverStep(j) PROVE FALSE
  BY <1>2, <1>3 DEF RecoverStep, ResetListed, PutListed, NextFor
<1>4. ASSUME NEW j \in Jobs, GrowOld(j) PROVE FALSE
  BY <1>4 DEF NoRereading, GrowOld
<1>5. ASSUME Crash \/ Terminate PROVE FALSE
  <2>1. faults["crash"] \in Nat /\ faults["stop"] \in Nat
    BY Shapes DEF FaultKinds
  <2>2. ~Fault("crash") /\ ~Fault("stop")
    BY <2>1 DEF NoRereading, Fault
  <2>3. ~RecoverTimesOut
    BY <1>2 DEF RecoverTimesOut
  <2> QED
    BY <1>5, <2>2, <2>3 DEF Crash, Terminate
<1>6. ~CloseQueues /\ ~StopPool /\ ~Stopped
  BY <1>1 DEF CloseQueues, StopPool, Stopped
<1>7. ASSUME NEW q, todo' = [todo EXCEPT !["recover"] = ListFor(q)],
             phase # "serving"
      PROVE  todo' = [l \in Listers |-> NoList]
  BY <1>1, <1>7, NothingListed
<1>8. ASSUME Boot \/ RecoverNext
      PROVE  /\ UNCHANGED <<store, queue, worker, slot, api, faults, fails>>
             /\ Calm'
             /\ phase # "serving"
  <2>1. UNCHANGED <<store, queue, worker, slot, api, faults, fails>>
    BY <1>8 DEF Boot, RecoverNext
  <2>2. /\ phase # "serving"
        /\ phase' \in {"recovering", "serving", phase}
        /\ UNCHANGED todo \/ \E q : todo' = [todo EXCEPT !["recover"] = ListFor(q)]
    <3>1. CASE Boot
      BY <3>1 DEF Boot
    <3>2. CASE RecoverNext
      BY <3>2 DEF RecoverNext
    <3> QED
      BY <1>8, <3>1, <3>2
  <2> QED
    BY <1>1, <1>7, <2>1, <2>2 DEF Calm
<1>9. ASSUME Refill \/ UNCHANGED vars
      PROVE  /\ UNCHANGED <<store, queue, worker, slot, api, faults, fails>>
             /\ Calm' /\ phase' = phase
  <2>1. UNCHANGED <<store, queue, worker, slot, api, faults, fails, todo, phase>>
    BY <1>9 DEF Refill, Polling, vars, mem
  <2> QED
    BY <1>1, <2>1 DEF Calm
<1>10. ASSUME NEW j \in Jobs,
              CreateJob(j) \/ HandlerFails(j) \/ RetryJob(j) \/ HandlerStep(j)
       PROVE  ApiStep(j)
  BY <1>10 DEF ApiStep, HandlerStep
<1>11. ASSUME NEW w \in Workers,
              WorkerStep(w) \/ Deadline(w) \/ Panic(w) \/ StoreFails(w)
       PROVE  PollStep(w) \/ JobStep(w)
  BY <1>11 DEF WorkerStep, TakeJob, Miss, ProcessJob, PollStep, JobStep
<1>12. ~\E q \in Sweepers : SweepList(q) \/ \E j \in Jobs : SweepStep(q, j)
  BY DEF NoRereading
<1> QED
  BY <1>3, <1>4, <1>5, <1>6, <1>8, <1>9, <1>10, <1>11, <1>12 DEF Next, MainStep

\* The steps of handlers and workers leave listings and phase alone.
LEMMA StaysCalm ==
  ASSUME TypeOK,
         \/ \E j \in Jobs : ApiStep(j)
         \/ \E w \in Workers : PollStep(w) \/ JobStep(w)
  PROVE  UNCHANGED <<todo, phase>> /\ Onward
<1>1. UNCHANGED <<todo, phase>>
  BY DEF ApiStep, CreateJob, HandlerFails, RetryJob, Preempt, CancelFirst,
         NoPreemption, HandlerEnqueue, mem,
         PollStep, TakeSlot, ReadSlot, TakePriority, TakeLimited, TakeFifo,
         PriorityMiss, LimitedMiss, FifoMiss, TakeToken, Exit, Polling,
         JobStep, StartProcessing, Deadline, ProcessReturns, Panic, Restart,
         Ack, RequeuePreempted, Preempted, NackRead, NackWrite, WriteCounter,
         PutBack, LeaveAfterPut, StoreFails, Working
<1>2. UNCHANGED faults \/ Fault("db") \/ Fault("retry") \/ Fault("panic")
  BY DEF ApiStep, CreateJob, HandlerFails, RetryJob, Preempt, CancelFirst,
         NoPreemption, HandlerEnqueue,
         PollStep, TakeSlot, ReadSlot, TakePriority, TakeLimited, TakeFifo,
         PriorityMiss, LimitedMiss, FifoMiss, TakeToken, Exit, Polling,
         JobStep, StartProcessing, Deadline, ProcessReturns, Panic, Restart,
         Ack, RequeuePreempted, Preempted, NackRead, NackWrite, WriteCounter,
         PutBack, LeaveAfterPut, StoreFails
<1>3. "db" \in FaultKinds /\ "panic" \in FaultKinds
  BY DEF FaultKinds
<1> QED
  BY <1>1, <1>2, <1>3, FaultsGrow DEF Onward

LEMMA ApiCustody ==
  ASSUME SystemInv, CustodyInv, NEW j \in Jobs, ApiStep(j)
  PROVE  /\ \A k \in Jobs \ {j} : Same(k)
         /\ JobInv(j)'
         /\ \A r \in QueueNames : Distinct(queue'[r])
<1>1. CASE \E q \in QueueNames : HandlerEnqueue(j, q)
  BY <1>1, EnqueueCustody
<1>2. CASE ~\E q \in QueueNames : HandlerEnqueue(j, q)
  <2>1. UNCHANGED queue
    BY <1>2 DEF ApiStep, CreateJob, HandlerFails, RetryJob, Preempt,
                CancelFirst, NoPreemption, mem
  <2>2. \A r \in QueueNames : Distinct(queue'[r])
    BY <2>1, WaitsSame DEF CustodyInv
  <2> QED
    BY <1>2, <2>2, CreateCustody, HandlerFailsCustody, PreemptCustody
       DEF ApiStep
<1> QED
  BY <1>1, <1>2

LEMMA WorkerCustody ==
  ASSUME SystemInv, CustodyInv, NEW w \in Workers, PollStep(w) \/ JobStep(w)
  PROVE  /\ \/ \A k \in Jobs : Same(k)
            \/ \E j \in Jobs : (\A k \in Jobs \ {j} : Same(k)) /\ JobInv(j)'
         /\ \A r \in QueueNames : Distinct(queue'[r])
<1> USE DEF SystemInv
<1>1. CASE \/ PriorityMiss(w) \/ LimitedMiss(w) \/ FifoMiss(w) \/ Exit(w)
           \/ Restart(w)
  <2>1. UNCHANGED queue
    BY <1>1 DEF PriorityMiss, LimitedMiss, FifoMiss, Exit, Restart
  <2> QED
    BY <1>1, <2>1, MissCustody, WaitsSame DEF CustodyInv
<1>2. ASSUME NEW j \in Jobs,
             \/ TakeSlot(w) /\ j = slot[w]
             \/ TakePriority(w, j) \/ TakeLimited(w, j) \/ TakeFifo(w, j)
      PROVE  /\ (\A k \in Jobs \ {j} : Same(k)) /\ JobInv(j)'
             /\ \A r \in QueueNames : Distinct(queue'[r])
  BY <1>2, TakeCustody
<1>3. CASE TakeSlot(w)
  <2>1. slot[w] \in Jobs
    BY <1>3, Shapes DEF TakeSlot, ReadSlot
  <2>2. PICK j \in Jobs : j = slot[w]
    BY <2>1
  <2> QED
    BY <1>2, <1>3, <2>2
<1>4. CASE TakeToken(w) \/ (JobStep(w) /\ ~Restart(w))
  <2>1. worker[w].at \in Holding
    BY <1>4 DEF TakeToken, JobStep, StartProcessing, Deadline, ProcessReturns,
       Panic, Ack, RequeuePreempted, Preempted, NackRead, NackWrite,
       WriteCounter, PutBack, LeaveAfterPut, StoreFails, Holding
  <2>2. PICK j \in Jobs : worker[w].job = j
    BY <2>1, HeldIsJob
  <2>3. CASE PutBack(w)
    BY <2>2, <2>3, PutBackCustody
  <2>4. CASE ~PutBack(w)
    <3>1. \/ TakeToken(w) \/ StartProcessing(w) \/ Deadline(w)
          \/ \E s \in {"ack", "failed"} : ProcessReturns(w, s)
          \/ RequeuePreempted(w) \/ NackRead(w)
          \/ NackWrite(w)
          \/ Panic(w) \/ Ack(w) \/ StoreFails(w)
      BY <1>4, <2>4 DEF JobStep
    <3>2. (\A k \in Jobs \ {j} : Same(k)) /\ JobInv(j)' /\ UNCHANGED queue
      BY <2>2, <3>1, GoOnCustody, EndCustody
    <3> QED
      BY <3>2, WaitsSame DEF CustodyInv
  <2> QED
    BY <2>3, <2>4
<1> QED
  BY <1>1, <1>2, <1>3, <1>4 DEF PollStep

LEMMA CustodyStep ==
  ASSUME NoRereading, SystemInv, CustodyInv, [Next]_vars
  PROVE  CustodyInv'
<1> USE DEF SystemInv
<1>1. \A k \in Jobs : JobInv(k)
  BY DEF CustodyInv
<1>2. ASSUME Onward, NEW k \in Jobs, Same(k) PROVE JobInv(k)'
  BY <1>1, <1>2, SameKeeps
<1>3. ASSUME UNCHANGED <<todo, phase>> PROVE Calm'
  BY <1>3 DEF CustodyInv, Calm
<1>4. ASSUME NEW j \in Jobs, ApiStep(j) PROVE CustodyInv'
  <2>1. UNCHANGED <<todo, phase>> /\ Onward
    BY <1>4, StaysCalm
  <2>2. /\ \A k \in Jobs \ {j} : Same(k)
        /\ JobInv(j)'
        /\ \A r \in QueueNames : Distinct(queue'[r])
    BY <1>4, ApiCustody
  <2>3. \A k \in Jobs : JobInv(k)'
    BY <1>2, <2>1, <2>2
  <2> QED
    BY <1>3, <2>1, <2>2, <2>3 DEF CustodyInv
<1>5. ASSUME NEW w \in Workers, PollStep(w) \/ JobStep(w) PROVE CustodyInv'
  <2>1. UNCHANGED <<todo, phase>> /\ Onward
    BY <1>5, StaysCalm
  <2>2. /\ \/ \A k \in Jobs : Same(k)
           \/ \E j \in Jobs : (\A k \in Jobs \ {j} : Same(k)) /\ JobInv(j)'
        /\ \A r \in QueueNames : Distinct(queue'[r])
    BY <1>5, WorkerCustody
  <2>3. \A k \in Jobs : JobInv(k)'
    BY <1>2, <2>1, <2>2
  <2> QED
    BY <1>3, <2>1, <2>2, <2>3 DEF CustodyInv
<1>6. ASSUME UNCHANGED <<store, queue, worker, slot, api, faults, fails>>, Calm',
             phase' # "serving" => phase # "serving"
      PROVE  CustodyInv'
  <2>1. Onward /\ \A k \in Jobs : Same(k)
    BY <1>6, WaitsSame DEF Onward, Same, store
  <2>2. \A k \in Jobs : JobInv(k)'
    BY <1>2, <2>1
  <2> QED
    BY <1>6, <2>2, WaitsSame DEF CustodyInv
<1> QED
  BY <1>4, <1>5, <1>6, CalmCases

LEMMA CustodyInductive ==
  ASSUME NoRereading
  PROVE  Spec => [](SystemInv /\ CustodyInv)
<1>1. Init => CustodyInv
  <2> SUFFICES ASSUME Init PROVE CustodyInv
    OBVIOUS
  <2> USE DEF Init
  <2>1. \A j \in Jobs, q \in QueueNames : ~Waits(j, q)
    BY DEF Waits, EmptyQueues
  <2>2. \A q \in QueueNames : Distinct(queue[q])
    BY DEF Distinct, EmptyQueues
  <2>3. ASSUME NEW j \in Jobs PROVE JobInv(j)
    <3>1. /\ \A w \in Workers : worker[w].job # j /\ slot[w] # j
          /\ ~InHandler(j) /\ fails[j] = 0
          /\ db[j].status = "none" /\ db[j].retry = 0 /\ db[j].max = 0
      BY OrderAssumption DEF Idle, NoJob, InHandler, NoRow
    <3> QED
      BY <2>1, <3>1 DEF JobInv, OneHolder, RowOfHeld, RowOfNew, Attempts,
                        HolderOf
  <2> QED
    BY <2>2, <2>3 DEF CustodyInv, Calm
<1>2. SystemInv /\ CustodyInv /\ [Next]_vars => CustodyInv'
  BY CustodyStep
<1> QED
  BY <1>1, <1>2, SystemInductive, PTL DEF Spec

-----------------------------------------------------------------------------
(* Where the jobs are *)

\* The places of a job and the holders of a job.
LEMMA PlacesOfJob ==
  ASSUME TypeOK, NEW j \in Jobs, NEW p
  PROVE  p \in Places(j) <=>
           \/ \E q \in QueueNames : \E i \in 1..Len(queue[q]) :
                queue[q][i] = j /\ p = <<q, i>>
           \/ \E w \in Workers : worker[w].job = j /\ p = <<"worker", w>>
           \/ \E w \in Workers : slot[w] = j /\ p = <<"slot", w>>
           \/ InHandler(j) /\ p = <<"handler", j>>
<1> DEFINE InQueues ==
             UNION {{q} \X {i \in DOMAIN queue[q] : queue[q][i] = j} :
                    q \in QueueNames}
           InHands == {"worker"} \X {w \in Workers : worker[w].job = j}
           InSlots == {"slot"} \X {w \in Workers : slot[w] = j}
           InApi == {"handler"} \X {i \in {j} : InHandler(i)}
<1>1. p \in InQueues
        <=> \E q \in QueueNames : \E i \in 1..Len(queue[q]) :
              queue[q][i] = j /\ p = <<q, i>>
  <2>1. ASSUME NEW q \in QueueNames
        PROVE  p \in {q} \X {i \in DOMAIN queue[q] : queue[q][i] = j}
                 <=> \E i \in 1..Len(queue[q]) : queue[q][i] = j /\ p = <<q, i>>
    BY Shapes
  <2> QED
    BY <2>1
<1>2. p \in InHands
        <=> \E w \in Workers : worker[w].job = j /\ p = <<"worker", w>>
  OBVIOUS
<1>3. p \in InSlots <=> \E w \in Workers : slot[w] = j /\ p = <<"slot", w>>
  OBVIOUS
<1>4. p \in InApi <=> InHandler(j) /\ p = <<"handler", j>>
  OBVIOUS
<1>5. Places(j) = InQueues \cup InHands \cup InSlots \cup InApi
  BY Zenon DEF Places
<1> HIDE DEF InQueues, InHands, InSlots, InApi
<1>6. p \in Places(j) <=>
        p \in InQueues \/ p \in InHands \/ p \in InSlots \/ p \in InApi
  BY <1>5
<1> QED
  BY <1>1, <1>2, <1>3, <1>4, <1>6

LEMMA HeldHasPlace ==
  ASSUME TypeOK, NEW j \in Jobs
  PROVE  Held(j) <=> Places(j) # {}
<1>1. ASSUME NEW p \in Places(j) PROVE Held(j)
  BY <1>1, PlacesOfJob DEF Held, Waits
<1>2. ASSUME NEW q \in QueueNames, Waits(j, q) PROVE Places(j) # {}
  <2>1. PICK i \in 1..Len(queue[q]) : queue[q][i] = j
    BY <1>2 DEF Waits
  <2>2. <<q, i>> \in Places(j)
    BY <2>1, PlacesOfJob, Zenon
  <2> QED
    BY <2>2
<1>3. ASSUME NEW w \in Workers, worker[w].job = j \/ slot[w] = j
      PROVE  Places(j) # {}
  <2>1. <<"worker", w>> \in Places(j) \/ <<"slot", w>> \in Places(j)
    BY <1>3, PlacesOfJob, Zenon
  <2> QED
    BY <2>1
<1>4. ASSUME InHandler(j) PROVE Places(j) # {}
  <2>1. <<"handler", j>> \in Places(j)
    BY <1>4, PlacesOfJob, Zenon
  <2> QED
    BY <2>1
<1> QED
  BY <1>1, <1>2, <1>3, <1>4 DEF Held

LEMMA OnePlace ==
  ASSUME TypeOK, NEW j \in Jobs, OneHolder(j),
         \A q \in QueueNames : Distinct(queue[q]),
         NEW x \in Places(j), NEW y \in Places(j)
  PROVE  x = y
<1>1. ASSUME NEW q \in QueueNames, NEW i \in 1..Len(queue[q]), queue[q][i] = j
      PROVE  /\ Waits(j, q)
             /\ \A m \in 1..Len(queue[q]) : queue[q][m] = j => m = i
  BY <1>1 DEF Waits, Distinct
<1>2. CASE \E q \in QueueNames : \E i \in 1..Len(queue[q]) :
             queue[q][i] = j /\ x = <<q, i>>
  BY <1>1, <1>2, PlacesOfJob DEF OneHolder
<1>3. CASE \E w \in Workers : worker[w].job = j /\ x = <<"worker", w>>
  BY <1>1, <1>3, PlacesOfJob DEF OneHolder
<1>4. CASE \E w \in Workers : slot[w] = j /\ x = <<"slot", w>>
  BY <1>1, <1>4, PlacesOfJob DEF OneHolder
<1>5. CASE InHandler(j) /\ x = <<"handler", j>>
  BY <1>1, <1>5, PlacesOfJob DEF OneHolder
<1> QED
  BY <1>2, <1>3, <1>4, <1>5, PlacesOfJob

\* No job is in two places, however creation, preemption, requeue, retry and
\* panics interleave: two workers never run the same job, and a job is not
\* delivered twice.
THEOREM JobInOnePlace ==
  ASSUME NoRereading
  PROVE  Spec => []SingleCustody
<1>1. SystemInv /\ CustodyInv => SingleCustody
  <2> SUFFICES ASSUME SystemInv, CustodyInv, NEW j \in Jobs
               PROVE  Cardinality(Places(j)) <= 1
    BY DEF SingleCustody
  <2>1. ASSUME NEW x \in Places(j), NEW y \in Places(j) PROVE x = y
    BY <2>1, OnePlace DEF SystemInv, CustodyInv, JobInv
  <2>2. CASE Places(j) = {}
    BY <2>2, FS_EmptySet
  <2>3. ASSUME NEW x \in Places(j) PROVE Cardinality(Places(j)) = 1
    <3>1. Places(j) = {x}
      BY <2>1, <2>3
    <3> QED
      BY <3>1, FS_Singleton
  <2> QED
    BY <2>2, <2>3
<1> QED
  BY <1>1, CustodyInductive, PTL

\* Nobody holds a job whose row is completed or failed.
THEOREM OverMeansReleased ==
  ASSUME NoRereading
  PROVE  Spec => []TerminalIsReleased
<1>1. SystemInv /\ CustodyInv => TerminalIsReleased
  <2> SUFFICES ASSUME SystemInv, CustodyInv, NEW j \in Jobs, Terminal(j)
               PROVE  Places(j) = {}
    BY DEF TerminalIsReleased
  <2>1. ~Held(j)
    BY FreeJob DEF CustodyInv, Terminal, Held
  <2> QED
    BY <2>1, HeldHasPlace DEF SystemInv
<1> QED
  BY <1>1, CustodyInductive, PTL

\* The dashboard can rely on the table: what waits in a queue, a slot or a
\* handler is pending, and what is processing is with a worker unless one
\* died or a statement failed.
THEOREM TableIsTrue ==
  ASSUME NoRereading
  PROVE  Spec => []TableTellsWhere
<1>1. SystemInv /\ CustodyInv => TableTellsWhere
  <2> SUFFICES ASSUME SystemInv, CustodyInv PROVE TableTellsWhere
    OBVIOUS
  <2>1. ASSUME NEW j \in Jobs, NEW p \in Places(j), p[1] # "worker"
        PROVE  db[j].status = "pending"
    <3>1. JobInv(j)
      BY DEF CustodyInv
    <3>2. \/ \E q \in QueueNames : Waits(j, q)
          \/ \E w \in Workers : slot[w] = j
          \/ InHandler(j)
      BY <2>1, PlacesOfJob DEF SystemInv, Waits
    <3> QED
      BY <3>1, <3>2 DEF JobInv, RowOfHeld
  <2>2. ASSUME faults["panic"] + faults["db"] = 0, NEW j \in Jobs,
               db[j].status = "processing"
        PROVE  \E w \in Workers : worker[w].job = j
    <3>1. faults["panic"] \in Nat /\ faults["db"] \in Nat
      BY Shapes DEF SystemInv, FaultKinds
    <3>2. faults["panic"] = 0 /\ faults["db"] = 0
      BY <2>2, <3>1
    <3> QED
      BY <2>2, <3>2 DEF CustodyInv, JobInv, HolderOf
  <2> QED
    BY <2>1, <2>2 DEF TableTellsWhere, ListAllPendingJobs, GetProcessingJobs
<1> QED
  BY <1>1, CustodyInductive, PTL

\* No pending job is lost in memory when the buffers have room for all jobs
\* and no statement fails: it is with a queue, a slot, a worker or a handler.
THEOREM PendingJobsAreHeld ==
  ASSUME NoRereading, RoomForAll
  PROVE  Spec => []PendingIsHeld
<1>1. SystemInv /\ CustodyInv => PendingIsHeld
  <2> SUFFICES ASSUME SystemInv, CustodyInv, faults["db"] = 0,
                      NEW j \in Jobs, db[j].status = "pending"
               PROVE  Places(j) # {}
    BY DEF PendingIsHeld
  <2>1. Held(j)
    BY DEF CustodyInv, JobInv, HolderOf
  <2> QED
    BY <2>1, HeldHasPlace DEF SystemInv
<1> QED
  BY <1>1, CustodyInductive, PTL

\* Nack never charges a job for more attempts than max_retries, manual
\* retries included, with a backend that keeps retry_count.
THEOREM AttemptsAreBounded ==
  ASSUME NoRereading, Backend = "postgres"
  PROVE  Spec => []AttemptsWithinBudget
<1>1. SystemInv /\ CustodyInv => AttemptsWithinBudget
  <2> SUFFICES ASSUME SystemInv, CustodyInv, NEW j \in Jobs
               PROVE  fails[j] <= db[j].max
    BY DEF AttemptsWithinBudget
  <2>1. fails[j] \in Nat /\ db[j].retry \in Nat /\ db[j].max \in Nat
    BY Shapes DEF SystemInv, Row
  <2>2. fails[j] <= db[j].retry /\ db[j].retry <= db[j].max
    BY DEF CustodyInv, JobInv, Attempts
  <2> QED
    BY <2>1, <2>2
<1> QED
  BY <1>1, CustodyInductive, PTL

-----------------------------------------------------------------------------
(* The life of a row *)

\* The row of job j becomes that of status s, retry n and max m.
RowTo(j, s, n, m) ==
  /\ \A k \in Jobs \ {j} : db'[k] = db[k]
  /\ db'[j].status = s /\ db'[j].retry = n /\ db'[j].max = m

\* What a step adds to the counters and to the manual retries.
Uncounted == UNCHANGED counter /\ faults'["retry"] = faults["retry"]

Counted(k) == Count(k) /\ faults'["retry"] = faults["retry"]

RetryCounted ==
  /\ UNCHANGED counter
  /\ faults["retry"] < MaxFaults["retry"]
  /\ faults'["retry"] = faults["retry"] + 1

\* What a step may do to the row of j: CreateJob, SetProcessing, Ack, Nack,
\* Requeue, Retry.
RowMove(j) ==
  \/ /\ db[j].status = "none" /\ db[j].retry = 0 /\ db[j].max = 0
     /\ RowTo(j, "pending", 0, MaxRetries)
     /\ Uncounted
  \/ /\ db[j].status = "pending"
     /\ RowTo(j, "processing", db[j].retry, db[j].max)
     /\ Uncounted
  \/ /\ db[j].status \in {"pending", "processing"}
     /\ RowTo(j, "completed", db[j].retry, db[j].max)
     /\ Counted("completed")
  \/ /\ db[j].status \in {"pending", "processing"}
     /\ db[j].retry < db[j].max
     /\ RowTo(j, IF db[j].retry + 1 = db[j].max THEN "failed" ELSE "pending",
              db[j].retry + 1, db[j].max)
     /\ Counted(IF db[j].retry + 1 = db[j].max THEN "failed" ELSE "retried")
  \/ /\ db[j].status \in {"pending", "processing"}
     /\ RowTo(j, "pending", db[j].retry, db[j].max)
     /\ Uncounted
  \/ /\ db[j].status = "failed"
     /\ RetryCounted
     /\ \E n \in {0, db[j].retry} :
          /\ RowTo(j, "pending", n, db[j].max + ExtraRetries)
          /\ Backend = "postgres" => n = db[j].retry

LEMMA OtherFaults ==
  ASSUME TypeOK, Fault("db") \/ Fault("panic") \/ UNCHANGED faults
  PROVE  faults'["retry"] = faults["retry"]
  BY Shapes DEF Fault, FaultKinds

LEMMA ApiRow ==
  ASSUME SystemInv, CustodyInv, NEW j \in Jobs, ApiStep(j)
  PROVE  (UNCHANGED db /\ Uncounted) \/ RowMove(j)
<1> USE Shapes DEF SystemInv
<1>1. db[j] \in Row /\ db \in [Jobs -> Row]
  OBVIOUS
<1>2. CASE CreateJob(j)
  <2>1. db[j].status = "none" /\ db[j].retry = 0 /\ db[j].max = 0
    BY <1>2 DEF CreateJob, CustodyInv, JobInv, RowOfNew
  <2>2. RowTo(j, "pending", 0, MaxRetries)
    BY <1>1, <1>2 DEF CreateJob, SaveJob, RowTo
  <2>3. Uncounted
    BY <1>2 DEF CreateJob, SaveJob, Uncounted
  <2> QED
    BY <2>1, <2>2, <2>3 DEF RowMove
<1>3. CASE RetryJob(j)
  <2>1. db[j].status = "failed"
    BY <1>3 DEF RetryJob, ResetForRetry
  <2>2. PICK n \in {0, db[j].retry} :
          Revived(j, n) /\ (Backend = "postgres" => n = db[j].retry)
    BY <1>3 DEF RetryJob, ResetForRetry
  <2>3. db' = [db EXCEPT ![j] = [db[j] EXCEPT !.status = "pending",
                 !.age = "fresh", !.max = db[j].max + ExtraRetries,
                 !.retry = n]]
    BY <1>1, <2>2 DEF Revived
  <2>4. RowTo(j, "pending", n, db[j].max + ExtraRetries)
    BY <1>1, <2>3 DEF RowTo, Row
  <2>5. RetryCounted
    <3>1. faults["retry"] \in Nat /\ "retry" \in FaultKinds
      BY DEF FaultKinds
    <3> QED
      BY <1>3, <2>2, <3>1 DEF RetryJob, Fault, Revived, RetryCounted
  <2> QED
    BY <2>1, <2>2, <2>4, <2>5 DEF RowMove
<1>4. CASE ~CreateJob(j) /\ ~RetryJob(j)
  <2>1. UNCHANGED store /\ (UNCHANGED faults \/ Fault("db"))
    BY <1>4 DEF ApiStep, HandlerFails, Preempt, CancelFirst, NoPreemption,
                HandlerEnqueue
  <2> QED
    BY <2>1, OtherFaults DEF store, Uncounted
<1> QED
  BY <1>2, <1>3, <1>4

LEMMA JobRow ==
  ASSUME SystemInv, CustodyInv, NEW w \in Workers, JobStep(w)
  PROVE  (UNCHANGED db /\ Uncounted) \/ \E j \in Jobs : RowMove(j)
<1> USE Shapes DEF SystemInv
<1>1. CASE StartProcessing(w) \/ Ack(w) \/ RequeuePreempted(w) \/ NackWrite(w)
  <2>1. PICK j \in Jobs : worker[w].job = j
    <3>1. worker[w].at \in Holding
      BY <1>1 DEF StartProcessing, Ack, RequeuePreempted, Preempted, NackWrite,
                  WriteCounter, Holding
    <3> QED
      BY <3>1, HeldIsJob
  <2>2. /\ db[j].status \in {"pending", "processing"}
        /\ db[j].retry < db[j].max
        /\ db[j].retry \in Nat /\ db[j].max \in Nat
        /\ JobInv(j)
    <3>1. db[j] \in Row
      OBVIOUS
    <3> QED
      BY <2>1, <3>1, HeldAlone DEF Row, CustodyInv
  <2> SUFFICES (UNCHANGED db /\ Uncounted) \/ RowMove(j)
    OBVIOUS
  <2>3. CASE StartProcessing(w)
    <3>1. db[j].status = "pending"
      BY <2>1, <2>2, <2>3 DEF StartProcessing, JobInv, RowOfHeld
    <3>2. CASE UpdateJobStatus(j, "processing") /\ UNCHANGED faults
      <4>1. Uncounted
        BY <3>2 DEF UpdateJobStatus, Counters, Uncounted
      <4> QED
        BY <3>1, <3>2, <4>1, RowEffect DEF RowIs, RowTo, RowMove
    <3>3. CASE Fault("db") /\ UNCHANGED store
      BY <3>3, OtherFaults DEF store, Uncounted
    <3> QED
      BY <2>1, <2>3, <3>2, <3>3 DEF StartProcessing
  <2>4. CASE Ack(w)
    <3>1. UpdateJobStatus(j, "completed")
      BY <2>1, <2>4 DEF Ack
    <3>2. Counted("completed")
      BY <2>4, <3>1 DEF Ack, UpdateJobStatus, Counters, Counted
    <3> QED
      BY <2>2, <3>1, <3>2, RowEffect DEF RowIs, RowTo, RowMove
  <2>5. CASE RequeuePreempted(w)
    <3>1. Requeue(j)
      BY <2>1, <2>5 DEF RequeuePreempted, Preempted
    <3>2. Uncounted
      BY <2>5, <3>1 DEF RequeuePreempted, Preempted, Requeue, Uncounted
    <3> QED
      BY <2>2, <3>1, <3>2, RowEffect DEF RowIs, RowTo, RowMove
  <2>6. CASE NackWrite(w)
    <3>1. worker[w].retry = db[j].retry + 1 /\ worker[w].max = db[j].max
      BY <2>1, <2>2, <2>6 DEF NackWrite, WriteCounter, JobInv, Attempts
    <3>2. worker[w].retry >= worker[w].max <=> db[j].retry + 1 = db[j].max
      BY <2>2, <3>1
    <3>3. UpdateJobRetry(j, IF db[j].retry + 1 = db[j].max THEN "failed"
                                                           ELSE "pending",
                         db[j].retry + 1)
      BY <2>1, <2>6, <3>1, <3>2 DEF NackWrite, WriteCounter
    <3>4. Counted(IF db[j].retry + 1 = db[j].max THEN "failed" ELSE "retried")
      BY <2>6, <3>3 DEF NackWrite, WriteCounter, UpdateJobRetry, Counted
    <3> QED
      BY <2>2, <3>3, <3>4, RowEffect DEF RowIs, RowTo, RowMove
  <2> QED
    BY <1>1, <2>3, <2>4, <2>5, <2>6
<1>2. CASE ~(StartProcessing(w) \/ Ack(w) \/ RequeuePreempted(w) \/ NackWrite(w))
  <2>1. UNCHANGED store /\ (UNCHANGED faults \/ Fault("db") \/ Fault("panic"))
    BY <1>2 DEF JobStep, Deadline, ProcessReturns, Panic, Restart, NackRead,
                PutBack, LeaveAfterPut, StoreFails
  <2> QED
    BY <2>1, OtherFaults DEF store, Uncounted
<1> QED
  BY <1>1, <1>2

LEMMA RowStep ==
  ASSUME NoRereading, SystemInv, CustodyInv, [Next]_vars
  PROVE  (UNCHANGED db /\ Uncounted) \/ \E j \in Jobs : RowMove(j)
<1>1. ASSUME NEW w \in Workers, PollStep(w) PROVE UNCHANGED <<store, faults>>
  BY <1>1 DEF PollStep, TakeSlot, ReadSlot, TakePriority, TakeLimited, TakeFifo,
              PriorityMiss, LimitedMiss, FifoMiss, TakeToken, Exit, Polling
<1>2. ASSUME UNCHANGED <<store, faults>> PROVE UNCHANGED db /\ Uncounted
  BY <1>2 DEF store, Uncounted
<1> QED
  BY <1>1, <1>2, ApiRow, JobRow, CalmCases DEF SystemInv

\* A row goes through the lifecycle and no other way: it is created once,
\* charged once per failed attempt, not charged for a preemption, and failed
\* exactly when its attempts are used up.
THEOREM RowsFollowLifecycle ==
  ASSUME NoRereading
  PROVE  Spec => FollowsLifecycle
<1> DEFINE Rows == [j \in Jobs |-> [status |-> db[j].status,
                                    retry |-> db[j].retry, max |-> db[j].max]]
<1>1. Init => Lifecycle!Init
  BY DEF Init, Lifecycle!Init, NoRow
<1>2. SystemInv /\ CustodyInv /\ [Next]_vars => [Lifecycle!Next]_Rows
  <2> SUFFICES ASSUME SystemInv, CustodyInv, [Next]_vars
               PROVE  Lifecycle!Next \/ UNCHANGED Rows
    OBVIOUS
  <2>1. ASSUME UNCHANGED db PROVE UNCHANGED Rows
    BY <2>1
  <2>2. ASSUME NEW j \in Jobs, RowMove(j)
        PROVE  Lifecycle!Next \/ UNCHANGED Rows
    <3>1. ASSUME NEW s, NEW n, NEW m, RowTo(j, s, n, m)
          PROVE  Rows' = [Rows EXCEPT ![j] = [status |-> s, retry |-> n,
                                              max |-> m]]
      BY <3>1 DEF RowTo
    <3>2. Rows[j] = [status |-> db[j].status, retry |-> db[j].retry,
                     max |-> db[j].max]
      OBVIOUS
    <3> SUFFICES \/ Lifecycle!Submit(j) \/ Lifecycle!Start(j)
                 \/ Lifecycle!Complete(j) \/ Lifecycle!Fail(j)
                 \/ Lifecycle!GiveBack(j) \/ Lifecycle!Revive(j)
                 \/ UNCHANGED Rows
      BY DEF Lifecycle!Next
    <3> USE DEF Lifecycle!Alive
    <3>3. CASE db[j].status = "none" /\ RowTo(j, "pending", 0, MaxRetries)
      BY <3>1, <3>2, <3>3 DEF Lifecycle!Submit
    <3>4. CASE /\ db[j].status = "pending"
               /\ RowTo(j, "processing", db[j].retry, db[j].max)
      BY <3>1, <3>2, <3>4 DEF Lifecycle!Start
    <3>5. CASE /\ db[j].status \in {"pending", "processing"}
               /\ RowTo(j, "completed", db[j].retry, db[j].max)
      BY <3>1, <3>2, <3>5 DEF Lifecycle!Complete
    <3>6. CASE /\ db[j].status \in {"pending", "processing"}
               /\ db[j].retry < db[j].max
               /\ RowTo(j, IF db[j].retry + 1 = db[j].max THEN "failed"
                                                          ELSE "pending",
                        db[j].retry + 1, db[j].max)
      <4> DEFINE s == IF db[j].retry + 1 = db[j].max THEN "failed"
                                                     ELSE "pending"
      <4>1. Rows' = [Rows EXCEPT ![j] = [status |-> s,
                       retry |-> db[j].retry + 1, max |-> db[j].max]]
        BY <3>1, <3>6
      <4>2. Rows' = [Rows EXCEPT ![j].retry = @ + 1, ![j].status = s]
        BY <3>2, <4>1
      <4> QED
        BY <3>2, <3>6, <4>2 DEF Lifecycle!Fail
    <3>7. CASE /\ db[j].status \in {"pending", "processing"}
               /\ RowTo(j, "pending", db[j].retry, db[j].max)
      <4>1. Rows' = [Rows EXCEPT ![j] = [status |-> "pending",
                       retry |-> db[j].retry, max |-> db[j].max]]
        BY <3>1, <3>7
      <4>2. CASE db[j].status = "pending"
        BY <3>2, <4>1, <4>2
      <4>3. CASE db[j].status = "processing"
        <5>1. Rows' = [Rows EXCEPT ![j].status = "pending"]
          BY <3>2, <4>1
        <5> QED
          BY <3>2, <4>3, <5>1 DEF Lifecycle!GiveBack
      <4> QED
        BY <3>7, <4>2, <4>3
    <3>8. CASE /\ db[j].status = "failed"
               /\ \E n \in {0, db[j].retry} :
                    RowTo(j, "pending", n, db[j].max + ExtraRetries)
      <4>1. PICK n \in {0, db[j].retry} :
              RowTo(j, "pending", n, db[j].max + ExtraRetries)
        BY <3>8
      <4>2. /\ Rows[j].status = "failed" /\ n \in {0, Rows[j].retry}
            /\ Rows' = [Rows EXCEPT ![j] = [status |-> "pending", retry |-> n,
                           max |-> Rows[j].max + ExtraRetries]]
        BY <3>1, <3>2, <3>8, <4>1
      <4> QED
        BY <4>2 DEF Lifecycle!Revive
    <3> QED
      BY <2>2, <3>3, <3>4, <3>5, <3>6, <3>7, <3>8 DEF RowMove
  <2> QED
    BY <2>1, <2>2, RowStep
<1> QED
  BY <1>1, <1>2, CustodyInductive, PTL DEF Spec, FollowsLifecycle, Lifecycle!Spec

\* Completed is for ever, and failed until an operator retries the job: no
\* late Ack, Nack or preemption of the same process touches a row again.
THEOREM OverIsOver ==
  ASSUME NoRereading
  PROVE  Spec => TerminalIsFinal
<1> DEFINE Final == \A j \in Jobs :
             Terminal(j) /\ db'[j] # db[j]
               => db[j].status = "failed" /\ faults'["retry"] > faults["retry"]
<1>1. SystemInv /\ CustodyInv /\ [Next]_vars => [Final]_vars
  <2> SUFFICES ASSUME SystemInv, CustodyInv, [Next]_vars,
                      NEW j \in Jobs, Terminal(j), db'[j] # db[j]
               PROVE  /\ db[j].status = "failed"
                      /\ faults'["retry"] > faults["retry"]
    OBVIOUS
  <2>1. PICK k \in Jobs : RowMove(k)
    BY RowStep
  <2>2. k = j
    BY <2>1 DEF RowMove, RowTo
  <2>3. faults["retry"] \in Nat
    BY Shapes DEF SystemInv, FaultKinds
  <2> QED
    BY <2>1, <2>2, <2>3 DEF RowMove, RetryCounted, Terminal
<1> QED
  BY <1>1, CustodyInductive, PTL DEF Spec, TerminalIsFinal

-----------------------------------------------------------------------------
(* Sums over the jobs *)

\* Induction over the natural numbers, and over the subsets of a finite set.
LEMMA Reaches ==
  ASSUME NEW T, T \subseteq Nat, 0 \in T, \A n \in T : n + 1 \in T
  PROVE  T = Nat
<1> DEFINE Less == {p \in Nat \X Nat : p[1] < p[2]}
<1>1. IsWellFoundedOn(Less, Nat)
  BY NatLessThanWellFounded DEF OpToRel
<1> SUFFICES ASSUME Nat \ T # {} PROVE FALSE
  OBVIOUS
<1>2. \E x \in Nat \ T : \A y \in Nat \ T : ~(<<y, x>> \in Less)
  <2> HIDE DEF Less
  <2> QED
    BY <1>1, WFMin
<1>3. PICK x \in Nat \ T : \A y \in Nat \ T : ~(<<y, x>> \in Less)
  BY <1>2
<1>4. x # 0 /\ x - 1 \in Nat /\ x - 1 < x /\ (x - 1) + 1 = x
  OBVIOUS
<1>5. x - 1 \in T
  BY <1>3, <1>4
<1> QED
  BY <1>4, <1>5

\* The element that a fold takes first.
First(s) == CHOOSE x \in s : TRUE

\* A fold takes an element of its set and goes on with a smaller one.
LEMMA FirstIn ==
  ASSUME NEW S, IsFiniteSet(S), NEW s \in SUBSET S, s # {}
  PROVE  /\ First(s) \in s /\ s \ {First(s)} \in SUBSET S
         /\ IsFiniteSet(s) /\ Cardinality(s) \in Nat \ {0}
         /\ Cardinality(s \ {First(s)}) = Cardinality(s) - 1
<1>1. First(s) \in s
  BY DEF First
<1>2. IsFiniteSet(s)
  BY FS_Subset
<1>3. Cardinality(s) \in Nat /\ Cardinality(s) # 0
  BY <1>2, FS_CardinalityType, FS_EmptySet
<1>4. Cardinality(s \ {First(s)}) = Cardinality(s) - 1
  <2> DEFINE x == First(s)
  <2> HIDE DEF x
  <2>1. Cardinality(s \ {x}) = IF x \in s THEN Cardinality(s) - 1 ELSE Cardinality(s)
    BY <1>2, FS_RemoveElement
  <2> QED
    BY <1>1, <2>1 DEF x
<1> QED
  BY <1>1, <1>2, <1>3, <1>4

\* What holds of {} and, when it holds without the first element, of a set,
\* holds of every subset of S.
LEMMA Shrinks ==
  ASSUME NEW S, IsFiniteSet(S), NEW T, {} \in T,
         \A s \in SUBSET S : s # {} /\ s \ {First(s)} \in T => s \in T
  PROVE  SUBSET S \subseteq T
<1> DEFINE N == {n \in Nat : \A s \in SUBSET S : Cardinality(s) = n => s \in T}
<1>1. \A s \in SUBSET S : IsFiniteSet(s) /\ Cardinality(s) \in Nat
  BY FS_Subset, FS_CardinalityType
<1>2. 0 \in N
  BY <1>1, FS_EmptySet
<1>3. ASSUME NEW n \in N PROVE n + 1 \in N
  <2> SUFFICES ASSUME NEW s \in SUBSET S, Cardinality(s) = n + 1
               PROVE  s \in T
    BY <1>3
  <2>1. s # {}
    BY FS_EmptySet
  <2>2. s \ {First(s)} \in SUBSET S /\ Cardinality(s \ {First(s)}) = n
    BY <2>1, FirstIn
  <2> QED
    BY <2>1, <2>2
<1>4. N = Nat
  <2> HIDE DEF N
  <2>1. N \subseteq Nat
    BY DEF N
  <2> QED
    BY <1>2, <1>3, <2>1, Reaches
<1> QED
  BY <1>1, <1>4

\* The sum of f over the subsets of S, as MapThenSumSet computes it.
IsSum(f, S, g) ==
  g = [s \in SUBSET S |-> IF s = {} THEN 0
                          ELSE f[First(s)] + g[s \ {First(s)}]]

\* There is such a function, although its definition is recursive: it is put
\* together from those on the subsets of at most n elements.
LEMMA SumExists ==
  ASSUME NEW S, IsFiniteSet(S), NEW f \in [S -> Nat]
  PROVE  \E g : IsSum(f, S, g)
<1> DEFINE D(n) == {s \in SUBSET S : Cardinality(s) <= n}
           Adds(g, s) == g[s] = IF s = {} THEN 0
                                ELSE f[First(s)] + g[s \ {First(s)}]
           N == {n \in Nat : \E g \in [D(n) -> Nat] : \A s \in D(n) : Adds(g, s)}
<1>1. \A s \in SUBSET S : IsFiniteSet(s) /\ Cardinality(s) \in Nat
  BY FS_Subset, FS_CardinalityType
<1>2. 0 \in N
  <2>1. \A s \in D(0) : s = {}
    BY <1>1, FS_EmptySet
  <2> DEFINE g == [s \in D(0) |-> 0]
  <2>2. g \in [D(0) -> Nat] /\ \A s \in D(0) : Adds(g, s)
    BY <2>1
  <2> QED
    BY <2>2
<1>3. ASSUME NEW n \in N PROVE n + 1 \in N
  <2>1. PICK g \in [D(n) -> Nat] : \A s \in D(n) : Adds(g, s)
    OBVIOUS
  <2> DEFINE h == [s \in D(n + 1) |-> IF s \in D(n) THEN g[s]
                                      ELSE f[First(s)] + g[s \ {First(s)}]]
  <2>2. ASSUME NEW s \in D(n + 1), s # {}
        PROVE  /\ s \ {First(s)} \in D(n) /\ s \ {First(s)} \in D(n + 1)
               /\ f[First(s)] \in Nat
    <3>1. /\ s \in SUBSET S /\ First(s) \in s /\ s \ {First(s)} \in SUBSET S
          /\ Cardinality(s) \in Nat
          /\ Cardinality(s \ {First(s)}) = Cardinality(s) - 1
      BY <2>2, FirstIn
    <3> QED
      BY <1>3, <2>2, <3>1
  <2>3. ASSUME NEW s \in D(n + 1), s = {} PROVE s \in D(n)
    BY <1>3, <2>3, FS_EmptySet
  <2>4. D(n) \subseteq D(n + 1)
    BY <1>1
  <2> HIDE DEF D
  <2>5. h \in [D(n + 1) -> Nat]
    BY <2>2, <2>3
  <2>6. ASSUME NEW s \in D(n + 1) PROVE Adds(h, s)
    <3>1. CASE s = {}
      BY <2>1, <2>3, <3>1
    <3>2. CASE s # {}
      <4>1. h[s \ {First(s)}] = g[s \ {First(s)}]
        BY <2>2, <3>2
      <4>2. s \in D(n) => g[s] = f[First(s)] + g[s \ {First(s)}]
        BY <2>1, <3>2
      <4> QED
        BY <3>2, <4>1, <4>2
    <3> QED
      BY <3>1, <3>2
  <2> HIDE DEF h, Adds
  <2> QED
    BY <2>5, <2>6
<1>4. N = Nat
  <2> HIDE DEF N
  <2>1. N \subseteq Nat
    BY DEF N
  <2> QED
    BY <1>2, <1>3, <2>1, Reaches
<1>5. Cardinality(S) \in Nat /\ D(Cardinality(S)) = SUBSET S
  <2>1. \A s \in SUBSET S : Cardinality(s) <= Cardinality(S)
    BY FS_Subset
  <2> QED
    BY <2>1, FS_CardinalityType
<1>6. \E g \in [D(Cardinality(S)) -> Nat] : \A s \in D(Cardinality(S)) : Adds(g, s)
  <2>1. Cardinality(S) \in N
    BY <1>4, <1>5
  <2> HIDE DEF D, Adds
  <2> QED
    BY <2>1
<1>7. PICK g \in [SUBSET S -> Nat] : \A s \in SUBSET S : Adds(g, s)
  <2> HIDE DEF D, Adds
  <2> QED
    BY <1>5, <1>6
<1>8. IsSum(f, S, g)
  BY <1>7 DEF IsSum
<1> QED
  BY <1>8

LEMMA SumUnfolds ==
  ASSUME NEW S, IsFiniteSet(S), NEW f, NEW g, IsSum(f, S, g)
  PROVE  /\ g[{}] = 0
         /\ \A s \in SUBSET S : s # {} => g[s] = f[First(s)] + g[s \ {First(s)}]
<1>1. {} \in SUBSET S
  OBVIOUS
<1> QED
  BY <1>1 DEF IsSum

\* A sum of numbers is one, and is at most the number of summands times a
\* bound that all of them keep.
LEMMA SumBounded ==
  ASSUME NEW S, IsFiniteSet(S), NEW f \in [S -> Nat], NEW g, IsSum(f, S, g),
         NEW b \in Nat, \A x \in S : f[x] <= b
  PROVE  g[S] \in Nat /\ g[S] <= Cardinality(S) * b
<1> DEFINE T == {s \in SUBSET S : g[s] \in Nat /\ g[s] <= Cardinality(s) * b}
<1>1. {} \in T
  BY SumUnfolds, FS_EmptySet
<1>2. ASSUME NEW s \in SUBSET S, s # {}, s \ {First(s)} \in T PROVE s \in T
  <2> DEFINE r == s \ {First(s)}
  <2>1. /\ First(s) \in S /\ Cardinality(s) \in Nat
        /\ Cardinality(r) = Cardinality(s) - 1
    BY <1>2, FirstIn
  <2>2. g[s] = f[First(s)] + g[r]
    BY <1>2, SumUnfolds
  <2>3. g[r] \in Nat /\ g[r] <= (Cardinality(s) - 1) * b
    BY <1>2, <2>1
  <2> HIDE DEF r
  <2>4. (Cardinality(s) - 1) * b + b = Cardinality(s) * b
    BY <2>1
  <2>5. f[First(s)] \in Nat /\ f[First(s)] <= b
    BY <2>1
  <2>6. Cardinality(s) * b \in Nat /\ (Cardinality(s) - 1) * b \in Int
    BY <2>1
  <2> QED
    BY <2>2, <2>3, <2>4, <2>5, <2>6
<1>3. SUBSET S \subseteq T
  <2> HIDE DEF T
  <2> QED
    BY <1>1, <1>2, Shrinks
<1> QED
  BY <1>3

\* A sum follows a change of one of its summands.
LEMMA SumFollows ==
  ASSUME NEW S, IsFiniteSet(S), NEW j \in S,
         NEW f \in [S -> Nat], NEW g, IsSum(f, S, g), g[S] \in Nat,
         NEW e \in [S -> Nat], NEW h, IsSum(e, S, h),
         \A x \in S \ {j} : e[x] = f[x]
  PROVE  h[S] = g[S] + e[j] - f[j]
<1> DEFINE d(s) == IF j \in s THEN e[j] - f[j] ELSE 0
           T == {s \in SUBSET S : g[s] \in Int /\ h[s] = g[s] + d(s)}
<1>1. {} \in T
  BY SumUnfolds
<1>2. ASSUME NEW s \in SUBSET S, s # {}, s \ {First(s)} \in T PROVE s \in T
  <2> DEFINE x == First(s)
             r == s \ {First(s)}
  <2>1. x \in S /\ x \in s
    BY <1>2, FirstIn
  <2>2. g[s] = f[x] + g[r] /\ h[s] = e[x] + h[r]
    BY <1>2, SumUnfolds
  <2>3. g[r] \in Int /\ h[r] = g[r] + d(r)
    BY <1>2
  <2>4. f[x] \in Nat /\ e[x] \in Nat /\ f[j] \in Nat /\ e[j] \in Nat
    BY <2>1
  <2>5. CASE x = j
    <3>1. d(s) = e[x] - f[x] /\ d(r) = 0
      BY <2>1, <2>5
    <3> HIDE DEF x, r, d
    <3> QED
      BY <2>2, <2>3, <2>4, <3>1
  <2>6. CASE x # j
    <3>1. e[x] = f[x] /\ d(s) = d(r) /\ d(r) \in Int
      BY <2>1, <2>4, <2>6
    <3> HIDE DEF x, r, d
    <3> QED
      BY <2>2, <2>3, <2>4, <3>1
  <2> QED
    BY <2>5, <2>6
<1>3. SUBSET S \subseteq T
  <2> HIDE DEF T
  <2> QED
    BY <1>1, <1>2, Shrinks
<1>4. f[j] \in Nat /\ e[j] \in Nat
  OBVIOUS
<1> QED
  BY <1>3, <1>4

\* The retry counters of all rows together.
RetrySum(d) == MapThenSumSet(LAMBDA j : d[j].retry, Jobs)

LEMMA RetrySumIs ==
  ASSUME IsFiniteSet(Jobs), NEW d \in [Jobs -> Row]
  PROVE  \E g : /\ IsSum([j \in Jobs |-> d[j].retry], Jobs, g)
                /\ RetrySum(d) = g[Jobs]
<1> DEFINE f == [j \in Jobs |-> d[j].retry]
           Adds(g) == g = [s \in SUBSET Jobs |->
                             IF s = {} THEN 0
                             ELSE d[CHOOSE x \in s : TRUE].retry
                                    + g[s \ {CHOOSE x \in s : TRUE}]]
           h == CHOOSE g : Adds(g)
<1>1. f \in [Jobs -> Nat]
  BY DEF Row
<1>2. \A s \in SUBSET Jobs : s # {} =>
        f[First(s)] = d[CHOOSE x \in s : TRUE].retry
  BY FirstIn DEF First
<1>3. ASSUME NEW g PROVE IsSum(f, Jobs, g) <=> Adds(g)
  <2>1. ASSUME NEW s \in SUBSET Jobs
        PROVE  (IF s = {} THEN 0 ELSE f[First(s)] + g[s \ {First(s)}])
               = IF s = {} THEN 0
                 ELSE d[CHOOSE x \in s : TRUE].retry
                        + g[s \ {CHOOSE x \in s : TRUE}]
    BY <1>2 DEF First
  <2> HIDE DEF f
  <2> QED
    BY <2>1 DEF IsSum
<1>4. \E g : Adds(g)
  <2> HIDE DEF Adds, f
  <2> QED
    BY <1>1, <1>3, SumExists
<1>5. Adds(h)
  <2> HIDE DEF Adds
  <2> QED
    BY <1>4, Zenon
<1>6. RetrySum(d) = h[Jobs]
  BY DEF RetrySum, MapThenSumSet, MapThenFoldSet
<1> HIDE DEF Adds, f, h
<1>7. IsSum(f, Jobs, h) /\ RetrySum(d) = h[Jobs]
  BY <1>3, <1>5, <1>6
<1> QED
  BY <1>7 DEF f

LEMMA RetrySumBounded ==
  ASSUME IsFiniteSet(Jobs), NEW d \in [Jobs -> Row],
         NEW b \in Nat, \A j \in Jobs : d[j].retry <= b
  PROVE  RetrySum(d) \in Nat /\ RetrySum(d) <= Cardinality(Jobs) * b
<1> DEFINE f == [j \in Jobs |-> d[j].retry]
<1>1. f \in [Jobs -> Nat] /\ \A j \in Jobs : f[j] <= b
  BY DEF Row
<1>2. PICK g : IsSum(f, Jobs, g) /\ RetrySum(d) = g[Jobs]
  BY RetrySumIs
<1> HIDE DEF f
<1> QED
  BY <1>1, <1>2, SumBounded

LEMMA RetrySumFollows ==
  ASSUME IsFiniteSet(Jobs), NEW d \in [Jobs -> Row], NEW e \in [Jobs -> Row],
         RetrySum(d) \in Nat, NEW j \in Jobs,
         \A k \in Jobs \ {j} : e[k] = d[k]
  PROVE  RetrySum(e) = RetrySum(d) + e[j].retry - d[j].retry
<1> DEFINE f == [k \in Jobs |-> d[k].retry]
           r == [k \in Jobs |-> e[k].retry]
<1>1. /\ f \in [Jobs -> Nat] /\ r \in [Jobs -> Nat]
      /\ \A k \in Jobs \ {j} : r[k] = f[k]
      /\ f[j] = d[j].retry /\ r[j] = e[j].retry
  BY DEF Row
<1>2. PICK g : IsSum(f, Jobs, g) /\ RetrySum(d) = g[Jobs]
  BY RetrySumIs
<1>3. PICK h : IsSum(r, Jobs, h) /\ RetrySum(e) = h[Jobs]
  BY RetrySumIs
<1> HIDE DEF f, r
<1>4. h[Jobs] = g[Jobs] + r[j] - f[j]
  BY <1>1, <1>2, <1>3, SumFollows
<1> QED
  BY <1>1, <1>2, <1>3, <1>4

-----------------------------------------------------------------------------
(* The counters *)

\* The jobs of status s.
Bearing(d, s) == {k \in Jobs : d[k].status = s}

LEMMA BearingFollows ==
  ASSUME IsFiniteSet(Jobs), NEW d, NEW e, NEW s, NEW j \in Jobs,
         \A k \in Jobs \ {j} : e[k] = d[k]
  PROVE  /\ Cardinality(Bearing(d, s)) \in Nat
         /\ Cardinality(Bearing(e, s)) <= Cardinality(Jobs)
         /\ Cardinality(Bearing(e, s)) = Cardinality(Bearing(d, s))
              + (IF e[j].status = s THEN 1 ELSE 0)
              - (IF d[j].status = s THEN 1 ELSE 0)
<1> DEFINE A == Bearing(d, s)
           B == Bearing(e, s)
<1>1. IsFiniteSet(A) /\ IsFiniteSet(B) /\ Cardinality(B) <= Cardinality(Jobs)
  <2>1. A \in SUBSET Jobs /\ B \in SUBSET Jobs
    BY DEF Bearing
  <2> HIDE DEF A, B
  <2> QED
    BY <2>1, FS_Subset
<1>2. Cardinality(A) \in Nat
  BY <1>1, FS_CardinalityType
<1>3. CASE e[j].status = s /\ d[j].status # s
  <2>1. B = A \cup {j} /\ j \notin A
    BY <1>3 DEF Bearing
  <2> HIDE DEF A, B
  <2>2. Cardinality(B) = Cardinality(A) + 1
    BY <1>1, <2>1, FS_AddElement
  <2> QED
    BY <1>1, <1>2, <1>3, <2>2 DEF A, B
<1>4. CASE e[j].status # s /\ d[j].status = s
  <2>1. B = A \ {j} /\ j \in A
    BY <1>4 DEF Bearing
  <2> HIDE DEF A, B
  <2>2. Cardinality(B) = Cardinality(A) - 1
    BY <1>1, <2>1, FS_RemoveElement
  <2> QED
    BY <1>1, <1>2, <1>4, <2>2 DEF A, B
<1>5. CASE e[j].status = s <=> d[j].status = s
  <2>1. B = A
    BY <1>5 DEF Bearing
  <2> HIDE DEF A, B
  <2> QED
    BY <1>1, <1>2, <1>5, <2>1 DEF A, B
<1> QED
  BY <1>3, <1>4, <1>5

\* The counters agree with a table d and n manual retries.
Agree(c, d, n) ==
  /\ c["completed"] = Cardinality(Bearing(d, "completed"))
  /\ c["failed"] = Cardinality(Bearing(d, "failed")) + n
  /\ c["failed"] + c["retried"] = RetrySum(d)

LEMMA AgreeIs ==
  /\ CountersAgree <=> Agree(counter, db, faults["retry"])
  /\ CountersAgree' <=> Agree(counter', db', faults'["retry"])
  BY DEF CountersAgree, Agree, Bearing, RetrySum, MapThenSumSet, MapThenFoldSet

\* The attempts that a job can be given, and a CountTo that all attempts of
\* all jobs do not exceed.
MostAttempts == MaxRetries + ExtraRetries * MaxFaults["retry"]

CountsAll ==
  IsFiniteSet(Jobs) /\ Cardinality(Jobs) * MostAttempts <= CountTo

CountInv ==
  /\ faults["retry"] <= MaxFaults["retry"]
  /\ \A j \in Jobs : db[j].max <= MaxRetries + ExtraRetries * faults["retry"]
  /\ Agree(counter, db, faults["retry"])

\* The budget of a row grows with the manual retries.
LEMMA BudgetStep ==
  ASSUME NoRereading, SystemInv, CustodyInv, CountInv, [Next]_vars
  PROVE  /\ faults'["retry"] <= MaxFaults["retry"]
         /\ \A j \in Jobs :
              db'[j].max <= MaxRetries + ExtraRetries * faults'["retry"]
<1>1. /\ faults["retry"] \in Nat /\ MaxFaults["retry"] \in Nat
      /\ MaxRetries \in Nat /\ ExtraRetries \in Nat
      /\ ExtraRetries * faults["retry"] \in Nat
  BY Shapes, SystemAssumption, StoreAssumption DEF SystemInv, FaultKinds
<1>2. \A j \in Jobs : db[j].max \in Nat
  BY Shapes DEF SystemInv, Row
<1>3. CASE UNCHANGED db /\ Uncounted
  BY <1>3 DEF CountInv, Uncounted
<1>4. ASSUME NEW j \in Jobs, RowMove(j), faults'["retry"] = faults["retry"],
             db[j].status # "failed"
      PROVE  \A k \in Jobs :
               db'[k].max <= MaxRetries + ExtraRetries * faults'["retry"]
  <2>1. db'[j].max \in {MaxRetries, db[j].max}
        /\ \A k \in Jobs \ {j} : db'[k] = db[k]
    BY <1>4 DEF RowMove, RowTo
  <2> QED
    BY <1>1, <1>2, <1>4, <2>1 DEF CountInv
<1>5. ASSUME NEW j \in Jobs, RowMove(j), RetryCounted, db[j].status = "failed"
      PROVE  \A k \in Jobs :
               db'[k].max <= MaxRetries + ExtraRetries * faults'["retry"]
  <2>1. /\ db'[j].max = db[j].max + ExtraRetries
        /\ \A k \in Jobs \ {j} : db'[k] = db[k]
    BY <1>5 DEF RowMove, RowTo
  <2>2. ExtraRetries * faults'["retry"] = ExtraRetries * faults["retry"] + ExtraRetries
    BY <1>1, <1>5 DEF RetryCounted
  <2> QED
    BY <1>1, <1>2, <2>1, <2>2 DEF CountInv
<1>6. ASSUME NEW j \in Jobs, RowMove(j)
      PROVE  \/ faults'["retry"] = faults["retry"] /\ db[j].status # "failed"
             \/ RetryCounted /\ db[j].status = "failed"
  BY <1>6 DEF RowMove, Uncounted, Counted
<1>7. faults'["retry"] <= MaxFaults["retry"]
  <2>1. faults'["retry"] = faults["retry"] \/ RetryCounted
    BY <1>6, RowStep DEF Uncounted
  <2> QED
    BY <1>1, <2>1 DEF CountInv, RetryCounted
<1> QED
  BY <1>3, <1>4, <1>5, <1>6, <1>7, RowStep

\* CountTo has room for what a step counts.
LEMMA CountRoom ==
  ASSUME NoRereading, CountsAll, SystemInv, CustodyInv, CountInv, [Next]_vars
  PROVE  /\ db' \in [Jobs -> Row]
         /\ RetrySum(db') \in Nat /\ RetrySum(db') <= CountTo
         /\ Cardinality(Jobs) \in Nat /\ Cardinality(Jobs) <= CountTo
<1>1. /\ MaxFaults["retry"] \in Nat /\ MaxRetries \in Nat \ {0}
      /\ ExtraRetries \in Nat /\ CountTo \in Nat
  BY SystemAssumption, StoreAssumption DEF FaultKinds
<1>2. TypeOK'
  BY TypeStep DEF SystemInv
<1>3. db' \in [Jobs -> Row] /\ faults' \in [FaultKinds -> Nat]
  BY <1>2 DEF TypeOK, StoreTypeOK
<1>4. faults'["retry"] \in Nat /\ faults'["retry"] <= MaxFaults["retry"]
  BY <1>3, BudgetStep DEF FaultKinds
<1>5. ExtraRetries * faults'["retry"] <= ExtraRetries * MaxFaults["retry"]
      /\ ExtraRetries * faults'["retry"] \in Nat
      /\ ExtraRetries * MaxFaults["retry"] \in Nat
  <2>1. ASSUME NEW a \in Nat, NEW x \in Nat, NEW y \in Nat, x <= y
        PROVE  a * x <= a * y /\ a * x \in Nat /\ a * y \in Nat
    BY <2>1
  <2> QED
    BY <1>1, <1>4, <2>1
<1>6. MostAttempts \in Nat \ {0}
  BY <1>1, <1>5 DEF MostAttempts
<1>7. ASSUME NEW j \in Jobs PROVE db'[j].retry <= MostAttempts
  <2>1. db'[j].retry <= db'[j].max
    <3>1. JobInv(j)'
      BY CustodyStep DEF CustodyInv
    <3> QED
      BY <3>1 DEF JobInv, Attempts
  <2>2. db'[j].max <= MaxRetries + ExtraRetries * faults'["retry"]
    BY BudgetStep
  <2>3. db'[j].retry \in Nat /\ db'[j].max \in Nat
    BY <1>3 DEF Row
  <2> QED
    BY <1>1, <1>5, <2>1, <2>2, <2>3 DEF MostAttempts
<1>8. Cardinality(Jobs) \in Nat /\ IsFiniteSet(Jobs)
  BY FS_CardinalityType DEF CountsAll
<1>9. RetrySum(db') \in Nat /\ RetrySum(db') <= Cardinality(Jobs) * MostAttempts
  BY <1>3, <1>6, <1>7, <1>8, RetrySumBounded
<1>10. /\ Cardinality(Jobs) <= Cardinality(Jobs) * MostAttempts
       /\ Cardinality(Jobs) * MostAttempts \in Nat
  <2>1. ASSUME NEW a \in Nat, NEW b \in Nat \ {0}
        PROVE  a <= a * b /\ a * b \in Nat
    <3>1. a * b = a + a * (b - 1) /\ b - 1 \in Nat
      OBVIOUS
    <3>2. a * (b - 1) \in Nat
      BY <3>1
    <3> QED
      BY <3>1, <3>2
  <2> QED
    BY <1>6, <1>8, <2>1
<1> QED
  BY <1>1, <1>3, <1>8, <1>9, <1>10 DEF CountsAll

\* The counters follow the table.
LEMMA AgreeStep ==
  ASSUME NoRereading, Backend = "postgres", CountsAll,
         SystemInv, CustodyInv, CountInv, [Next]_vars
  PROVE  CountInv'
<1> DEFINE n == faults["retry"]
           m == faults'["retry"]
<1>1. /\ db \in [Jobs -> Row] /\ counter \in [Counters -> 0..CountTo]
      /\ CountTo \in Nat /\ n \in Nat /\ IsFiniteSet(Jobs)
  <2>1. TypeOK
    BY DEF SystemInv
  <2> QED
    BY <2>1, StoreAssumption DEF TypeOK, StoreTypeOK, FaultKinds, CountsAll
<1>2. Agree(counter, db, n)
  BY DEF CountInv
<1>3. /\ counter["completed"] \in Nat /\ counter["failed"] \in Nat
      /\ counter["retried"] \in Nat /\ RetrySum(db) \in Nat
  BY <1>1, <1>2 DEF Counters, Agree
<1>4. /\ db' \in [Jobs -> Row]
      /\ RetrySum(db') \in Nat /\ RetrySum(db') <= CountTo
      /\ Cardinality(Jobs) \in Nat /\ Cardinality(Jobs) <= CountTo
  BY CountRoom
<1>5. CASE UNCHANGED db /\ Uncounted
  <2>1. Agree(counter', db', m)
    BY <1>2, <1>5 DEF Uncounted
  <2> QED
    BY <2>1, BudgetStep DEF CountInv
<1>6. ASSUME NEW j \in Jobs, RowMove(j) PROVE Agree(counter', db', m)
  <2> DEFINE C(s) == Cardinality(Bearing(db, s))
             D(s) == Cardinality(Bearing(db', s))
  <2>1. \A k \in Jobs \ {j} : db'[k] = db[k]
    BY <1>6 DEF RowMove, RowTo
  <2>2. ASSUME NEW s
        PROVE  /\ C(s) \in Nat /\ D(s) <= Cardinality(Jobs)
               /\ D(s) = C(s) + (IF db'[j].status = s THEN 1 ELSE 0)
                              - (IF db[j].status = s THEN 1 ELSE 0)
    BY <1>1, <2>1, BearingFollows
  <2>3. RetrySum(db') = RetrySum(db) + db'[j].retry - db[j].retry
    BY <1>1, <1>3, <1>4, <2>1, RetrySumFollows
  <2>4. db[j].retry \in Nat /\ db[j].max \in Nat
    BY <1>1 DEF Row
  <2>5. /\ counter["completed"] = C("completed")
        /\ counter["failed"] = C("failed") + n
        /\ counter["failed"] + counter["retried"] = RetrySum(db)
    BY <1>2 DEF Agree
  <2> SUFFICES /\ counter'["completed"] = D("completed")
               /\ counter'["failed"] = D("failed") + m
               /\ counter'["failed"] + counter'["retried"] = RetrySum(db')
    BY DEF Agree
  <2>6. ASSUME NEW k \in Counters, counter[k] < CountTo, Count(k)
        PROVE  counter' = [counter EXCEPT ![k] = counter[k] + 1]
    BY <1>1, <2>6 DEF Count
  <2>7. C("completed") \in Nat /\ C("failed") \in Nat
    BY <2>2
  <2> HIDE DEF C, D
  <2>8. CASE /\ db[j].status \in {"none", "pending", "processing"}
             /\ \E s \in {"pending", "processing"} :
                  \/ RowTo(j, s, db[j].retry, db[j].max)
                  \/ db[j].retry = 0 /\ RowTo(j, s, 0, MaxRetries)
             /\ Uncounted
    <3>1. db'[j].status \in {"pending", "processing"} /\ db'[j].retry = db[j].retry
      BY <2>8 DEF RowTo
    <3>2. D("completed") = C("completed") /\ D("failed") = C("failed")
      BY <2>2, <2>7, <2>8, <3>1
    <3>3. RetrySum(db') = RetrySum(db)
      BY <1>3, <2>3, <2>4, <3>1
    <3> QED
      BY <2>5, <2>8, <3>2, <3>3 DEF Uncounted
  <2>9. CASE /\ db[j].status \in {"pending", "processing"}
             /\ RowTo(j, "completed", db[j].retry, db[j].max)
             /\ Counted("completed")
    <3>1. db'[j].status = "completed" /\ db'[j].retry = db[j].retry
      BY <2>9 DEF RowTo
    <3>2. D("completed") = C("completed") + 1 /\ D("failed") = C("failed")
      BY <2>2, <2>7, <2>9, <3>1
    <3>3. RetrySum(db') = RetrySum(db)
      BY <1>3, <2>3, <2>4, <3>1
    <3>4. D("completed") <= Cardinality(Jobs)
      BY <2>2
    <3>5. counter["completed"] < CountTo /\ "completed" \in Counters
      BY <1>1, <1>4, <2>5, <2>7, <3>2, <3>4 DEF Counters
    <3>6. counter' = [counter EXCEPT !["completed"] = counter["completed"] + 1]
      BY <2>6, <2>9, <3>5 DEF Counted
    <3>7. /\ counter'["completed"] = counter["completed"] + 1
          /\ counter'["failed"] = counter["failed"]
          /\ counter'["retried"] = counter["retried"] /\ m = n
      BY <1>1, <2>9, <3>6 DEF Counters, Counted
    <3> QED
      BY <2>5, <3>2, <3>3, <3>7
  <2>10. CASE /\ db[j].status \in {"pending", "processing"}
              /\ RowTo(j, "failed", db[j].retry + 1, db[j].max)
              /\ Counted("failed")
    <3>1. db'[j].status = "failed" /\ db'[j].retry = db[j].retry + 1
      BY <2>10 DEF RowTo
    <3>2. D("completed") = C("completed") /\ D("failed") = C("failed") + 1
      BY <2>2, <2>7, <2>10, <3>1
    <3>3. RetrySum(db') = RetrySum(db) + 1
      BY <1>3, <2>3, <2>4, <3>1
    <3>4. counter["failed"] < CountTo /\ "failed" \in Counters
      BY <1>1, <1>3, <1>4, <2>5, <3>3 DEF Counters
    <3>5. counter' = [counter EXCEPT !["failed"] = counter["failed"] + 1]
      BY <2>6, <2>10, <3>4 DEF Counted
    <3>6. /\ counter'["completed"] = counter["completed"]
          /\ counter'["failed"] = counter["failed"] + 1
          /\ counter'["retried"] = counter["retried"] /\ m = n
      BY <1>1, <2>10, <3>5 DEF Counters, Counted
    <3> HIDE DEF m, n
    <3> QED
      BY <1>1, <1>3, <2>5, <2>7, <3>2, <3>3, <3>6
  <2>11. CASE /\ db[j].status \in {"pending", "processing"}
              /\ RowTo(j, "pending", db[j].retry + 1, db[j].max)
              /\ Counted("retried")
    <3>1. db'[j].status = "pending" /\ db'[j].retry = db[j].retry + 1
      BY <2>11 DEF RowTo
    <3>2. D("completed") = C("completed") /\ D("failed") = C("failed")
      BY <2>2, <2>7, <2>11, <3>1
    <3>3. RetrySum(db') = RetrySum(db) + 1
      BY <1>3, <2>3, <2>4, <3>1
    <3>4. counter["retried"] < CountTo /\ "retried" \in Counters
      BY <1>1, <1>3, <1>4, <2>5, <3>3 DEF Counters
    <3>5. counter' = [counter EXCEPT !["retried"] = counter["retried"] + 1]
      BY <2>6, <2>11, <3>4 DEF Counted
    <3>6. /\ counter'["completed"] = counter["completed"]
          /\ counter'["failed"] = counter["failed"]
          /\ counter'["retried"] = counter["retried"] + 1 /\ m = n
      BY <1>1, <2>11, <3>5 DEF Counters, Counted
    <3> HIDE DEF m, n
    <3> QED
      BY <1>1, <1>3, <2>5, <2>7, <3>2, <3>3, <3>6
  <2>12. CASE /\ db[j].status = "failed"
              /\ RowTo(j, "pending", db[j].retry, db[j].max + ExtraRetries)
              /\ RetryCounted
    <3>1. db'[j].status = "pending" /\ db'[j].retry = db[j].retry
      BY <2>12 DEF RowTo
    <3>2. D("completed") = C("completed") /\ D("failed") = C("failed") - 1
      BY <2>2, <2>7, <2>12, <3>1
    <3>3. RetrySum(db') = RetrySum(db)
      BY <1>3, <2>3, <2>4, <3>1
    <3>4. UNCHANGED counter /\ m = n + 1
      BY <2>12 DEF RetryCounted
    <3> HIDE DEF m, n
    <3> QED
      BY <1>1, <1>3, <2>5, <2>7, <3>2, <3>3, <3>4
  <2> QED
    <3> HIDE DEF m, n
    <3> QED
      BY <1>6, <2>8, <2>9, <2>10, <2>11, <2>12 DEF RowMove
<1>7. ASSUME NEW j \in Jobs, RowMove(j) PROVE CountInv'
  BY <1>6, <1>7, BudgetStep DEF CountInv
<1> QED
  BY <1>5, <1>7, RowStep

LEMMA CountInit ==
  ASSUME CountsAll, Init
  PROVE  CountInv
<1>1. /\ db = [j \in Jobs |-> NoRow] /\ counter = NoCounts
      /\ faults = [k \in FaultKinds |-> 0]
  BY DEF Init
<1>2. /\ MaxFaults["retry"] \in Nat /\ faults["retry"] = 0
      /\ MaxRetries \in Nat /\ ExtraRetries \in Nat
  BY <1>1, SystemAssumption, StoreAssumption DEF FaultKinds
<1>3. ASSUME NEW s \in {"completed", "failed"}
      PROVE  Cardinality(Bearing(db, s)) = 0
  <2>1. Bearing(db, s) = {}
    BY <1>1 DEF Bearing, NoRow
  <2> QED
    BY <2>1, FS_EmptySet
<1>4. RetrySum(db) = 0
  <2>1. db \in [Jobs -> Row] /\ \A j \in Jobs : db[j].retry <= 0
    BY <1>1 DEF NoRow, Row, Status
  <2>2. Cardinality(Jobs) \in Nat /\ IsFiniteSet(Jobs)
    BY FS_CardinalityType DEF CountsAll
  <2>3. RetrySum(db) \in Nat /\ RetrySum(db) <= Cardinality(Jobs) * 0
    BY <2>1, <2>2, RetrySumBounded
  <2> QED
    BY <2>2, <2>3
<1>5. counter["completed"] = 0 /\ counter["failed"] = 0 /\ counter["retried"] = 0
  BY <1>1 DEF NoCounts, Counters
<1>6. Agree(counter, db, faults["retry"])
  BY <1>2, <1>3, <1>4, <1>5 DEF Agree
<1>7. \A j \in Jobs : db[j].max <= MaxRetries + ExtraRetries * faults["retry"]
  <2>1. \A j \in Jobs : db[j].max = 0
    BY <1>1 DEF NoRow
  <2>2. ExtraRetries * faults["retry"] = 0
    <3>1. ExtraRetries * 0 = 0
      BY <1>2
    <3> QED
      BY <1>2, <3>1
  <2>3. 0 <= MaxRetries + 0
    BY <1>2
  <2>4. 0 <= MaxRetries + ExtraRetries * faults["retry"]
    BY <2>2, <2>3, Zenon
  <2> QED
    BY <2>1, <2>4, Zenon
<1> QED
  BY <1>2, <1>6, <1>7 DEF CountInv

\* The counters tell what happened to the jobs, while the process lives and
\* keeps retry_count: completed is the number of completed rows, failed that
\* of failed rows and of manual retries, and every attempt that a row was
\* charged for is counted once, as a failure or as a retry.
THEOREM CountersTellTheTable ==
  ASSUME NoRereading, Backend = "postgres", CountsAll
  PROVE  Spec => []CountersAgree
<1>1. Init => CountInv
  BY CountInit
<1>2. SystemInv /\ CustodyInv /\ CountInv /\ [Next]_vars => CountInv'
  BY AgreeStep
<1>3. CountInv => CountersAgree
  BY AgreeIs DEF CountInv
<1> QED
  BY <1>1, <1>2, <1>3, CustodyInductive, PTL DEF Spec
=============================================================================
