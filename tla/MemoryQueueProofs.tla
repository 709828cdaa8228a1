------------------------- MODULE MemoryQueueProofs --------------------------
(***************************************************************************)
(* Proofs about MemoryQueue for any number of callers, any set of jobs and *)
(* any capacity.                                                           *)
(*                                                                         *)
(* The argument for the close protocol: the WaitGroup counts the Enqueue   *)
(* calls past the closed check (WgCountsActive), a Close call gets past    *)
(* wg.Wait only when that count is zero, and no call joins afterwards      *)
(* because `closed' was set, under the same mutex, before the wait began.  *)
(***************************************************************************)
EXTENDS MemoryQueue, FiniteSetTheorems, TLAPS

\* The close protocol: what holds of the closers and of the callers of
\* Enqueue at each of its stages.
CloseProtocol ==
  /\ \A c \in Closers : cls[c] # "idle" => closed
  /\ chanClosed => closed
  /\ \A c \in Closers : cls[c] = "close" => Active = {}
  /\ chanClosed => Active = {}

\* The history is what was handed out, then what is in the channel.
HistoryInv == sent = got \o jobs

\* The channel holds what was accepted and not yet handed out, never more
\* than its buffer; a caller told that the queue is finished saw it closed.
ChannelInv ==
  /\ HistoryInv
  /\ Len(jobs) <= Capacity
  /\ \A d \in Dequeuers : deq[d] = "stopped" => chanClosed /\ jobs = <<>>

QueueInv ==
  /\ TypeOK
  /\ WgCountsActive
  /\ CloseProtocol
  /\ ClosesOnce
  /\ ChannelInv

USE DEF chan, closed, chanClosed

\* Every step has one of these forms: a step of an Enqueue caller, of a
\* Dequeue caller, of a Close caller, or none at all.
LEMMA StepCases ==
  ASSUME [Next]_vars
  PROVE  \/ UNCHANGED vars
         \/ \E e \in Enqueuers :
              \/ EnqueueRefused(e)
              \/ \E j \in Jobs : EnqueueAdmitted(e, j)
              \/ SelectSend(e)
              \/ SelectDone(e) \/ SelectTimeout(e)
              \/ EnqueueReturn(e)
         \/ \E d \in Dequeuers :
              \/ DequeueCall(d) \/ DequeueOrWaitCall(d) \/ DequeueOrWaitNil(d)
              \/ DequeueNil(d)
              \/ Receive(d)
         \/ \E c \in Closers :
              CloseCall(c) \/ CloseWait(c) \/ CloseChannel(c)
  BY DEF Next, EnqueueStep, DequeueStep, CloseStep

\* The callers counted by the WaitGroup are finitely many.
LEMMA ActiveFinite ==
  /\ IsFiniteSet(Active)
  /\ Cardinality(Active) \in Nat
<1>1. Active \subseteq Enqueuers
  BY DEF Active
<1> QED
  BY <1>1, QueueAssumption, FS_Subset, FS_CardinalityType

\* The WaitGroup keeps counting exactly the Enqueue calls in progress: an
\* admitted call joins the count, a returning one leaves it.
LEMMA WgStep ==
  ASSUME TypeOK, WgCountsActive, [Next]_vars
  PROVE  WgCountsActive'
<1>1. ASSUME NEW e \in Enqueuers, NEW j \in Jobs, EnqueueAdmitted(e, j)
      PROVE  WgCountsActive'
  <2>1. Active' = Active \cup {e} /\ e \notin Active
    BY <1>1 DEF TypeOK, EnqueueAdmitted, Admit, Active
  <2>2. Cardinality(Active \cup {e}) = Cardinality(Active) + 1
    BY <2>1, ActiveFinite, FS_AddElement
  <2> QED
    BY <1>1, <2>1, <2>2 DEF WgCountsActive, EnqueueAdmitted, Admit
<1>2. ASSUME NEW e \in Enqueuers, EnqueueReturn(e) PROVE WgCountsActive'
  <2>1. Active' = Active \ {e} /\ e \in Active
    BY <1>2 DEF TypeOK, EnqueueReturn, Active
  <2>2. Cardinality(Active \ {e}) = Cardinality(Active) - 1
    BY <2>1, ActiveFinite, FS_RemoveElement
  <2> QED
    BY <1>2, <2>1, <2>2 DEF WgCountsActive, EnqueueReturn
<1>3. ASSUME NEW e \in Enqueuers,
             SelectSend(e) \/ SelectDone(e) \/ SelectTimeout(e)
      PROVE  WgCountsActive'
  <2>1. Active' = Active /\ wg' = wg
    BY <1>3 DEF TypeOK, SelectSend, SelectDone, SelectTimeout, GiveUp, Active
  <2> QED
    BY <2>1 DEF WgCountsActive
<1>4. ASSUME UNCHANGED <<wg, enq>> PROVE WgCountsActive'
  BY <1>4 DEF WgCountsActive, Active
<1>5. ASSUME UNCHANGED vars PROVE UNCHANGED <<wg, enq>>
  BY <1>5 DEF vars
<1>6. ASSUME NEW e \in Enqueuers, EnqueueRefused(e)
      PROVE  UNCHANGED <<wg, enq>>
  BY <1>6 DEF EnqueueRefused
<1>7. ASSUME NEW d \in Dequeuers,
             \/ DequeueCall(d) \/ DequeueOrWaitCall(d) \/ DequeueOrWaitNil(d)
             \/ DequeueNil(d)
             \/ Receive(d)
      PROVE  UNCHANGED <<wg, enq>>
  BY <1>7 DEF DequeueCall, DequeueOrWaitCall, DequeueOrWaitNil, DequeueNil,
              DequeuerMoves, Receive
<1>8. ASSUME NEW c \in Closers,
             CloseCall(c) \/ CloseWait(c) \/ CloseChannel(c)
      PROVE  UNCHANGED <<wg, enq>>
  BY <1>8 DEF CloseCall, CloseWait, WaitOver, CloseChannel
<1> QED
  BY <1>1, <1>2, <1>3, <1>4, <1>5, <1>6, <1>7, <1>8, StepCases

\* Every step of every caller keeps the types.  Only wg.Done needs more than
\* the types: the counter is positive because the caller is counted in it.
LEMMA TypingStep ==
  ASSUME TypeOK, WgCountsActive, [Next]_vars
  PROVE  TypeOK'
<1>1. CASE UNCHANGED vars
  BY <1>1 DEF TypeOK, vars
<1>2. ASSUME NEW e \in Enqueuers, EnqueueRefused(e) PROVE TypeOK'
  BY <1>2 DEF TypeOK, EnqueueRefused
<1>3. ASSUME NEW e \in Enqueuers, NEW j \in Jobs, EnqueueAdmitted(e, j)
      PROVE  TypeOK'
  BY <1>3 DEF TypeOK, EnqueueAdmitted, Admit
<1>4. ASSUME NEW e \in Enqueuers, SelectSend(e) PROVE TypeOK'
  BY <1>4 DEF TypeOK, SelectSend
<1>5. ASSUME NEW e \in Enqueuers, SelectDone(e) \/ SelectTimeout(e)
      PROVE  TypeOK'
  BY <1>5 DEF TypeOK, SelectDone, SelectTimeout, GiveUp
<1>6. ASSUME NEW e \in Enqueuers, EnqueueReturn(e) PROVE TypeOK'
  <2>1. Active # {}
    BY <1>6 DEF EnqueueReturn, Active
  <2>2. wg # 0
    BY <2>1, ActiveFinite, FS_EmptySet DEF WgCountsActive
  <2> QED
    BY <1>6, <2>2 DEF TypeOK, EnqueueReturn
<1>7. ASSUME NEW d \in Dequeuers,
             \/ DequeueCall(d) \/ DequeueOrWaitCall(d) \/ DequeueOrWaitNil(d)
             \/ DequeueNil(d)
      PROVE  TypeOK'
  BY <1>7 DEF TypeOK, DequeueCall, DequeueOrWaitCall, DequeueNil,
              DequeueOrWaitNil, DequeuerMoves
<1>8. ASSUME NEW d \in Dequeuers, Receive(d) PROVE TypeOK'
  BY <1>8 DEF TypeOK, Receive
<1>9. ASSUME NEW c \in Closers, CloseCall(c) PROVE TypeOK'
  BY <1>9 DEF TypeOK, CloseCall
<1>10. ASSUME NEW c \in Closers, CloseWait(c) \/ CloseChannel(c)
       PROVE  TypeOK'
  BY <1>10 DEF TypeOK, CloseWait, WaitOver, CloseChannel
<1> QED
  BY <1>1, <1>2, <1>3, <1>4, <1>5, <1>6, <1>7, <1>8, <1>9, <1>10, StepCases

\* The close protocol goes on as it should: a closer passes wg.Wait only when
\* no Enqueue call is in progress, and none starts later because the closed
\* flag was set first.
LEMMA ProtocolStep ==
  ASSUME TypeOK, WgCountsActive, CloseProtocol, [Next]_vars
  PROVE  CloseProtocol'
<1> USE DEF CloseProtocol, TypeOK
<1>1. ASSUME NEW e \in Enqueuers, NEW j \in Jobs, EnqueueAdmitted(e, j)
      PROVE  CloseProtocol'
  BY <1>1 DEF EnqueueAdmitted, Admit
<1>2. ASSUME NEW e \in Enqueuers,
             \/ SelectSend(e) \/ SelectDone(e) \/ SelectTimeout(e)
             \/ EnqueueReturn(e)
      PROVE  CloseProtocol'
  <2>1. Active' \subseteq Active /\ UNCHANGED <<life, cls>>
    BY <1>2 DEF SelectSend, SelectDone, SelectTimeout, GiveUp, EnqueueReturn,
                Active
  <2> QED
    BY <2>1
<1>3. ASSUME UNCHANGED <<life, cls, enq>> PROVE CloseProtocol'
  BY <1>3 DEF Active
<1>4. ASSUME UNCHANGED vars PROVE UNCHANGED <<life, cls, enq>>
  BY <1>4 DEF vars
<1>5. ASSUME NEW e \in Enqueuers, EnqueueRefused(e)
      PROVE  UNCHANGED <<life, cls, enq>>
  BY <1>5 DEF EnqueueRefused
<1>6. ASSUME NEW d \in Dequeuers,
             \/ DequeueCall(d) \/ DequeueOrWaitCall(d) \/ DequeueOrWaitNil(d)
             \/ DequeueNil(d)
             \/ Receive(d)
      PROVE  UNCHANGED <<life, cls, enq>>
  BY <1>6 DEF DequeueCall, DequeueOrWaitCall, DequeueOrWaitNil, DequeueNil,
              DequeuerMoves, Receive
<1>7. ASSUME NEW c \in Closers, CloseCall(c) PROVE CloseProtocol'
  <2>1. Active' = Active
    BY <1>7 DEF CloseCall, Active
  <2> QED
    BY <1>7, <2>1 DEF CloseCall
<1>8. ASSUME NEW c \in Closers, CloseWait(c) PROVE CloseProtocol'
  <2>1. Active = {} /\ Active' = Active
    BY <1>8, ActiveFinite, FS_EmptySet
       DEF CloseWait, WaitOver, WgCountsActive, Active
  <2> QED
    BY <1>8, <2>1 DEF CloseWait, WaitOver
<1>9. ASSUME NEW c \in Closers, CloseChannel(c) PROVE CloseProtocol'
  <2>1. Active' = Active
    BY <1>9 DEF CloseChannel, Active
  <2> QED
    BY <1>9, <2>1 DEF CloseChannel
<1> QED
  BY <1>1, <1>2, <1>3, <1>4, <1>5, <1>6, <1>7, <1>8, <1>9, StepCases

\* Only the first Close call gets past the closed check, and it leaves the
\* protocol with the very step that closes the channel.
LEMMA ClosesOnceStep ==
  ASSUME TypeOK, CloseProtocol, ClosesOnce, [Next]_vars
  PROVE  ClosesOnce'
<1> USE DEF ClosesOnce, TypeOK
<1>1. ASSUME UNCHANGED <<life, cls>> PROVE ClosesOnce'
  BY <1>1
<1>2. ASSUME UNCHANGED vars PROVE UNCHANGED <<life, cls>>
  BY <1>2 DEF vars
<1>3. ASSUME NEW e \in Enqueuers, NEW j \in Jobs, EnqueueAdmitted(e, j)
      PROVE  UNCHANGED <<life, cls>>
  BY <1>3 DEF EnqueueAdmitted, Admit
<1>4. ASSUME NEW e \in Enqueuers,
             \/ EnqueueRefused(e)
             \/ SelectSend(e) \/ SelectDone(e) \/ SelectTimeout(e)
             \/ EnqueueReturn(e)
      PROVE  UNCHANGED <<life, cls>>
  BY <1>4 DEF EnqueueRefused, SelectSend, SelectDone, SelectTimeout, GiveUp,
              EnqueueReturn
<1>5. ASSUME NEW d \in Dequeuers,
             \/ DequeueCall(d) \/ DequeueOrWaitCall(d) \/ DequeueOrWaitNil(d)
             \/ DequeueNil(d)
             \/ Receive(d)
      PROVE  UNCHANGED <<life, cls>>
  BY <1>5 DEF DequeueCall, DequeueOrWaitCall, DequeueOrWaitNil, DequeueNil,
              DequeuerMoves, Receive
<1>6. ASSUME NEW c \in Closers, CloseCall(c) PROVE ClosesOnce'
  BY <1>6 DEF CloseCall, CloseProtocol
<1>7. ASSUME NEW c \in Closers, CloseWait(c) PROVE ClosesOnce'
  BY <1>7 DEF CloseWait, WaitOver
<1>8. ASSUME NEW c \in Closers, CloseChannel(c) PROVE ClosesOnce'
  BY <1>8 DEF CloseChannel
<1> QED
  BY <1>1, <1>2, <1>3, <1>4, <1>5, <1>6, <1>7, <1>8, StepCases

\* A send appends the same job to the buffer and to the history; a receive
\* moves the oldest buffered job to the history of received ones.
LEMMA SendKeepsFifo ==
  ASSUME got \in Seq(Jobs), jobs \in Seq(Jobs), NEW j \in Jobs
  PROVE  Append(got \o jobs, j) = got \o Append(jobs, j)
  OBVIOUS

LEMMA ReceiveKeepsFifo ==
  ASSUME NEW S, NEW g \in Seq(S), NEW b \in Seq(S), b # <<>>
  PROVE  Append(g, Head(b)) \o Tail(b) = g \o b
  OBVIOUS

LEMMA ChannelStep ==
  ASSUME TypeOK, CloseProtocol, ChannelInv, [Next]_vars
  PROVE  ChannelInv'
<1> USE DEF ChannelInv, HistoryInv, TypeOK
<1>1. ASSUME UNCHANGED <<life, jobs, sent, got, deq>> PROVE ChannelInv'
  BY <1>1
<1>2. ASSUME UNCHANGED vars PROVE UNCHANGED <<life, jobs, sent, got, deq>>
  BY <1>2 DEF vars
<1>3. ASSUME NEW e \in Enqueuers, NEW j \in Jobs, EnqueueAdmitted(e, j)
      PROVE  UNCHANGED <<life, jobs, sent, got, deq>>
  BY <1>3 DEF EnqueueAdmitted, Admit
<1>4. ASSUME NEW e \in Enqueuers,
             \/ EnqueueRefused(e)
             \/ SelectDone(e) \/ SelectTimeout(e)
             \/ EnqueueReturn(e)
      PROVE  UNCHANGED <<life, jobs, sent, got, deq>>
  BY <1>4 DEF EnqueueRefused, SelectDone, SelectTimeout, GiveUp, EnqueueReturn
<1>5. ASSUME NEW e \in Enqueuers, SelectSend(e) PROVE ChannelInv'
  <2>1. arg[e] \in Jobs
    OBVIOUS
  <2>2. sent' = got' \o jobs'
    <3>1. Append(got \o jobs, arg[e]) = got \o Append(jobs, arg[e])
      BY <2>1, SendKeepsFifo
    <3> QED
      BY <1>5, <2>1, <3>1 DEF SelectSend
  <2>3. Len(jobs') <= Capacity
    BY <1>5, <2>1, QueueAssumption DEF SelectSend
  <2>4. ~chanClosed
    BY <1>5 DEF SelectSend, CloseProtocol, Active
  <2> QED
    BY <1>5, <2>2, <2>3, <2>4 DEF SelectSend
<1>6. ASSUME NEW d \in Dequeuers, Receive(d) PROVE ChannelInv'
  <2>1. sent' = got' \o jobs'
    <3>1. Append(got, Head(jobs)) \o Tail(jobs) = got \o jobs
      BY <1>6, ReceiveKeepsFifo DEF Receive
    <3> QED
      BY <1>6, <3>1 DEF Receive
  <2>2. Len(jobs') <= Capacity
    BY <1>6, QueueAssumption DEF Receive
  <2> QED
    BY <1>6, <2>1, <2>2 DEF Receive
<1>7. ASSUME NEW d \in Dequeuers,
             DequeueCall(d) \/ DequeueOrWaitCall(d) \/ DequeueOrWaitNil(d)
               \/ DequeueNil(d)
      PROVE  ChannelInv'
  BY <1>7 DEF DequeueCall, DequeueOrWaitCall, DequeueOrWaitNil, DequeueNil,
              DequeuerMoves
<1>8. ASSUME NEW c \in Closers,
             CloseCall(c) \/ CloseWait(c) \/ CloseChannel(c)
      PROVE  ChannelInv'
  BY <1>8 DEF CloseCall, CloseWait, WaitOver, CloseChannel
<1> QED
  BY <1>1, <1>2, <1>3, <1>4, <1>5, <1>6, <1>7, <1>8, StepCases

-----------------------------------------------------------------------------
(* The theorems *)

LEMMA Invariance == Spec => []QueueInv
<1>1. Init => QueueInv
  <2> SUFFICES ASSUME Init PROVE QueueInv
    OBVIOUS
  <2>1. TypeOK
    BY DEF Init, TypeOK
  <2>2. Active = {}
    BY DEF Init, Active
  <2>3. WgCountsActive
    BY <2>2, FS_EmptySet DEF Init, WgCountsActive
  <2>4. CloseProtocol /\ ClosesOnce
    BY DEF Init, CloseProtocol, ClosesOnce
  <2>5. ChannelInv
    BY QueueAssumption DEF Init, ChannelInv, HistoryInv
  <2> QED
    BY <2>1, <2>3, <2>4, <2>5 DEF QueueInv
<1>2. QueueInv /\ [Next]_vars => QueueInv'
  BY TypingStep, WgStep, ProtocolStep, ClosesOnceStep, ChannelStep
     DEF QueueInv
<1> QED
  BY <1>1, <1>2, PTL DEF Spec

\* Every variable keeps its type.  In particular wg.Done never makes the
\* WaitGroup counter negative, on which Go would panic.
THEOREM TypeCorrect == Spec => []TypeOK
<1>1. QueueInv => TypeOK
  BY DEF QueueInv
<1> QED
  BY <1>1, Invariance, PTL

\* The WaitGroup of Close counts the Enqueue calls in progress, whatever the
\* number of callers.
THEOREM WaitGroupExact == Spec => []WgCountsActive
<1>1. QueueInv => WgCountsActive
  BY DEF QueueInv
<1> QED
  BY <1>1, Invariance, PTL

\* No interleaving of Enqueue and Close sends on a closed channel.
THEOREM SendNeverPanics == Spec => []NoSendOnClosed
<1>1. QueueInv => NoSendOnClosed
  BY DEF QueueInv, CloseProtocol, Active, NoSendOnClosed
<1> QED
  BY <1>1, Invariance, PTL

\* However many goroutines call Close, the channel is closed at most once.
THEOREM CloseNeverPanics == Spec => []ClosesOnce
<1>1. QueueInv => ClosesOnce
  BY DEF QueueInv
<1> QED
  BY <1>1, Invariance, PTL

\* A nil from Dequeue is final: nothing is or ever will be buffered.
THEOREM NilMeansDrained == Spec => []DrainedIsFinal
<1>1. QueueInv => DrainedIsFinal
  BY DEF QueueInv, ChannelInv, CloseProtocol, Active, DrainedIsFinal
<1> QED
  BY <1>1, Invariance, PTL

\* The queue with its mutex, WaitGroup, select and close protocol implements
\* the abstract bounded FIFO channel: a send is a Put, a receive a Get, the
\* closing of the channel a Shut, and every other step changes nothing that
\* the contract speaks of.
THEOREM QueueImplementsContract == Spec => Implements
<1>1. Init => Contract!Init
  BY DEF Init, Contract!Init
<1>2. QueueInv /\ [Next]_vars => [Contract!Next]_(Contract!vars)
  <2> SUFFICES ASSUME QueueInv, [Next]_vars
               PROVE  Contract!Next \/ UNCHANGED Contract!vars
    OBVIOUS
  <2> USE DEF QueueInv, TypeOK
  <2>1. ASSUME UNCHANGED <<sent, got, life>> PROVE UNCHANGED Contract!vars
    BY <2>1 DEF Contract!vars
  <2>2. ASSUME UNCHANGED vars PROVE UNCHANGED <<sent, got, life>>
    BY <2>2 DEF vars
  <2>3. ASSUME NEW e \in Enqueuers, NEW j \in Jobs, EnqueueAdmitted(e, j)
        PROVE  UNCHANGED <<sent, got, life>>
    BY <2>3 DEF EnqueueAdmitted, Admit
  <2>4. ASSUME NEW e \in Enqueuers,
               \/ EnqueueRefused(e)
               \/ SelectDone(e) \/ SelectTimeout(e)
               \/ EnqueueReturn(e)
        PROVE  UNCHANGED <<sent, got, life>>
    BY <2>4 DEF EnqueueRefused, SelectDone, SelectTimeout, GiveUp,
                EnqueueReturn
  <2>5. ASSUME NEW e \in Enqueuers, SelectSend(e) PROVE Contract!Next
    <3>1. ~chanClosed
      BY <2>5 DEF SelectSend, CloseProtocol, Active
    <3>2. Len(sent) - Len(got) = Len(jobs)
      BY DEF ChannelInv, HistoryInv
    <3>3. Contract!Put(arg[e])
      BY <2>5, <3>1, <3>2 DEF SelectSend, Contract!Put
    <3> QED
      BY <3>3 DEF Contract!Next
  <2>6. ASSUME NEW d \in Dequeuers, Receive(d) PROVE Contract!Next
    <3>1. jobs # <<>> /\ Len(jobs) > 0
      BY <2>6 DEF Receive
    <3>2. Len(got) < Len(sent) /\ sent[Len(got) + 1] = Head(jobs)
      BY <3>1 DEF ChannelInv, HistoryInv
    <3>3. Contract!Get
      BY <2>6, <3>2 DEF Receive, Contract!Get
    <3> QED
      BY <3>3 DEF Contract!Next
  <2>7. ASSUME NEW d \in Dequeuers,
               \/ DequeueCall(d) \/ DequeueOrWaitCall(d)
               \/ DequeueOrWaitNil(d) \/ DequeueNil(d)
        PROVE  UNCHANGED <<sent, got, life>>
    BY <2>7 DEF DequeueCall, DequeueOrWaitCall, DequeueOrWaitNil, DequeueNil,
                DequeuerMoves
  <2>8. ASSUME NEW c \in Closers, CloseCall(c) \/ CloseWait(c)
        PROVE  UNCHANGED Contract!vars
    BY <2>8 DEF CloseCall, CloseWait, WaitOver, Contract!vars
  <2>9. ASSUME NEW c \in Closers, CloseChannel(c) PROVE Contract!Next
    <3>1. ~chanClosed
      BY <2>9 DEF CloseChannel, ClosesOnce
    <3>2. Contract!Shut
      BY <2>9, <3>1 DEF CloseChannel, Contract!Shut
    <3> QED
      BY <3>2 DEF Contract!Next
  <2> QED
    BY <2>1, <2>2, <2>3, <2>4, <2>5, <2>6, <2>7, <2>8, <2>9, StepCases
<1> QED
  BY <1>1, <1>2, Invariance, PTL DEF Implements, Contract!Spec, Spec
=============================================================================
