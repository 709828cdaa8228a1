------------------------ MODULE EmailProcessorProofs ------------------------
(***************************************************************************)
(* Proofs about EmailProcessor for any number of attempts and preemptions. *)
(*                                                                         *)
(* None of the properties is kept by every step on its own.  They rest on  *)
(* what the channel `done' of an attempt says about its sender, and on how *)
(* an attempt can have ended: only a context that was canceled or ran into *)
(* its deadline leaves a sender behind.                                    *)
(***************************************************************************)
EXTENDS EmailProcessor, TLAPS

\* The job is charged for no more attempts than it has.
BudgetInv == status \in {"pending", "processing"} => retry < MaxRetries

\* A sender that reports success has read the server's answer, and it has
\* ended when its result is in the channel.
SenderInv ==
  \A a \in Attempts :
    /\ sender[a] \in {"quit", "nil"} \/ done[a] = "nil"
         => server[a] = "accepted"
    /\ sender[a] = "ended" <=> done[a] # "none"

\* Contexts and senders belong to the attempts that were made; only the
\* current attempt may have a live context, a context ends by its deadline
\* only when that has passed, and one that is released at the end of its
\* attempt leaves no sender behind.
ContextInv ==
  \A a \in Attempts :
    /\ a > attempt => ctx[a] = "none" /\ sender[a] = "none"
    /\ a < attempt => ctx[a] \notin {"none", "live"}
    /\ ctx[a] = "deadline" => a \in expired
    /\ ctx[a] = "released" => sender[a] \in {"none", "ended"}
    /\ ctx[a] = "released" /\ done[a] = "nil"
         => a = attempt /\ status = "completed"

\* Where the worker is agrees with the row, with the context of the attempt
\* and with what its sender has reported.
WorkerInv ==
  /\ proc = "idle" <=> status # "processing"
  /\ proc = "idle" /\ attempt # 0 => ctx[attempt] \notin {"none", "live"}
  /\ proc # "idle" =>
       attempt # 0 /\ ctx[attempt] \in {"live", "canceled", "deadline"}
  /\ proc \in {"delay", "ok"} => done[attempt] = "nil"
  /\ proc = "err" /\ ctx[attempt] = "live" =>
       sender[attempt] \in {"none", "ended"} /\ done[attempt] # "nil"
  /\ status = "completed" => attempt # 0 /\ done[attempt] = "nil"

EmailInv == TypeOK /\ BudgetInv /\ SenderInv /\ ContextInv /\ WorkerInv

\* The steps of the sender of attempt a, and of the server about its message.
SenderStep(a) ==
  \/ Dial(a) \/ HandOver(a) \/ CloseData(a) \/ Quit(a) \/ Fails(a)
  \/ Deliver(a)
  \/ \E answer \in {"accepted", "refused"} : Decide(a, answer)

LEMMA TypingStep ==
  ASSUME EmailInv, [Next]_vars
  PROVE  TypeOK' /\ BudgetInv'
<1> USE EmailAssumption DEF TypeOK, BudgetInv
<1>1. CASE UNCHANGED vars
  BY <1>1 DEF vars, EmailInv
<1>2. CASE Start
  BY <1>2 DEF Start, EmailInv
<1>3. CASE SelectDone \/ SelectCtxDone \/ DelayOver \/ DelayCtxDone
  BY <1>3 DEF SelectDone, SelectCtxDone, DelayOver, DelayCtxDone, Goes,
              EmailInv
<1>4. CASE Ack \/ RequeuePreempted \/ Nack
  BY <1>4 DEF Ack, RequeuePreempted, Nack, EndAttempt, EmailInv, WorkerInv
<1>5. CASE Preempt
  BY <1>5 DEF Preempt, EmailInv
<1>6. ASSUME NEW a \in Attempts, Expire(a) PROVE TypeOK' /\ BudgetInv'
  BY <1>6 DEF Expire, EmailInv
<1>7. ASSUME NEW a \in Attempts, SenderStep(a) PROVE TypeOK' /\ BudgetInv'
  BY <1>7 DEF SenderStep, Dial, HandOver, CloseData, Quit, Fails, Deliver,
              Delivers, Decide, Sends, Talking, EmailInv
<1> QED
  BY <1>1, <1>2, <1>3, <1>4, <1>5, <1>6, <1>7 DEF Next, WorkerStep, SenderStep

\* A result is final, and success is reported after the server's answer.
LEMMA SenderInvStep ==
  ASSUME EmailInv, [Next]_vars
  PROVE  SenderInv'
<1> USE DEF TypeOK, SenderInv, EmailInv
<1>1. CASE UNCHANGED vars
  BY <1>1 DEF vars
<1>2. CASE Start
  BY <1>2, EmailAssumption DEF Start, ContextInv, Attempts
<1>3. CASE SelectDone \/ SelectCtxDone \/ DelayOver \/ DelayCtxDone
  BY <1>3 DEF SelectDone, SelectCtxDone, DelayOver, DelayCtxDone, Goes
<1>4. CASE Ack \/ RequeuePreempted \/ Nack
  BY <1>4 DEF Ack, RequeuePreempted, Nack, EndAttempt
<1>5. CASE Preempt
  BY <1>5 DEF Preempt
<1>6. ASSUME NEW a \in Attempts, Expire(a) PROVE SenderInv'
  BY <1>6 DEF Expire
<1>7. ASSUME NEW a \in Attempts, SenderStep(a) PROVE SenderInv'
  BY <1>7 DEF SenderStep, Dial, HandOver, CloseData, Quit, Fails, Deliver,
              Delivers, Decide, Sends, Talking
<1> QED
  BY <1>1, <1>2, <1>3, <1>4, <1>5, <1>6, <1>7 DEF Next, WorkerStep, SenderStep

LEMMA ContextInvStep ==
  ASSUME EmailInv, [Next]_vars
  PROVE  ContextInv'
<1> USE EmailAssumption DEF TypeOK, ContextInv, EmailInv, Attempts
<1>1. CASE UNCHANGED vars
  BY <1>1 DEF vars
<1>2. CASE Start
  BY <1>2 DEF Start, WorkerInv, SenderInv
<1>3. CASE SelectDone \/ SelectCtxDone \/ DelayOver \/ DelayCtxDone
  BY <1>3 DEF SelectDone, SelectCtxDone, DelayOver, DelayCtxDone, Goes
<1>4. CASE Ack \/ RequeuePreempted \/ Nack
  BY <1>4 DEF Ack, RequeuePreempted, Nack, EndAttempt, WorkerInv, SenderInv
<1>5. CASE Preempt
  BY <1>5 DEF Preempt
<1>6. ASSUME NEW a \in Attempts, Expire(a) PROVE ContextInv'
  BY <1>6 DEF Expire
<1>7. ASSUME NEW a \in Attempts, SenderStep(a) PROVE ContextInv'
  BY <1>7 DEF SenderStep, Dial, HandOver, CloseData, Quit, Fails, Deliver,
              Delivers, Decide, Sends, Talking, SenderInv
<1> QED
  BY <1>1, <1>2, <1>3, <1>4, <1>5, <1>6, <1>7 DEF Next, WorkerStep, SenderStep

LEMMA WorkerInvStep ==
  ASSUME EmailInv, [Next]_vars
  PROVE  WorkerInv'
<1> USE EmailAssumption DEF TypeOK, WorkerInv, EmailInv, Attempts
<1>1. CASE UNCHANGED vars
  BY <1>1 DEF vars
<1>2. CASE Start
  BY <1>2 DEF Start, ContextInv, SenderInv
<1>3. CASE SelectDone \/ SelectCtxDone \/ DelayOver \/ DelayCtxDone
  BY <1>3 DEF SelectDone, SelectCtxDone, DelayOver, DelayCtxDone, Goes,
              CtxDone, SenderInv
<1>4. CASE Ack \/ RequeuePreempted \/ Nack
  BY <1>4 DEF Ack, RequeuePreempted, Nack, EndAttempt
<1>5. CASE Preempt
  BY <1>5 DEF Preempt
<1>6. ASSUME NEW a \in Attempts, Expire(a) PROVE WorkerInv'
  BY <1>6 DEF Expire
<1>7. ASSUME NEW a \in Attempts, SenderStep(a) PROVE WorkerInv'
  BY <1>7 DEF SenderStep, Dial, HandOver, CloseData, Quit, Fails, Deliver,
              Delivers, Decide, Sends, Talking, SenderInv
<1> QED
  BY <1>1, <1>2, <1>3, <1>4, <1>5, <1>6, <1>7 DEF Next, WorkerStep, SenderStep

-----------------------------------------------------------------------------
(* The theorems *)

LEMMA Invariance == Spec => []EmailInv
<1>1. Init => EmailInv
  BY EmailAssumption
     DEF Init, EmailInv, TypeOK, BudgetInv, SenderInv, ContextInv, WorkerInv,
         Attempts, Talking
<1>2. EmailInv /\ [Next]_vars => EmailInv'
  BY TypingStep, SenderInvStep, ContextInvStep, WorkerInvStep DEF EmailInv
<1> QED
  BY <1>1, <1>2, PTL DEF Spec

\* The row says completed only when the server has accepted the mail of the
\* last attempt, for any number of attempts and whatever is late.
THEOREM CompletedMeansAccepted == Spec => []CompletedIsAccepted
<1>1. EmailInv => CompletedIsAccepted
  BY DEF EmailInv, TypeOK, WorkerInv, SenderInv, CompletedIsAccepted
<1> QED
  BY <1>1, Invariance, PTL

\* Conversations of two attempts overlap after a preemption only.
THEOREM ConversationsDoNotOverlap == Spec => []NoOverlap
<1>1. EmailInv => NoOverlap
  BY DEF EmailInv, TypeOK, ContextInv, NoOverlap, MustFail, CtxDone, Talking
<1> QED
  BY <1>1, Invariance, PTL

\* A confirmed mail is sent again only after a preemption or a timeout that
\* came before Process could return.
THEOREM ConfirmedIsResentOnlyIfCut == Spec => []ResentOnlyIfCut
<1>1. EmailInv => ResentOnlyIfCut
  BY EmailAssumption
     DEF EmailInv, TypeOK, ContextInv, ResentOnlyIfCut, Attempts
<1> QED
  BY <1>1, Invariance, PTL
=============================================================================
