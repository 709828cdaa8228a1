--------------------------- MODULE EmailProcessor ---------------------------
(***************************************************************************)
(* internal/jobs/email: one job through its attempts.  Each attempt calls    *)
(* Process, which leaves the SMTP conversation to a goroutine, the sender,   *)
(* and waits for its result or for the end of the context.  A sender may     *)
(* outlive its attempt: canceling a context stops a dial, while a            *)
(* conversation goes on until the deadline set on the connection.           *)
(*                                                                         *)
(* The mail server and the network are external: they answer, refuse, fail  *)
(* or keep silent as they like, and a message that was handed over may be   *)
(* accepted after the sender has given up on the answer.                    *)
(***************************************************************************)
EXTENDS Naturals

CONSTANTS
  MaxRetries,    \* max_retries of the job
  MaxPreempts    \* bound on the preemptions of the job

ASSUME EmailAssumption ==
  /\ MaxRetries \in Nat \ {0}
  /\ MaxPreempts \in Nat

Attempts == 1..MaxRetries + MaxPreempts

VARIABLES
  payload,    \* "complete", or "missing" a required field
  status,     \* the row of the job
  retry,      \* its retry_count
  attempt,    \* the attempt the job is in, 0 before the first
  proc,       \* where the worker is in this attempt
  ctx,        \* ctx.Err() of each attempt: "live" is nil, "released" is the
              \* cancel that processJob defers
  expired,    \* attempts whose deadline has passed
  sender,     \* where the goroutine of each attempt is; "nil" and "error" are
              \* what it is about to send to the channel done
  done,       \* what is or was in the channel done of each attempt
  server      \* the message of each attempt at the mail server

vars == <<payload, status, retry, attempt, proc, ctx, expired, sender, done,
          server>>

Talking == {"talk", "reply", "quit"}

TypeOK ==
  /\ payload \in {"complete", "missing"}
  /\ status \in {"pending", "processing", "completed", "failed"}
  /\ retry \in 0..MaxRetries
  /\ attempt \in Attempts \cup {0}
  /\ proc \in {"idle", "select", "delay", "ok", "err"}
  /\ ctx \in [Attempts -> {"none", "live", "canceled", "deadline", "released"}]
  /\ expired \subseteq Attempts
  /\ sender \in [Attempts ->
                   Talking \cup {"none", "dial", "nil", "error", "ended"}]
  /\ done \in [Attempts -> {"none", "nil", "error"}]
  /\ server \in [Attempts -> {"none", "inflight", "accepted", "refused"}]

Init ==
  /\ payload \in {"complete", "missing"}
  /\ status = "pending"
  /\ retry = 0
  /\ attempt = 0
  /\ proc = "idle"
  /\ ctx = [a \in Attempts |-> "none"]
  /\ expired = {}
  /\ sender = [a \in Attempts |-> "none"]
  /\ done = [a \in Attempts |-> "none"]
  /\ server = [a \in Attempts |-> "none"]

-----------------------------------------------------------------------------
(* The worker: processJob and Process *)

\* A worker picks the job up and calls Process, which refuses a payload without
\* its fields and otherwise starts the sender.
Start ==
  /\ status = "pending"
  /\ attempt + 1 \in Attempts
  /\ attempt' = attempt + 1
  /\ status' = "processing"
  /\ ctx' = [ctx EXCEPT ![attempt'] = "live"]
  /\ IF payload = "complete"
     THEN /\ proc' = "select"
          /\ sender' = [sender EXCEPT ![attempt'] = "dial"]
     ELSE /\ proc' = "err"
          /\ UNCHANGED sender
  /\ UNCHANGED <<payload, retry, expired, done, server>>

\* Process goes on or returns.
Goes(from, to) ==
  /\ proc = from
  /\ proc' = to
  /\ UNCHANGED <<payload, status, retry, attempt, ctx, expired, sender, done,
                 server>>

\* Mutant: the error is wrapped before it is compared with nil.
SelectDoneWrapped == Goes("select", "err") /\ done[attempt] # "none"

\* case err := <-done.
SelectDone ==
  /\ Goes("select", IF done[attempt] = "nil" THEN "delay" ELSE "err")
  /\ done[attempt] # "none"

CtxDone(a) == ctx[a] \notin {"none", "live"}

\* Mutant: Process does not wait for the sender at all.
SelectCtxDoneEarly == Goes("select", "err")

\* case <-ctx.Done(); the sender is left alone.
SelectCtxDone == Goes("select", "err") /\ CtxDone(attempt)

\* The demo delay is over, or the context first.
DelayOver == Goes("delay", "ok")

DelayCtxDone == Goes("delay", "err") /\ CtxDone(attempt)

\* processJob ends the attempt and releases its context.
EndAttempt(s, n) ==
  /\ status' = s
  /\ retry' = n
  /\ proc' = "idle"
  /\ ctx' = [ctx EXCEPT ![attempt] = IF @ = "live" THEN "released" ELSE @]
  /\ UNCHANGED <<payload, attempt, expired, sender, done, server>>

Ack == proc = "ok" /\ EndAttempt("completed", retry)

\* Mutant: any end of the context counts as a preemption.
RequeueIfDone ==
  /\ proc = "err"
  /\ CtxDone(attempt)
  /\ EndAttempt("pending", retry)

RequeuePreempted ==
  /\ proc = "err"
  /\ ctx[attempt] = "canceled"
  /\ EndAttempt("pending", retry)

Nack ==
  /\ proc = "err"
  /\ ctx[attempt] # "canceled"
  /\ EndAttempt(IF retry + 1 >= MaxRetries THEN "failed" ELSE "pending",
                retry + 1)

\* Pool.Preempt cancels the job while it is registered.
Preempt ==
  /\ proc # "idle"
  /\ ctx[attempt] = "live"
  /\ attempt - retry <= MaxPreempts
  /\ ctx' = [ctx EXCEPT ![attempt] = "canceled"]
  /\ UNCHANGED <<payload, status, retry, attempt, proc, expired, sender, done,
                 server>>

\* The deadline of attempt a passes, those of earlier attempts before it.
Expire(a) ==
  /\ ctx[a] # "none"
  /\ a \notin expired
  /\ 1..a - 1 \subseteq expired
  /\ expired' = expired \cup {a}
  /\ ctx' = [ctx EXCEPT ![a] = IF @ = "live" THEN "deadline" ELSE @]
  /\ UNCHANGED <<payload, status, retry, attempt, proc, sender, done, server>>

-----------------------------------------------------------------------------
(* The sender: sendWithTimeout and the send to the channel done *)

Sends(a, from, to) ==
  /\ sender[a] = from
  /\ sender' = [sender EXCEPT ![a] = to]
  /\ UNCHANGED <<payload, status, retry, attempt, proc, ctx, expired, done>>

\* DialContext succeeds only under a live context, the deadline is set.
Dial(a) ==
  /\ ~CtxDone(a)
  /\ Sends(a, "dial", "talk")
  /\ UNCHANGED server

\* Greeting, STARTTLS, AUTH, MAIL, RCPT and DATA went well and the message is
\* written; its final dot is on the way.
HandOver(a) ==
  /\ a \notin expired
  /\ Sends(a, "talk", "reply")
  /\ server' = [server EXCEPT ![a] = "inflight"]

\* Mutant: the answer to the message is not waited for.
CloseUnanswered(a) ==
  /\ a \notin expired
  /\ Sends(a, "reply", "quit")
  /\ UNCHANGED server

\* wc.Close reads the server's answer.
CloseData(a) ==
  /\ a \notin expired
  /\ server[a] = "accepted"
  /\ Sends(a, "reply", "quit")
  /\ UNCHANGED server

Quit(a) ==
  /\ a \notin expired
  /\ Sends(a, "quit", "nil")
  /\ UNCHANGED server

\* The dial or a command fails: refused, connection lost, no answer in time.
\* An error of Quit is one of Process as well.
Fails(a) ==
  /\ \E s \in Talking \cup {"dial"} : Sends(a, s, "error")
  /\ UNCHANGED server

\* What can no longer succeed: a dial whose context is done, a read or write
\* after the deadline of the connection.
MustFail(a) ==
  \/ sender[a] = "dial" /\ CtxDone(a)
  \/ sender[a] \in Talking /\ a \in expired

TimesOut(a) == MustFail(a) /\ Fails(a)

\* The goroutine's last step.
Delivers(a) ==
  /\ sender[a] \in {"nil", "error"}
  /\ sender' = [sender EXCEPT ![a] = "ended"]
  /\ done' = [done EXCEPT ![a] = sender[a]]
  /\ UNCHANGED <<payload, status, retry, attempt, proc, ctx, expired, server>>

\* Mutant: the channel has no buffer.
DeliverUnbuffered(a) == attempt = a /\ proc = "select" /\ Delivers(a)

\* The channel has room for the one result, whether or not Process still waits.
Deliver(a) == Delivers(a)

\* The mail server decides about a message it was sent, in its own time.
Decide(a, answer) ==
  /\ server[a] = "inflight"
  /\ answer \in {"accepted", "refused"}
  /\ server' = [server EXCEPT ![a] = answer]
  /\ UNCHANGED <<payload, status, retry, attempt, proc, ctx, expired, sender,
                 done>>

-----------------------------------------------------------------------------
WorkerStep ==
  \/ Start \/ SelectDone \/ SelectCtxDone \/ DelayOver \/ DelayCtxDone
  \/ Ack \/ RequeuePreempted \/ Nack

Next ==
  \/ WorkerStep
  \/ Preempt
  \/ \E a \in Attempts :
       \/ Expire(a)
       \/ Dial(a) \/ HandOver(a) \/ CloseData(a) \/ Quit(a) \/ Fails(a)
       \/ Deliver(a)
       \/ \E answer \in {"accepted", "refused"} : Decide(a, answer)

Spec == Init /\ [][Next]_vars

\* Goroutines run, time passes, and an operation that can no longer succeed
\* returns its error.  Neither network nor mail server has to do anything.
Fairness ==
  /\ WF_vars(WorkerStep)
  /\ \A a \in Attempts :
       WF_vars(Expire(a)) /\ WF_vars(TimesOut(a)) /\ WF_vars(Deliver(a))

FairSpec == Spec /\ Fairness

-----------------------------------------------------------------------------
(* Properties *)

\* A job is completed only when the server has accepted the mail of its last
\* attempt, however late results, deadlines and preemptions come.
CompletedIsAccepted ==
  status = "completed" => server[attempt] = "accepted"

\* Two attempts never talk to the server at the same time, unless the earlier
\* one was preempted: the retry after a timeout or a failure finds the old
\* conversation over.
NoOverlap ==
  \A a \in Attempts :
    a < attempt /\ sender[a] \in Talking \cup {"dial"} /\ ~MustFail(a)
      => ctx[a] = "canceled"

\* A mail whose sending was confirmed is sent again only when the job was
\* preempted or timed out before Process could return.
ResentOnlyIfCut ==
  \A a \in Attempts :
    a < attempt /\ done[a] = "nil" => ctx[a] \in {"canceled", "deadline"}

\* No sender stays behind, whatever became of its attempt.
SenderEnds ==
  \A a \in Attempts : sender[a] # "none" ~> sender[a] = "ended"

\* A silent network cannot hold the job forever: it is completed or has used
\* up its attempts at last.
JobSettles == <>[](status \in {"completed", "failed"})
=============================================================================
