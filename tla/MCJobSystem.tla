---------------------------- MODULE MCJobSystem -----------------------------
(***************************************************************************)
(* Small instances of JobSystem: the mix of jobs and the faults of a run.   *)
(***************************************************************************)
EXTENDS JobSystem

\* A job of the FIFO queue that can be preempted, and two super-urgent jobs,
\* of the priority and of the rate-limited queue, that may both want to.
MixedTypes == <<"fifo", "priority", "rate-limited">>
MixedPrio == <<1, 3, 3>>

\* A normal and a super-urgent job of the priority queue.
PairTypes == <<"priority", "priority">>
PairPrio == <<1, 3>>

\* A normal job of the FIFO queue, and a super-urgent one of the rate-limited
\* queue.
UrgentTypes == <<"fifo", "rate-limited">>

SingleTypes == <<"fifo">>
SinglePrio == <<1>>

\* More priority jobs than fit into the buffer and the hands of one worker.
BacklogTypes == <<"priority", "priority", "priority">>
BacklogPrio == <<1, 1, 1>>

\* Two jobs that need a token each.
LimitedTypes == <<"rate-limited", "rate-limited">>
NormalPrio == <<1, 1>>

\* A job that only the FIFO listing of Recover puts where it belongs, and one
\* that is listed for every queue.
TwoTypes == <<"fifo", "priority">>

NoFaults == [k \in FaultKinds |-> 0]
CustodyFaults == [NoFaults EXCEPT !["panic"] = 1, !["db"] = 1, !["retry"] = 1]
RecoveryFaults == [NoFaults EXCEPT !["crash"] = 1, !["panic"] = 1]
ShutdownFaults == [NoFaults EXCEPT !["stop"] = 1]
CrashFaults == [NoFaults EXCEPT !["crash"] = 1]
=============================================================================
