------------------------------ MODULE JobOrder ------------------------------
(***************************************************************************)
(* The order in which waiting jobs are served: higher priority first, older *)
(* jobs first among equals.  The table lists jobs in this order and the     *)
(* priority queue keeps its slice in it.                                   *)
(*                                                                         *)
(* A job is a positive number, jobs being numbered by created_at.           *)
(***************************************************************************)
EXTENDS Naturals, Sequences

CONSTANTS
  Jobs,          \* jobs that may be submitted
  Prio           \* priority of each job: 1 normal, 2 urgent, 3 super-urgent

ASSUME OrderAssumption ==
  /\ Jobs \subseteq Nat \ {0}
  /\ Prio \in [Jobs -> 1..3]

\* ORDER BY priority DESC, created_at ASC.
Ahead(i, j) ==
  \/ Prio[i] > Prio[j]
  \/ Prio[i] = Prio[j] /\ i < j

\* Where the loop of insertLocked stops: at the first waiting job that j goes
\* ahead of, or at the end.
Place(s, j) ==
  CHOOSE p \in 1..Len(s) + 1 :
    /\ p = Len(s) + 1 \/ Ahead(j, s[p])
    /\ \A i \in 1..p - 1 : ~Ahead(j, s[i])

\* Mutant: the job goes to the end of the slice.
InsertLast(s, j) == Append(s, j)

\* insertLocked: the later jobs move up by one.
InsertSorted(s, j) ==
  LET p == Place(s, j)
  IN  [i \in 1..Len(s) + 1 |->
         IF i < p THEN s[i] ELSE IF i = p THEN j ELSE s[i - 1]]

\* No job waits behind one that it goes ahead of.
InOrder(s) == \A i, k \in DOMAIN s : i < k => ~Ahead(s[k], s[i])
=============================================================================
