---------------------------- MODULE JobLifecycle ----------------------------
(***************************************************************************)
(* What the system promises about the row of a job, whatever happens to its *)
(* copies in memory: it is submitted once, attempted until it succeeds or   *)
(* its attempts are used up, charged for failures only, and rests when it   *)
(* is over unless an operator revives it.                                  *)
(***************************************************************************)
EXTENDS Naturals

CONSTANTS Jobs, MaxRetries, ExtraRetries

VARIABLE row   \* status, retry and max of each job

Init == row = [j \in Jobs |-> [status |-> "none", retry |-> 0, max |-> 0]]

Alive(j) == row[j].status \in {"pending", "processing"}

Submit(j) ==
  /\ row[j].status = "none"
  /\ row' = [row EXCEPT ![j] = [status |-> "pending", retry |-> 0,
                                max |-> MaxRetries]]

Start(j) ==
  /\ row[j].status = "pending"
  /\ row' = [row EXCEPT ![j].status = "processing"]

\* An attempt whose start was not recorded ends like any other.
Complete(j) ==
  /\ Alive(j)
  /\ row' = [row EXCEPT ![j].status = "completed"]

Fail(j) ==
  /\ Alive(j)
  /\ row[j].retry < row[j].max
  /\ row' = [row EXCEPT
       ![j].retry = @ + 1,
       ![j].status = IF row[j].retry + 1 = row[j].max THEN "failed"
                                                      ELSE "pending"]

\* A preempted attempt is not charged.
GiveBack(j) ==
  /\ row[j].status = "processing"
  /\ row' = [row EXCEPT ![j].status = "pending"]

Revive(j) ==
  /\ row[j].status = "failed"
  /\ \E n \in {0, row[j].retry} :
       row' = [row EXCEPT ![j] = [status |-> "pending", retry |-> n,
                                  max |-> row[j].max + ExtraRetries]]

Next == \E j \in Jobs :
  Submit(j) \/ Start(j) \/ Complete(j) \/ Fail(j) \/ GiveBack(j) \/ Revive(j)

Spec == Init /\ [][Next]_row
=============================================================================
