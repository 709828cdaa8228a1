-------------------------- MODULE PriorityContract --------------------------
(***************************************************************************)
(* What the priority queue promises its callers: every accepted job is      *)
(* handed out once per acceptance, always one that no other waiting job     *)
(* goes ahead of; and after the queue is shut none is accepted, while the   *)
(* waiting ones can still be taken.                                        *)
(***************************************************************************)
EXTENDS JobOrder

VARIABLES put,    \* how often each job was accepted
          got,    \* how often it was handed out
          life    \* "open" or "closed"

vars == <<put, got, life>>

Waiting == {j \in Jobs : got[j] < put[j]}

Init ==
  /\ put = [j \in Jobs |-> 0]
  /\ got = [j \in Jobs |-> 0]
  /\ life = "open"

Put(j) ==
  /\ life = "open"
  /\ put' = [put EXCEPT ![j] = @ + 1]
  /\ UNCHANGED <<got, life>>

Get(j) ==
  /\ j \in Waiting
  /\ \A i \in Waiting : ~Ahead(i, j)
  /\ got' = [got EXCEPT ![j] = @ + 1]
  /\ UNCHANGED <<put, life>>

Shut ==
  /\ life = "open"
  /\ life' = "closed"
  /\ UNCHANGED <<put, got>>

Next ==
  \/ \E j \in Jobs : Put(j) \/ Get(j)
  \/ Shut

Spec == Init /\ [][Next]_vars
=============================================================================
