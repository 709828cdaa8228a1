---------------------------- MODULE FifoContract ----------------------------
(***************************************************************************)
(* What a channel-backed queue promises its callers, whatever goroutines   *)
(* call it: jobs are handed out once each, in the order they were          *)
(* accepted; at most Capacity accepted jobs wait at a time; and once the   *)
(* channel is shut no further job is accepted, while the waiting ones can  *)
(* still be taken.                                                         *)
(***************************************************************************)
EXTENDS Naturals, Sequences

CONSTANTS Jobs, Capacity

VARIABLES sent,   \* the jobs accepted so far, in order
          got,    \* the jobs handed out so far, in order
          open    \* FALSE once the channel is shut

vars == <<sent, got, open>>

Init ==
  /\ sent = <<>>
  /\ got = <<>>
  /\ open = TRUE

Put(j) ==
  /\ open
  /\ Len(sent) - Len(got) < Capacity
  /\ sent' = Append(sent, j)
  /\ UNCHANGED <<got, open>>

Get ==
  /\ Len(got) < Len(sent)
  /\ got' = Append(got, sent[Len(got) + 1])
  /\ UNCHANGED <<sent, open>>

Shut ==
  /\ open
  /\ open' = FALSE
  /\ UNCHANGED <<sent, got>>

Next ==
  \/ \E j \in Jobs : Put(j)
  \/ Get
  \/ Shut

Spec == Init /\ [][Next]_vars
=============================================================================
