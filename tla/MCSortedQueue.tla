--------------------------- MODULE MCSortedQueue ----------------------------
(***************************************************************************)
(* A small instance of SortedQueue.                                        *)
(***************************************************************************)
EXTENDS SortedQueue

\* Two normal jobs and an urgent one that was created last.
SomePrio == <<1, 1, 2>>
=============================================================================
