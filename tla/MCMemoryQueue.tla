--------------------------- MODULE MCMemoryQueue ----------------------------
(***************************************************************************)
(* A small instance of MemoryQueue.                                        *)
(***************************************************************************)
EXTENDS MemoryQueue
=============================================================================
