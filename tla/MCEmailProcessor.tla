-------------------------- MODULE MCEmailProcessor --------------------------
(***************************************************************************)
(* A small instance of EmailProcessor.                                     *)
(***************************************************************************)
EXTENDS EmailProcessor
=============================================================================
