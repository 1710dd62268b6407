------------------------------- MODULE MCRouter -------------------------------
(* Messages are numbered in the order of their ids, as the log lists them. *)
EXTENDS Router
=============================================================================
