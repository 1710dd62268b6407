------------------------------- MODULE MCTrunk -------------------------------
(* Two ends with one-frame windows, so that queues and sockets fill up.    *)
EXTENDS Trunk

CONSTANTS a, b
=============================================================================
