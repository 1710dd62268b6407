------------------------------ MODULE MCSpool ------------------------------
(* Two messages, a spool of one or two entries and a handful of faults.    *)
EXTENDS Spool

MCIds == 1..6
=============================================================================
