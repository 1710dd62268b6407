------------------------------ MODULE MCFailover ------------------------------
(* Two processes for one system; x dials in over TCP, z over MATIP, and y  *)
(* is dialled.                                                             *)
EXTENDS Failover

CONSTANTS a, b, x, y, z
=============================================================================
