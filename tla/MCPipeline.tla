----------------------------- MODULE MCPipeline -----------------------------
(* A sell and an amendment of one booking, and a message nobody can read.  *)
EXTENDS Pipeline

CONSTANTS sell, amend, junk, test, file, b1

MCBooking == [m \in Wires |-> b1]
=============================================================================
