----------------------------- MODULE MCSession ------------------------------
(* One peer: the node it is taken from has one connection at a time, the     *)
(* node it is handed to may have a second one while the first is still       *)
(* being served.                                                            *)
EXTENDS Session

mcNodeOf == [s \in Slots |-> IF s = 1 THEN CHOOSE n \in Nodes : n # Holder ELSE Holder]
=============================================================================
