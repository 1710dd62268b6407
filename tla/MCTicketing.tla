---------------------------- MODULE MCTicketing ----------------------------
(* A booking of two segments with two carriers, and what is asked of it. *)
EXTENDS Ticketing

CONSTANTS A, B, agent, link

MCOperator == <<A, B, A>>

Control(c, d, wants) == [op |-> "control", from |-> c, doc |-> d, wants |-> wants]
Wants(n, status) == [n |-> n, status |-> status]

Issue == [op |-> "issue"]

(* The agent's calls, and those that come in over a carrier's link, with a *)
(* second agent behind it: flown, checked in, both coupons though one is   *)
(* not A's, an unpublished status, and the value coupon itself.            *)
MCRequests ==
    [w \in {agent, link} |->
       IF w = agent
       THEN {Issue, [op |-> "exchange"], [op |-> "refund"],
             [op |-> "emd", type |-> "A", pax |-> 1, seg |-> 2, status |-> "O"],
             [op |-> "emd", type |-> "S", pax |-> 1, seg |-> 1, status |-> "F"],
             [op |-> "staple", doc |-> 2, seg |-> 0],
             [op |-> "staple", doc |-> 2, seg |-> 2],
             [op |-> "add", status |-> "HN"],
             [op |-> "cancel", segs |-> {2}], Expired}
       ELSE {Issue, Control(A, 1, <<Wants(1, "F"), Wants(2, "F")>>), Control(A, 1, <<Wants(1, "F")>>),
             Control(B, 1, <<Wants(2, "C")>>), Control(A, 1, <<Wants(1, "?")>>),
             Control(A, 2, <<Wants(1, "F")>>)}]

(* What is asked for here is over booked segments, so that the theorem on  *)
(* advised carriers is about this instance too.                            *)
ASSUME MCStandaloneBooked == StandaloneBooked

(* Two passengers, the second of whom has bought a standalone document. *)
TwoRequests ==
    [w \in {agent, link} |->
       {Issue, [op |-> "emd", type |-> "S", pax |-> 2, seg |-> 1, status |-> "O"]}]
=============================================================================
