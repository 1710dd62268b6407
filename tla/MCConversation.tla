---------------------------- MODULE MCConversation ----------------------------
(* Flight f1 on a teletype carrier, f2 on an EDIFACT one; or both on one.   *)
EXTENDS Conversation

CONSTANTS f1, f2, tty, edi

mcCarrierOf    == f1 :> tty @@ f2 :> edi
mcTogether     == f1 :> tty @@ f2 :> tty
mcCapacity     == f1 :> 2 @@ f2 :> 1
mcWaitlist     == f1 :> 0 @@ f2 :> 2
mcRequests     == {[pax |-> 1, fs |-> <<f1>>], [pax |-> 2, fs |-> <<f1>>]}
mcAlternatives == f1 :> <<f2>> @@ f2 :> <<>>
=============================================================================
