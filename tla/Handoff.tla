------------------------------ MODULE Handoff ------------------------------
(***************************************************************************)
(* What accepting a message promises, whatever is behind the listener: a   *)
(* partner that was told its message is accepted will find it in the       *)
(* message log, across any number of crashes.  Custody passes from the     *)
(* partner, to this node's durable storage, to the store; nothing drops a  *)
(* message the store does not have yet.                                    *)
(***************************************************************************)
CONSTANT Messages          \* what partners have to deliver

VARIABLES
    accepted,   \* messages whose sender has been told it may forget them
    durable,    \* messages this node would still have after a crash
    kept        \* messages in the store's message log

absVars == <<accepted, durable, kept>>

AbsInit ==
    /\ accepted = {}
    /\ durable = {}
    /\ kept = {}

(* The sender is told: only of what is already safe. *)
AbsAccept(m) ==
    /\ m \in durable \cup kept
    /\ accepted' = accepted \cup {m}
    /\ UNCHANGED <<durable, kept>>

(* The local copies change: any may appear, and the ones that go are of    *)
(* messages the store has.                                                 *)
AbsDisk ==
    /\ durable' \in SUBSET Messages
    /\ durable \ durable' \subseteq kept
    /\ UNCHANGED <<accepted, kept>>

AbsKeep(m) ==
    /\ kept' = kept \cup {m}
    /\ UNCHANGED <<accepted, durable>>

AbsNext ==
    \/ \E m \in Messages : AbsAccept(m) \/ AbsKeep(m)
    \/ AbsDisk

AbsSafety == AbsInit /\ [][AbsNext]_absVars

(* Accepting a message is a promise: what was accepted is eventually kept. *)
AbsSpec ==
    /\ AbsSafety
    /\ \A m \in Messages : WF_absVars(m \in accepted /\ AbsKeep(m))
=============================================================================
