-------------------------------- MODULE Book --------------------------------
(***************************************************************************)
(* What a store promises of the book of record (src/pkg/store), as the     *)
(* in-memory store keeps it under its one lock: a record is written under  *)
(* the version its writer read, a division changes both records or neither, *)
(* a record is pending on its queue once, and a record that leaves takes   *)
(* its queue items with it.  Postgres.tla is shown to implement it.        *)
(***************************************************************************)
EXTENDS Naturals

CONSTANTS Ids, Writers, None

VARIABLES ver,   \* record -> its version, None when the book has no such record
          by,    \* record -> whose write it holds
          queue  \* record -> "none", "pending" or "worked"

vars == <<ver, by, queue>>

Init ==
    /\ ver \in [Ids -> {None, 1}]
    /\ by = [i \in Ids |-> None]
    /\ queue = [i \in Ids |-> "none"]

CreatePNR(w, i) ==
    /\ ver[i] = None
    /\ ver' = [ver EXCEPT ![i] = 1]
    /\ by' = [by EXCEPT ![i] = w]
    /\ UNCHANGED queue

UpdatePNR(w, i, expected) ==
    /\ ver[i] # None /\ ver[i] = expected
    /\ ver' = [ver EXCEPT ![i] = expected + 1]
    /\ by' = [by EXCEPT ![i] = w]
    /\ UNCHANGED queue

DividePNR(w, i, expected, child) ==
    /\ ver[i] # None /\ ver[i] = expected
    /\ ver[child] = None
    /\ ver' = [ver EXCEPT ![i] = expected + 1, ![child] = 1]
    /\ by' = [by EXCEPT ![i] = w, ![child] = w]
    /\ UNCHANGED queue

Enqueue(i) ==
    /\ ver[i] # None /\ queue[i] # "pending"
    /\ queue' = [queue EXCEPT ![i] = "pending"]
    /\ UNCHANGED <<ver, by>>

WorkQueueItem(i) ==
    /\ queue[i] = "pending"
    /\ queue' = [queue EXCEPT ![i] = "worked"]
    /\ UNCHANGED <<ver, by>>

\* PruneRecords, Purge: the records leave with all that is theirs.
Leave(gone) ==
    /\ \A i \in gone : ver[i] # None
    /\ ver' = [i \in Ids |-> IF i \in gone THEN None ELSE ver[i]]
    /\ by' = [i \in Ids |-> IF i \in gone THEN None ELSE by[i]]
    /\ queue' = [i \in Ids |-> IF i \in gone THEN "none" ELSE queue[i]]

Next ==
    \/ \E i \in Ids : Enqueue(i) \/ WorkQueueItem(i)
    \/ \E w \in Writers, i \in Ids : CreatePNR(w, i)
    \/ \E w \in Writers, i \in Ids : UpdatePNR(w, i, ver[i])
    \/ \E w \in Writers, i, child \in Ids : i # child /\ DividePNR(w, i, ver[i], child)
    \/ \E gone \in SUBSET Ids : Leave(gone)

Spec == Init /\ [][Next]_vars

=============================================================================
