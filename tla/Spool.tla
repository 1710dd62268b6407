------------------------------- MODULE Spool -------------------------------
(***************************************************************************)
(* Accepting a message while the store may be away: the ingress handler    *)
(* writes the bytes to the spool directory and acknowledges, and one       *)
(* drainer goroutine moves spooled entries into the message log.           *)
(*                                                                         *)
(* Sources: pkg/spool/spool.go, and Handler and drainSpool of              *)
(* pkg/node/wiring.go.  The store is the durable one (Postgres); its       *)
(* outages, process crashes and I/O errors all draw on one fault budget.   *)
(*                                                                         *)
(* A crash exposes what the directory fsync did and did not cover: an      *)
(* entry whose name changed since the last fsync, renamed in or removed,   *)
(* may be found either way.                                                *)
(***************************************************************************)
EXTENDS Integers, FiniteSets

CONSTANTS
    Messages,      \* what partners have to deliver
    Dialled,       \* the ones that arrive on a link this node dialled
    Ids,           \* entry identifiers, in the order ULIDs sort
    None,          \* no entry, no message
    MaxEntries,    \* Spool.MaxEntries; zero is unbounded
    MaxFaults      \* bound: outages, crashes and I/O errors in a behaviour

ASSUME IdsAssumption ==
    Ids \subseteq Nat /\ None \notin Ids \cup Messages /\ \A S \in SUBSET Messages : None # S
ASSUME DialledAssumption == Dialled \subseteq Messages
ASSUME BoundsAssumption == MaxEntries \in Nat /\ MaxFaults \in Nat

VARIABLES
    partner,    \* [Messages -> what the sender knows of its message]
    hpc,        \* [Messages -> where the handler goroutine of a message is]
    ent,        \* [Messages -> the entry its Put is writing, or None]
    tmp,        \* entries in the spool's tmp directory
    pending,    \* entries in the spool's pending directory
    synced,     \* the pending directory as of its last fsync
    count,      \* Spool.count
    dpc,        \* where the drainer is
    todo,       \* entries of the current List not visited yet
    cur,        \* the entry the drainer is working on
    progress,   \* drainSpool's progress flag
    log,        \* messages captured in the store
    storeUp, up, faults,
    before,     \* history: accepted messages when a message was first offered
    skipped,    \* history: messages with an entry unreadable once, or out of order
    early       \* history: messages captured ahead of one of their `before`

diskVars == <<tmp, pending, synced>>
drainVars == <<dpc, todo, cur, progress>>
envVars == <<storeUp, up, faults>>
history == <<before, skipped, early>>
vars == <<partner, hpc, ent, diskVars, count, drainVars, log, envVars, history>>

Entry == [id : Ids, msg : Messages]

(* What the senders on this node's listeners may forget.  *)
Accepted == {m \in Messages \ Dialled : partner[m] = "acked"}

(* The goroutines of Put that hold Spool.mu. *)
Writing == {"tmp", "renamed", "synced"}
Locked == \E m \in Messages : hpc[m] \in Writing

TypeOK ==
    /\ partner \in [Messages -> {"unsent", "sent", "acked"}]
    /\ hpc \in [Messages -> {"idle", "lock", "tmp", "renamed", "synced", "reply"}]
    /\ ent \in [Messages -> Entry \cup {None}]
    /\ tmp \in SUBSET Entry /\ pending \in SUBSET Entry /\ synced \in SUBSET Entry
    /\ count \in Nat
    /\ dpc \in {"list", "next", "ingest", "done", "count", "sleep"}
    /\ todo \in SUBSET Entry
    /\ cur \in Entry \cup {None}
    /\ progress \in BOOLEAN
    /\ log \in SUBSET Messages
    /\ storeUp \in BOOLEAN /\ up \in BOOLEAN
    /\ faults \in 0..MaxFaults
    /\ before \in [Messages -> (SUBSET Messages) \cup {None}]
    /\ skipped \in SUBSET Messages
    /\ early \in SUBSET Messages

Init ==
    /\ partner = [m \in Messages |-> "unsent"]
    /\ hpc = [m \in Messages |-> "idle"]
    /\ ent = [m \in Messages |-> None]
    /\ tmp = {} /\ pending = {} /\ synced = {}
    /\ count = 0
    /\ dpc = "list" /\ todo = {} /\ cur = None /\ progress = FALSE
    /\ log = {}
    /\ storeUp = TRUE /\ up = TRUE /\ faults = 0
    /\ before = [m \in Messages |-> None]
    /\ skipped = {} /\ early = {}

Fault == faults < MaxFaults /\ faults' = faults + 1

---------------------------------------------------------------------------
(* The ingress handler and Spool.Put.                                      *)

InUse == {e.id : e \in tmp \cup pending \cup synced \cup todo \cup ({cur} \ {None})}

Above(S) == {i \in Ids : \A j \in S : j < i}

(* A message arrives, for the first time or again. *)
Offer(m) ==
    /\ up /\ partner[m] = "unsent" /\ hpc[m] = "idle"
    /\ partner' = [partner EXCEPT ![m] = "sent"]
    /\ hpc' = [hpc EXCEPT ![m] = "lock"]
    /\ before' = [before EXCEPT ![m] = IF @ = None THEN Accepted ELSE @]
    /\ UNCHANGED <<ent, diskVars, count, drainVars, log, envVars, skipped, early>>

(* The handler returned an error.  A listener closes the link, so that the *)
(* sender keeps its message (ingress/tcp.go serve); a dialled link logs it *)
(* and reads on, and the sender goes by having delivered (transport/link.go *)
(* serve).                                                                 *)
Refuse(m) ==
    /\ hpc' = [hpc EXCEPT ![m] = "idle"]
    /\ partner' = [partner EXCEPT ![m] = IF m \in Dialled THEN "acked" ELSE "unsent"]
    /\ ent' = [ent EXCEPT ![m] = None]

Full == MaxEntries > 0 /\ count >= MaxEntries

PutFull(m) ==
    /\ up /\ hpc[m] = "lock" /\ ~Locked
    /\ Full
    /\ Refuse(m)
    /\ UNCHANGED <<diskVars, count, drainVars, log, envVars, history>>

(* The handler minted the id just before it asked for the lock.  Of the    *)
(* handlers that wait together, the one that goes first is the older here: *)
(* no property tells apart the ids of messages offered at the same time.   *)
PutTmp(m) ==
    /\ up /\ hpc[m] = "lock" /\ ~Locked
    /\ ~Full
    /\ hpc' = [hpc EXCEPT ![m] = "tmp"]
    /\ \E i \in Above(InUse) :
        /\ \A j \in Above(InUse) : i <= j
        /\ ent' = [ent EXCEPT ![m] = [id |-> i, msg |-> m]]
        /\ tmp' = tmp \cup {[id |-> i, msg |-> m]}
    /\ UNCHANGED <<partner, pending, synced, count, drainVars, log, envVars,
                   history>>

(* The id sorts anywhere: another goroutine that had read its clock in the *)
(* millisecond before minted in between, so that ulid.NewAt draws the      *)
(* random part again instead of incrementing it.                           *)
PutTmpRedrawn(m) ==
    /\ up /\ hpc[m] = "lock" /\ ~Locked
    /\ ~Full
    /\ Fault
    /\ hpc' = [hpc EXCEPT ![m] = "tmp"]
    /\ \E i \in Ids \ InUse :
        /\ \A j \in Above(InUse) : i <= j     \* any higher one sorts as the next does
        /\ ent' = [ent EXCEPT ![m] = [id |-> i, msg |-> m]]
        /\ tmp' = tmp \cup {[id |-> i, msg |-> m]}
    /\ skipped' = skipped \cup {m}
    /\ UNCHANGED <<partner, pending, synced, count, drainVars, log, storeUp, up,
                   before, early>>

(* The write, the file fsync, the close or the rename fails. *)
PutTmpFails(m) ==
    /\ up /\ hpc[m] = "tmp"
    /\ Fault
    /\ tmp' = tmp \ {ent[m]}
    /\ Refuse(m)
    /\ UNCHANGED <<pending, synced, count, drainVars, log, storeUp, up,
                   history>>

PutRename(m) ==
    /\ up /\ hpc[m] = "tmp"
    /\ hpc' = [hpc EXCEPT ![m] = "renamed"]
    /\ tmp' = tmp \ {ent[m]}
    /\ pending' = pending \cup {ent[m]}
    /\ UNCHANGED <<partner, ent, synced, count, drainVars, log, envVars, history>>

(* Fault to inject: the entry is acknowledged without the directory fsync. *)
PutSyncSkipped(m) ==
    /\ up /\ hpc[m] = "renamed"
    /\ hpc' = [hpc EXCEPT ![m] = "synced"]
    /\ UNCHANGED <<partner, ent, diskVars, count, drainVars, log, envVars, history>>

(* syncDir, on a filesystem that syncs directories: on one that answers    *)
(* that it does not (os.ErrInvalid), Put goes on with nothing synced.      *)
PutSync(m) ==
    /\ up /\ hpc[m] = "renamed"
    /\ hpc' = [hpc EXCEPT ![m] = "synced"]
    /\ synced' = pending
    /\ UNCHANGED <<partner, ent, tmp, pending, count, drainVars, log, envVars,
                   history>>

(* The directory fsync fails: Put returns an error and leaves the entry in *)
(* the directory, uncounted.                                               *)
PutSyncFails(m) ==
    /\ up /\ hpc[m] = "renamed"
    /\ Fault
    /\ Refuse(m)
    /\ UNCHANGED <<diskVars, count, drainVars, log, storeUp, up, history>>

PutCount(m) ==
    /\ up /\ hpc[m] = "synced"
    /\ hpc' = [hpc EXCEPT ![m] = "reply"]
    /\ count' = count + 1
    /\ UNCHANGED <<partner, ent, diskVars, drainVars, log, envVars, history>>

Ack(m) ==
    /\ up /\ hpc[m] = "reply"
    /\ hpc' = [hpc EXCEPT ![m] = "idle"]
    /\ partner' = [partner EXCEPT ![m] = "acked"]
    /\ ent' = [ent EXCEPT ![m] = None]
    /\ UNCHANGED <<diskVars, count, drainVars, log, envVars, history>>

(* The connection dies under the answer; the partner will send again. *)
AckLost(m) ==
    /\ up /\ hpc[m] = "reply"
    /\ Fault
    /\ hpc' = [hpc EXCEPT ![m] = "idle"]
    /\ partner' = [partner EXCEPT ![m] = "unsent"]
    /\ ent' = [ent EXCEPT ![m] = None]
    /\ UNCHANGED <<diskVars, count, drainVars, log, storeUp, up, history>>

---------------------------------------------------------------------------
(* drainSpool.                                                             *)

DrainList ==
    /\ up /\ dpc = "list"
    /\ todo' = pending
    /\ progress' = FALSE
    /\ dpc' = "next"
    /\ UNCHANGED <<partner, hpc, ent, diskVars, count, cur, log, envVars, history>>

(* The directory cannot be read: nothing to do until the tick. *)
DrainListFails ==
    /\ up /\ dpc = "list"
    /\ Fault
    /\ todo' = {}
    /\ progress' = FALSE
    /\ dpc' = "next"
    /\ UNCHANGED <<partner, hpc, ent, diskVars, count, cur, log, storeUp, up, history>>

Oldest(e, S) == e \in S /\ \A f \in S : e.id <= f.id

(* The next id of the list, read with Get. *)
DrainGet ==
    /\ up /\ dpc = "next"
    /\ \E e \in todo :
        /\ Oldest(e, todo)
        /\ cur' = e
        /\ todo' = todo \ {e}
    /\ dpc' = "ingest"
    /\ UNCHANGED <<partner, hpc, ent, diskVars, count, progress, log, envVars, history>>

(* Get fails: the entry is passed over until the next List. *)
DrainGetFails ==
    /\ up /\ dpc = "next"
    /\ Fault
    /\ \E e \in todo :
        /\ Oldest(e, todo)
        /\ todo' = todo \ {e}
        /\ skipped' = skipped \cup {e.msg}
    /\ UNCHANGED <<partner, hpc, ent, diskVars, count, dpc, cur, progress, log, storeUp, up,
                   before, early>>

(* IngestWith captures the message: AppendMessage succeeded.  What happens *)
(* to it after that is in the log either way.                              *)
DrainIngest ==
    /\ up /\ dpc = "ingest" /\ storeUp
    /\ log' = log \cup {cur.msg}
    /\ early' = IF before[cur.msg] \subseteq log \cup skipped \/ cur.msg \in skipped
                  THEN early ELSE early \cup {cur.msg}
    /\ dpc' = "done"
    /\ UNCHANGED <<partner, hpc, ent, diskVars, count, todo, cur, progress, envVars, before, skipped>>

(* Fault to inject: a failed capture goes on with the next entry. *)
DrainBreakGoesOn ==
    /\ up /\ dpc = "ingest" /\ ~storeUp
    /\ cur' = None
    /\ dpc' = "next"
    /\ UNCHANGED <<partner, hpc, ent, diskVars, count, todo, progress, log, envVars, history>>

(* Fault to inject: a failed capture removes the entry all the same. *)
DrainBreakRemoves ==
    /\ up /\ dpc = "ingest" /\ ~storeUp
    /\ pending' = pending \ {cur}
    /\ todo' = {}
    /\ cur' = None
    /\ dpc' = "next"
    /\ UNCHANGED <<partner, hpc, ent, tmp, synced, count, progress, log, envVars, history>>

(* The capture failed: the entry stays, and so do all those after it. *)
DrainBreak ==
    /\ up /\ dpc = "ingest" /\ ~storeUp
    /\ todo' = {}
    /\ cur' = None
    /\ dpc' = "next"
    /\ UNCHANGED <<partner, hpc, ent, diskVars, count, progress, log, envVars, history>>

(* Done removes the file without the lock, and takes it to count. *)
DrainDone ==
    /\ up /\ dpc = "done"
    /\ pending' = pending \ {cur}
    /\ dpc' = "count"
    /\ UNCHANGED <<partner, hpc, ent, tmp, synced, count, todo, cur, progress, log,
                   envVars, history>>

DrainDoneFails ==
    /\ up /\ dpc = "done"
    /\ Fault
    /\ progress' = TRUE
    /\ cur' = None
    /\ dpc' = "next"
    /\ UNCHANGED <<partner, hpc, ent, diskVars, count, todo, log, storeUp, up, history>>

DrainCount ==
    /\ up /\ dpc = "count" /\ ~Locked
    /\ count' = IF count > 0 THEN count - 1 ELSE count
    /\ progress' = TRUE
    /\ cur' = None
    /\ dpc' = "next"
    /\ UNCHANGED <<partner, hpc, ent, diskVars, todo, log, envVars, history>>

(* The list is exhausted: again at once if it moved, at the tick if not. *)
DrainAgain ==
    /\ up /\ dpc = "next" /\ todo = {}
    /\ dpc' = IF progress THEN "list" ELSE "sleep"
    /\ UNCHANGED <<partner, hpc, ent, diskVars, count, todo, cur, progress, log, envVars,
                   history>>

(* Fault to inject: no ticker, the drainer only moves while it makes progress. *)
DrainTickMissing == FALSE

DrainTick ==
    /\ up /\ dpc = "sleep"
    /\ dpc' = "list"
    /\ UNCHANGED <<partner, hpc, ent, diskVars, count, todo, cur, progress, log, envVars,
                   history>>

Drain == \/ DrainList \/ DrainGet \/ DrainIngest \/ DrainBreak \/ DrainDone
         \/ DrainCount \/ DrainAgain \/ DrainTick

---------------------------------------------------------------------------
(* The environment.                                                        *)

StoreFails ==
    /\ storeUp
    /\ Fault
    /\ storeUp' = FALSE
    /\ UNCHANGED <<partner, hpc, ent, diskVars, count, drainVars, log, up, history>>

StoreRecovers ==
    /\ ~storeUp
    /\ storeUp' = TRUE
    /\ UNCHANGED <<partner, hpc, ent, diskVars, count, drainVars, log, up, faults, history>>

(* The machine stops: goroutines and memory go, the directory is whatever  *)
(* of its unsynced changes reached the disk.                               *)
Crash ==
    /\ up
    /\ Fault
    /\ up' = FALSE
    /\ \E P \in SUBSET (pending \cup synced) :
        /\ pending \cap synced \subseteq P
        /\ pending' = P /\ synced' = P
    /\ hpc' = [m \in Messages |-> "idle"]
    /\ ent' = [m \in Messages |-> None]
    /\ partner' = [m \in Messages |-> IF partner[m] = "sent" THEN "unsent" ELSE partner[m]]
    /\ dpc' = "list" /\ todo' = {} /\ cur' = None /\ progress' = FALSE
    /\ UNCHANGED <<tmp, count, log, storeUp, history>>

(* Open: clear tmp, count what is there. *)
Open ==
    /\ ~up
    /\ up' = TRUE
    /\ tmp' = {}
    /\ count' = Cardinality(pending)
    /\ UNCHANGED <<partner, hpc, ent, pending, synced, drainVars, log, storeUp, faults,
                   history>>

---------------------------------------------------------------------------
Put(m) == \/ PutFull(m) \/ PutTmp(m) \/ PutRename(m) \/ PutSync(m) \/ PutCount(m) \/ Ack(m)

IOError == \/ \E m \in Messages : PutTmpRedrawn(m) \/ PutTmpFails(m) \/ PutSyncFails(m) \/ AckLost(m)
           \/ DrainListFails \/ DrainGetFails \/ DrainDoneFails \/ StoreFails \/ Crash

Next == \/ \E m \in Messages : Offer(m) \/ Put(m)
        \/ Drain
        \/ IOError
        \/ StoreRecovers \/ Open

(* Each handler and the drainer keep running, an unacknowledged message is *)
(* sent again, and the store and the node come back after a failure.       *)
Fairness ==
    /\ \A m \in Messages : WF_vars(Offer(m)) /\ SF_vars(Put(m))
    /\ WF_vars(Drain)
    /\ WF_vars(StoreRecovers) /\ WF_vars(Open)

Spec == Init /\ [][Next]_vars /\ Fairness

---------------------------------------------------------------------------
(* Properties.                                                             *)

(* The messages that a crash at this moment could not take from this node: *)
(* their entry is in the directory, and was when it was last synced.       *)
OnDisk == {e.msg : e \in pending \cap synced}

(* Put acknowledges only once the entry survives a crash, and the drainer  *)
(* removes it only once the log has it: no accepted message is ever lost   *)
(* (spool.go Put, drainSpool).                                             *)
AcceptedSafe == \A m \in Accepted : m \in log \/ m \in OnDisk

(* A message offered after another was acknowledged is not captured before *)
(* it: drainSpool visits entries in id order and stops at the first the    *)
(* store refuses.  An unreadable entry and a redrawn id are the exceptions. *)
InOrder == early = {}

(* Spool.MaxEntries as its comment states it: the directory never holds    *)
(* more entries than that.                                                 *)
DepthBounded == MaxEntries > 0 => Cardinality(pending) <= MaxEntries

(* A refusal reaches the sender whichever end opened the link: "the honest *)
(* answer to the partner is a refusal it will retransmit" (spool.go).      *)
RefusalReaches == \A m \in Dialled : partner[m] = "acked" => m \in log \/ m \in OnDisk

(* With partners that send again what was not acknowledged, every message  *)
(* reaches the log however the outages and crashes fall.                   *)
EveryMessageKept == \A m \in Messages \ Dialled : <>(m \in log)

(* The spool is one way of keeping the promise of an acceptance.           *)
Promise == INSTANCE Handoff WITH accepted <- Accepted, durable <- OnDisk, kept <- log

(* Acknowledging is a promise across crashes: the partner's custody passes *)
(* to the disk and then to the log, nothing drops what the log does not    *)
(* have, and what was accepted gets there (Put, drainSpool).               *)
HandoffSpec == Promise!AbsSpec
=============================================================================
