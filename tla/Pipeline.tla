------------------------------ MODULE Pipeline ------------------------------
(***************************************************************************)
(* The inbound pipeline (pkg/gateway/gateway.go): IngestWith captures a    *)
(* message, process decodes it and refuses a retransmission, apply folds   *)
(* it into a record under optimistic concurrency, respond records a        *)
(* decision and answers, and the outcome is written back to the log.       *)
(*                                                                         *)
(* A record is its version, the effects folded into the stored state and   *)
(* the effects its event trail names; an effect carries the id of the      *)
(* message that caused it, as store.Event.MessageID does.                  *)
(***************************************************************************)
EXTENDS Integers, Sequences, FiniteSets

CONSTANTS
    Workers,       \* concurrent calls of IngestWith: link readers, posts, the drainer
    Wires,         \* distinct messages partners send, each with its own key
    Sells,         \* the wires that may open a booking and expect an answer
    Junk,          \* the wires no decoder reads; they have no key
    Tests,         \* the wires marked as test traffic
    Filed,         \* the wires that concern no record; they have no key either
    Bookings,      \* what a sender's locator names
    booking,       \* [Wires -> Bookings]
    None,
    MaxAttempts,   \* apply's maxAttempts
    MaxRows,       \* bound: messages captured
    MaxRecords,    \* bound: records created
    MaxLocal,      \* bound: writes by local operations
    MaxFaults      \* bound: store calls and sends that fail, and crashes

ASSUME PipelineAssumption ==
    /\ \A S \in {Sells, Junk, Tests, Filed} : S \subseteq Wires
    /\ Sells \cap (Junk \cup Tests \cup Filed) = {}
    /\ booking \in [Wires -> Bookings]
    /\ MaxAttempts \in Nat \ {0}
    /\ MaxRows \in Nat /\ MaxRecords \in Nat /\ MaxLocal \in Nat /\ MaxFaults \in Nat

Rows == 1..MaxRows
Recs == 1..MaxRecords

Applied(i)  == <<"applied", i>>      \* apply's changes for row i
Decided(i)  == <<"decided", i>>      \* respond's decision for row i
Local(n)    == <<"local", n>>        \* the n-th local write
Effects     == {"applied", "decided"} \X Rows \cup {"local"} \X (1..MaxLocal)

VARIABLES
    log,        \* the message log: a sequence of [wire, status]
    indexed,    \* rows whose dedup key has been written
    recs,       \* the records: a sequence of [booking, ver, state, events]
    answered,   \* rows whose answer was handed to a transport
    wk,         \* [Workers -> the local state of its IngestWith]
    locals, faults,
    forgot,     \* history: an outcome was never written, or a lookup failed
    crossed     \* history: wires two copies of which were in the pipeline at once

vars == <<log, indexed, recs, answered, wk, locals, faults, forgot, crossed>>

Record == [booking : Bookings, ver : Nat, state : SUBSET Effects, events : SUBSET Effects]

Outcomes == {"applied", "rejected", "dlq"}

PCs == {"idle", "process", "read", "write", "decide", "answer", "outcome"}

(* A call of IngestWith: its row, the record apply has read with the       *)
(* changes made to the copy, and the status msg will leave with.           *)
Call == [pc : PCs, row : 0..MaxRows, rec : 0..MaxRecords, copy : Record \cup {None},
         tries : 0..(MaxAttempts - 1), out : Outcomes \cup {None}]

Idle == [pc |-> "idle", row |-> 0, rec |-> 0, copy |-> None, tries |-> 0,
         out |-> None]

TypeOK ==
    /\ log \in Seq([wire : Wires, status : Outcomes \cup {"received"}]) /\ Len(log) <= MaxRows
    /\ indexed \subseteq DOMAIN log
    /\ recs \in Seq(Record) /\ Len(recs) <= MaxRecords
    /\ answered \subseteq DOMAIN log
    /\ wk \in [Workers -> Call]
    /\ locals \in 0..MaxLocal /\ faults \in 0..MaxFaults /\ forgot \in BOOLEAN
    /\ crossed \subseteq Wires

Init ==
    /\ log = <<>> /\ indexed = {} /\ recs = <<>> /\ answered = {}
    /\ wk = [w \in Workers |-> Idle]
    /\ locals = 0 /\ faults = 0 /\ forgot = FALSE /\ crossed = {}

Fault == faults < MaxFaults /\ faults' = faults + 1

---------------------------------------------------------------------------
(* IngestWith, up to the capture.  A failed AppendMessage leaves nothing   *)
(* behind and the message unacknowledged, so it is no step here.           *)
Capture(w, m) ==
    /\ wk[w].pc = "idle"
    /\ Len(log) < MaxRows
    /\ log' = Append(log, [wire |-> m, status |-> "received"])
    /\ wk' = [wk EXCEPT ![w] = [Idle EXCEPT !.pc = "process", !.row = Len(log) + 1]]
    /\ crossed' = IF \E v \in Workers : wk[v].pc # "idle" /\ log[wk[v].row].wire = m
                    THEN crossed \cup {m} ELSE crossed
    /\ UNCHANGED <<indexed, recs, answered, locals, faults, forgot>>

(* A partner sends, or sends again. *)
Deliver(w) == \E m \in Wires : Capture(w, m)

(* An operator has a dead letter reprocessed (api.go replay). *)
Replay(w) == \E i \in DOMAIN log : log[i].status = "dlq" /\ Capture(w, log[i].wire)

Wire(w) == log[wk[w].row].wire

Goto(w, pc) == wk' = [wk EXCEPT ![w].pc = pc]

(* The status IngestWith leaves on msg; the store learns it in Outcome. *)
Settle(w, status) ==
    wk' = [wk EXCEPT ![w] = [@ EXCEPT !.pc = "outcome", !.copy = None, !.out = status]]

FindByDedupKey(m) == {i \in indexed : log[i].wire = m}

(* process, for a message that is not seen before: test traffic is         *)
(* refused; what concerns no record (movements, name lists, bags, tickets, *)
(* schedules, reports) goes to a handler of its own, which files it or     *)
(* refuses it; the rest goes to apply.  Transit traffic is Router's.       *)
Dispatch(w) ==
    \/ Wire(w) \in Tests /\ Settle(w, "rejected")
    \/ Wire(w) \in Filed \ Tests /\ Settle(w, "applied")
    \/ Wire(w) \in Filed \ Tests /\ Settle(w, "rejected")
    \/ Wire(w) \notin Tests \cup Filed /\ Goto(w, "read")

(* process, up to apply: what cannot be read is a dead letter, and what    *)
(* was seen before is rejected.                                            *)
Process(w) ==
    /\ wk[w].pc = "process"
    /\ \/ Wire(w) \in Junk /\ Settle(w, "dlq")
       \/ /\ Wire(w) \notin Junk /\ FindByDedupKey(Wire(w)) # {}
          /\ Settle(w, "rejected")
       \/ /\ Wire(w) \notin Junk /\ FindByDedupKey(Wire(w)) = {}
          /\ Dispatch(w)
    /\ UNCHANGED <<log, indexed, recs, answered, locals, faults, forgot, crossed>>

(* The lookup fails, and process goes on as though nothing was found. *)
ProcessUnchecked(w) ==
    /\ wk[w].pc = "process" /\ Wire(w) \notin Junk
    /\ Fault
    /\ Dispatch(w)
    /\ forgot' = TRUE
    /\ UNCHANGED <<log, indexed, recs, answered, locals, crossed>>

---------------------------------------------------------------------------
(* apply.                                                                  *)

Held(m) == {r \in DOMAIN recs : recs[r].booking = booking[m]}

(* resolveRecord, then applyTo on the copy: a sell opens a record of its   *)
(* own; anything else needs one that carries the sender's locator.         *)
Resolve(w) ==
    /\ wk[w].pc = "read"
    /\ \/ /\ Wire(w) \in Sells
          /\ wk' = [wk EXCEPT ![w] = [@ EXCEPT !.pc = "write", !.rec = 0,
                        !.copy = [booking |-> booking[Wire(w)], ver |-> 0,
                                  state |-> {Applied(wk[w].row)}, events |-> {}]]]
       \/ /\ Wire(w) \notin Sells
          /\ \E r \in Held(Wire(w)) :
                wk' = [wk EXCEPT ![w] = [@ EXCEPT !.pc = "write", !.rec = r,
                        !.copy = [recs[r] EXCEPT !.state = @ \cup {Applied(wk[w].row)}]]]
       \/ /\ Wire(w) \notin Sells /\ Held(Wire(w)) = {}
          /\ Settle(w, "dlq")
    /\ UNCHANGED <<log, indexed, recs, answered, locals, faults, forgot, crossed>>

(* Fault to inject: the version is not looked at. *)
UpdatePNRBlind(r, copy, e) ==
    recs' = [recs EXCEPT ![r] = [copy EXCEPT !.ver = @ + 1, !.events = recs[r].events \cup {e}]]

(* UpdatePNR of the worker's copy: refused unless the version is the one   *)
(* that was read.                                                          *)
UpdatePNR(r, copy, e) ==
    /\ recs[r].ver = copy.ver
    /\ recs' = [recs EXCEPT ![r] = [copy EXCEPT !.ver = @ + 1, !.events = @ \cup {e}]]

CreatePNR(copy, e) ==
    recs' = Append(recs, [copy EXCEPT !.ver = 1, !.events = {e}])

(* The record is written; a request goes on to respond. *)
Write(w) ==
    /\ wk[w].pc = "write"
    /\ \/ /\ wk[w].rec = 0
          /\ Len(recs) < MaxRecords
          /\ CreatePNR(wk[w].copy, Applied(wk[w].row))
          /\ wk' = [wk EXCEPT ![w] = [@ EXCEPT !.pc = "decide", !.rec = Len(recs) + 1,
                        !.copy = recs'[Len(recs) + 1]]]
       \/ /\ wk[w].rec # 0
          /\ UpdatePNR(wk[w].rec, wk[w].copy, Applied(wk[w].row))
          /\ Settle(w, "applied")
    /\ UNCHANGED <<log, indexed, answered, locals, faults, forgot, crossed>>

(* Fault to inject: after the last attempt nothing is returned. *)
ConflictStuck(w) ==
    /\ wk[w].pc = "write" /\ wk[w].rec # 0
    /\ recs[wk[w].rec].ver # wk[w].copy.ver
    /\ wk[w].tries + 1 < MaxAttempts
    /\ wk' = [wk EXCEPT ![w] = [@ EXCEPT !.pc = "read", !.copy = None, !.tries = wk[w].tries + 1]]
    /\ UNCHANGED <<log, indexed, recs, answered, locals, faults, forgot, crossed>>

(* Another writer got there first: read again, up to maxAttempts times. *)
Conflict(w) ==
    /\ wk[w].pc = "write" /\ wk[w].rec # 0
    /\ recs[wk[w].rec].ver # wk[w].copy.ver
    /\ \/ /\ wk[w].tries + 1 < MaxAttempts
          /\ wk' = [wk EXCEPT ![w] = [@ EXCEPT !.pc = "read", !.copy = None, !.tries = wk[w].tries + 1]]
       \/ /\ wk[w].tries + 1 >= MaxAttempts
          /\ Settle(w, "dlq")
    /\ UNCHANGED <<log, indexed, recs, answered, locals, faults, forgot, crossed>>

---------------------------------------------------------------------------
(* respond.                                                                *)

(* The decision is written under the version apply left, and a conflict    *)
(* here is an error, not a retry.                                          *)
Decide(w) ==
    /\ wk[w].pc = "decide"
    /\ LET r == wk[w].rec
           c == [wk[w].copy EXCEPT !.state = @ \cup {Decided(wk[w].row)}]
       IN  \/ /\ UpdatePNR(r, c, Decided(wk[w].row))
              /\ Goto(w, "answer")
           \/ /\ recs[r].ver # c.ver
              /\ Settle(w, "dlq")
              /\ UNCHANGED recs
    /\ UNCHANGED <<log, indexed, answered, locals, faults, forgot, crossed>>

Answer(w) ==
    /\ wk[w].pc = "answer"
    /\ answered' = answered \cup {wk[w].row}
    /\ Settle(w, "applied")
    /\ UNCHANGED <<log, indexed, recs, locals, faults, forgot, crossed>>

(* Fault to inject: a failure is recorded as a success. *)
FailsApplied(w) ==
    /\ wk[w].pc \in {"read", "write", "decide", "answer"}
    /\ Fault
    /\ Settle(w, "applied")
    /\ UNCHANGED <<log, indexed, recs, answered, locals, forgot, crossed>>

(* A record or log call, the decision or the send fails: the message is a  *)
(* dead letter, whatever of it was already written.                        *)
Fails(w) ==
    /\ wk[w].pc \in {"read", "write", "decide", "answer"}
    /\ Fault
    /\ Settle(w, "dlq")
    /\ UNCHANGED <<log, indexed, recs, answered, locals, forgot, crossed>>

(* Fault to inject: UpdateMessage does not index the key. *)
OutcomeUnindexed(w) ==
    /\ wk[w].pc = "outcome"
    /\ log' = [log EXCEPT ![wk[w].row].status = wk[w].out]
    /\ wk' = [wk EXCEPT ![w] = Idle]
    /\ UNCHANGED <<indexed, recs, answered, locals, faults, forgot, crossed>>

(* UpdateMessage: the outcome, and with it the dedup key, reach the log. *)
Outcome(w) ==
    /\ wk[w].pc = "outcome"
    /\ log' = [log EXCEPT ![wk[w].row].status = wk[w].out]
    /\ indexed' = IF Wire(w) \in Junk \cup Filed THEN indexed ELSE indexed \cup {wk[w].row}
    /\ wk' = [wk EXCEPT ![w] = Idle]
    /\ UNCHANGED <<recs, answered, locals, faults, forgot, crossed>>

(* UpdateMessage fails, which is only logged. *)
OutcomeLost(w) ==
    /\ wk[w].pc = "outcome"
    /\ Fault
    /\ wk' = [wk EXCEPT ![w] = Idle]
    /\ forgot' = TRUE
    /\ UNCHANGED <<log, indexed, recs, answered, locals, crossed>>

---------------------------------------------------------------------------
(* A local operation (cancel, ticketing, the sweeper) commits to a record  *)
(* it read at the version it still has.                                    *)
LocalWrite ==
    /\ locals < MaxLocal
    /\ locals' = locals + 1
    /\ \E r \in DOMAIN recs :
        UpdatePNR(r, [recs[r] EXCEPT !.state = @ \cup {Local(locals + 1)}], Local(locals + 1))
    /\ UNCHANGED <<log, indexed, answered, wk, faults, forgot, crossed>>

(* The process stops; what was in the middle of the pipeline stays         *)
(* "received".                                                             *)
Crash ==
    /\ \E w \in Workers : wk[w].pc # "idle"
    /\ Fault
    /\ wk' = [w \in Workers |-> Idle]
    /\ forgot' = TRUE
    /\ UNCHANGED <<log, indexed, recs, answered, locals, crossed>>

Step(w) == \/ Process(w) \/ Resolve(w) \/ Write(w) \/ Conflict(w)
           \/ Decide(w) \/ Answer(w) \/ Outcome(w)

Next == \/ \E w \in Workers : \/ Deliver(w) \/ Replay(w) \/ Step(w)
                              \/ ProcessUnchecked(w) \/ Fails(w) \/ OutcomeLost(w)
        \/ LocalWrite \/ Crash

(* A call of IngestWith runs to its end. *)
Fairness == \A w \in Workers : WF_vars(Step(w))

Spec == Init /\ [][Next]_vars /\ Fairness

---------------------------------------------------------------------------
(* Properties.                                                             *)

(* Row i changed record r. *)
Changed(i, r) == Applied(i) \in recs[r].events

Took(i) == \E r \in DOMAIN recs : Changed(i, r)

(* No writer's change is overwritten by another that read before it: the   *)
(* stored state holds exactly what the event trail says happened           *)
(* (store UpdatePNR's version check, apply's and respond's use of it).     *)
NoLostUpdate == \A r \in DOMAIN recs : recs[r].state = recs[r].events

(* "It never records a failure as a success" (docs/architecture.md): what  *)
(* the log calls applied changed a record, unless none was concerned, and  *)
(* a request was answered too.                                             *)
StatusHonest ==
    \A i \in DOMAIN log : log[i].status = "applied" =>
        /\ log[i].wire \notin Filed => Took(i)
        /\ log[i].wire \in Sells => i \in answered

(* "Applying a sell twice books two seats" (process): copies of a message  *)
(* change records once, whatever runs beside them, unless an outcome or a  *)
(* lookup was lost or two of them were in the pipeline together.           *)
AppliedOnce ==
    ~forgot => \A i, j \in DOMAIN log :
        i # j /\ log[i].wire = log[j].wire /\ log[i].wire \notin crossed
            => ~(Took(i) /\ Took(j))

(* The same without the exception: "Record it, then decline to apply it"   *)
(* (process) of every retransmission, the ones that overtake included.     *)
BookedOnce ==
    ~forgot => \A i, j \in DOMAIN log :
        i # j /\ log[i].wire = log[j].wire => ~(Took(i) /\ Took(j))

(* A message refused as a duplicate was already processed, as the trace    *)
(* says: some copy of it changed a record.                                 *)
DuplicateMeansDone ==
    \A i \in DOMAIN log : log[i].status = "rejected" /\ log[i].wire \notin Tests \cup Filed =>
        \E j \in DOMAIN log : log[j].wire = log[i].wire /\ Took(j)

(* Nothing captured is left without an outcome while the process runs,     *)
(* however the writers collide: apply gives up after maxAttempts.          *)
EveryRowSettles ==
    \A i \in Rows :
        (i \in DOMAIN log) ~> (forgot \/ (i \in DOMAIN log /\ log[i].status # "received"))
=============================================================================
