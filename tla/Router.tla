-------------------------------- MODULE Router --------------------------------
(***************************************************************************)
(* The way out: SendKeyed of pkg/gateway/gateway.go logs a message and     *)
(* hands it to the Router of pkg/egress/retry.go, which tries it once,     *)
(* queues what failed, redelivers it with a backoff, gives up after        *)
(* MaxAttempts, and after a restart recovers the backlog from the log.     *)
(*                                                                         *)
(* Backoffs are abstracted: a drain finds any part of the queue due.  A    *)
(* transport takes a message or refuses it, as it likes.                   *)
(***************************************************************************)
EXTENDS Integers, FiniteSets, Sequences, SequencesExt

CONSTANTS
    Messages,      \* the outbound messages
    Urgent,        \* those whose priority line puts them in the urgent band
    Unrouted,      \* those to a partner no sender is registered for
    NoMark,        \* drain has nothing to write
    MaxAttempts,   \* Retry.MaxAttempts
    MaxStops,      \* bound: times the process ends
    MaxLogFaults   \* bound: writes to the log that fail

ASSUME RouterAssumption ==
    /\ Messages \subseteq Nat /\ IsFiniteSet(Messages) /\ NoMark \notin Messages
    /\ Urgent \subseteq Messages /\ Unrouted \subseteq Messages
    /\ MaxAttempts \in Nat \ {0} /\ MaxStops \in Nat /\ MaxLogFaults \in Nat

(* An attempt; one that SendMessage queued carries no message id, since    *)
(* Send passes "", and one from Recover does.                              *)
Attempt == [msg : Messages, known : BOOLEAN, tries : 0..MaxAttempts]

VARIABLES
    log,         \* [Messages -> the status in the message log]
    snd,         \* [Messages -> where SendKeyed is with it]
    queue,       \* Router.queue
    due,         \* the attempts drain took out, in the order it makes them
    mark,        \* what drain has yet to write to the log, or NoMark
    recover,     \* Recover: where it is, and the messages it listed and has yet to queue
    taken,       \* [Messages -> times a transport took it]
    redelivered, \* messages a drain delivered
    stops, logFaults

routerVars == <<log, snd, queue, due, mark, recover, taken, redelivered, stops, logFaults>>

Statuses == {"none", "sent", "undeliverable", "acknowledged"}

RouterTypeOK ==
    /\ log \in [Messages -> Statuses]
    /\ snd \in [Messages -> {"idle", "logged", "refused", "returned", "cut"}]
    /\ queue \in Seq(Attempt) /\ due \in Seq(Attempt)
    /\ mark \in [msg : Messages, status : Statuses] \cup {NoMark}
    /\ recover \in [pc : {"list", "queue", "done"}, todo : Seq(Messages)]
    /\ taken \in [Messages -> Nat]
    /\ redelivered \subseteq Messages
    /\ stops \in 0..MaxStops /\ logFaults \in 0..MaxLogFaults

RouterInit ==
    /\ log = [m \in Messages |-> "none"] /\ snd = [m \in Messages |-> "idle"]
    /\ queue = <<>> /\ due = <<>> /\ mark = NoMark
    /\ recover = [pc |-> "list", todo |-> <<>>]
    /\ taken = [m \in Messages |-> 0] /\ redelivered = {}
    /\ stops = 0 /\ logFaults = 0

(* A write to the log, which may fail: the failure is logged, and that is  *)
(* all.                                                                    *)
Write(m, status) ==
    \/ log' = [log EXCEPT ![m] = status] /\ UNCHANGED logFaults
    \/ logFaults < MaxLogFaults /\ logFaults' = logFaults + 1 /\ UNCHANGED log

---------------------------------------------------------------------------
(* SendKeyed.                                                              *)

(* AppendMessage, with status sent; a failure returns before any send. *)
Capture(m) ==
    /\ snd[m] = "idle"
    /\ log' = [log EXCEPT ![m] = "sent"]
    /\ snd' = [snd EXCEPT ![m] = "logged"]
    /\ UNCHANGED <<queue, due, mark, recover, taken, redelivered, stops, logFaults>>

SendTakes(m) ==
    /\ snd[m] = "logged" /\ m \notin Unrouted
    /\ taken' = [taken EXCEPT ![m] = @ + 1]
    /\ snd' = [snd EXCEPT ![m] = "returned"]
    /\ UNCHANGED <<log, queue, due, mark, recover, redelivered, stops, logFaults>>

(* Router.SendMessage queues what its sender refused; without a sender     *)
(* there is nothing to queue it for.                                       *)
SendRefuses(m) ==
    /\ snd[m] = "logged"
    /\ snd' = [snd EXCEPT ![m] = "refused"]
    /\ queue' = IF m \in Unrouted THEN queue
                ELSE Append(queue, [msg |-> m, known |-> FALSE, tries |-> 1])
    /\ UNCHANGED <<log, due, mark, recover, taken, redelivered, stops, logFaults>>

Undeliverable(m) ==
    /\ snd[m] = "refused"
    /\ Write(m, "undeliverable")
    /\ snd' = [snd EXCEPT ![m] = "returned"]
    /\ UNCHANGED <<queue, due, mark, recover, taken, redelivered, stops>>

---------------------------------------------------------------------------
(* Run and drain.                                                          *)

At(q, is) == [k \in 1..Cardinality(is) |-> q[SetToSortSeq(is, <)[k]]]

(* Urgent before the rest, and stable within a band. *)
ByClass(q) ==
    SelectSeq(q, LAMBDA a : a.msg \in Urgent) \o SelectSeq(q, LAMBDA a : a.msg \notin Urgent)

Drain(is) ==
    /\ due = <<>> /\ mark = NoMark /\ is # {}
    /\ due' = ByClass(At(queue, is))
    /\ queue' = At(queue, DOMAIN queue \ is)
    /\ UNCHANGED <<log, snd, mark, recover, taken, redelivered, stops, logFaults>>

Redeliver ==
    /\ due # <<>> /\ mark = NoMark
    /\ due' = Tail(due)
    /\ taken' = [taken EXCEPT ![Head(due).msg] = @ + 1]
    /\ redelivered' = redelivered \cup {Head(due).msg}
    /\ mark' = IF Head(due).known THEN [msg |-> Head(due).msg, status |-> "sent"] ELSE NoMark
    /\ UNCHANGED <<log, snd, queue, recover, stops, logFaults>>

(* Fault to inject: the tries of an attempt are not counted. *)
RetryUncounted ==
    /\ due # <<>> /\ mark = NoMark
    /\ due' = Tail(due) /\ queue' = Append(queue, Head(due))
    /\ UNCHANGED <<log, snd, mark, recover, taken, redelivered, stops, logFaults>>

(* Fault to inject: giving up is recorded as a delivery. *)
RetryGivesUpSent ==
    LET a == [Head(due) EXCEPT !.tries = @ + 1] IN
    /\ due # <<>> /\ mark = NoMark
    /\ due' = Tail(due)
    /\ \/ a.tries < MaxAttempts /\ queue' = Append(queue, a) /\ UNCHANGED mark
       \/ /\ a.tries >= MaxAttempts /\ UNCHANGED queue
          /\ mark' = IF a.known THEN [msg |-> a.msg, status |-> "sent"] ELSE NoMark
    /\ UNCHANGED <<log, snd, recover, taken, redelivered, stops, logFaults>>

(* The attempt fails: queued again with a longer backoff, or given up. *)
Retry ==
    LET a == [Head(due) EXCEPT !.tries = @ + 1] IN
    /\ due # <<>> /\ mark = NoMark
    /\ due' = Tail(due)
    /\ \/ /\ a.tries < MaxAttempts
          /\ queue' = Append(queue, a) /\ UNCHANGED mark
       \/ /\ a.tries >= MaxAttempts
          /\ mark' = IF a.known THEN [msg |-> a.msg, status |-> "undeliverable"] ELSE NoMark
          /\ UNCHANGED queue
    /\ UNCHANGED <<log, snd, recover, taken, redelivered, stops, logFaults>>

(* mark: read the row, set its status, write it back. *)
Mark ==
    /\ mark # NoMark
    /\ Write(mark.msg, mark.status)
    /\ mark' = NoMark
    /\ UNCHANGED <<snd, queue, due, recover, taken, redelivered, stops>>

---------------------------------------------------------------------------
(* Recover, at Start and after the listeners are up: list, then queue.     *)

RecoverList ==
    /\ recover.pc = "list"
    /\ recover' = [pc |-> "queue",
                   todo |-> SetToSortSeq({m \in Messages \ Unrouted : log[m] = "undeliverable"}, <)]
    /\ UNCHANGED <<log, snd, queue, due, mark, taken, redelivered, stops, logFaults>>

RecoverNext ==
    /\ recover.pc = "queue"
    /\ \/ /\ recover.todo = <<>>
          /\ recover' = [recover EXCEPT !.pc = "done"] /\ UNCHANGED queue
       \/ /\ recover.todo # <<>>
          /\ recover' = [recover EXCEPT !.todo = Tail(@)]
          /\ queue' = Append(queue, [msg |-> Head(recover.todo), known |-> TRUE, tries |-> 0])
    /\ UNCHANGED <<log, snd, due, mark, taken, redelivered, stops, logFaults>>

(* A partner's CONTRL for what it received (applyCONTRL). *)
Acknowledge(m) ==
    /\ taken[m] > 0 /\ log[m] # "acknowledged"
    /\ log' = [log EXCEPT ![m] = "acknowledged"]
    /\ UNCHANGED <<snd, queue, due, mark, recover, taken, redelivered, stops, logFaults>>

(* The process ends, by a crash or with its context, and starts again:     *)
(* only the log is left.                                                   *)
Stop ==
    /\ stops < MaxStops /\ stops' = stops + 1
    /\ snd' = [m \in Messages |-> IF snd[m] \in {"logged", "refused"} THEN "cut" ELSE snd[m]]
    /\ queue' = <<>> /\ due' = <<>> /\ mark' = NoMark
    /\ recover' = [pc |-> "list", todo |-> <<>>]
    /\ UNCHANGED <<log, taken, redelivered, logFaults>>

Sending(m) == SendTakes(m) \/ SendRefuses(m) \/ Undeliverable(m)

Draining == (\E is \in SUBSET DOMAIN queue : Drain(is)) \/ Redeliver \/ Retry \/ Mark

Recovering == RecoverList \/ RecoverNext

RouterNext ==
    \/ \E m \in Messages : Capture(m) \/ Sending(m) \/ Acknowledge(m)
    \/ Draining \/ Recovering \/ Stop

(* Every goroutine runs.  Nothing is owed by the transport or the partner. *)
RouterFairness ==
    /\ WF_routerVars(Draining) /\ WF_routerVars(Recovering)
    /\ \A m \in Messages : WF_routerVars(Sending(m))

RouterSpec == RouterInit /\ [][RouterNext]_routerVars /\ RouterFairness

---------------------------------------------------------------------------
(* Properties.                                                             *)

Waiting == {queue[i].msg : i \in DOMAIN queue} \cup {due[i].msg : i \in DOMAIN due}

(* "it is never silently dropped" (retry.go fail): what SendKeyed returned *)
(* an error for and no transport took is undeliverable in the log, where   *)
(* an operator and the next Recover find it.                               *)
NeverDropped ==
    logFaults = 0 => \A m \in Messages :
        snd[m] = "returned" /\ taken[m] = 0 => log[m] = "undeliverable"

(* The backlog drains: whatever the transports do, every message stops     *)
(* waiting, taken or given up (retry.go, bounded attempts).                *)
BacklogEnds == <>[](Waiting = {})

(* "undeliverable --> sent: redelivery" (docs/states.md): a message that   *)
(* drain delivered does not stay undeliverable in the log.                 *)
LedgerLearns ==
    mark = NoMark => \A m \in redelivered : log[m] # "undeliverable"

(* "every outbound message is already in the message log before a send is  *)
(* attempted, so a restart recovers the backlog" (retry.go): what the log  *)
(* holds and no transport took is waiting again once Recover is done.      *)
RestartRecovers ==
    (recover.pc = "done" /\ logFaults = 0) => \A m \in Messages \ Unrouted :
        snd[m] = "cut" /\ taken[m] = 0 => m \in Waiting \/ log[m] = "undeliverable"

(* "Recover re-queues messages left undeliverable by a previous run"       *)
(* (retry.go): a message of this run, which waits already, is not queued   *)
(* a second time.                                                          *)
QueuedOnce ==
    \A i, j \in DOMAIN queue : queue[i].msg = queue[j].msg => i = j

(* The log keeps what the partner confirmed: acknowledged has no way back  *)
(* to sent or undeliverable (docs/states.md, outbound message).            *)
AckKept ==
    [][\A m \in Messages : log[m] = "acknowledged" => log'[m] = "acknowledged"]_routerVars
=============================================================================
