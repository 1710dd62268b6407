------------------------------ MODULE Postgres ------------------------------
(***************************************************************************)
(* The book of record in the database (src/pkg/store/postgres.go): writers *)
(* whose transactions overlap, the daily partitions they ask for and a     *)
(* goroutine makes, retirement by day in several statements, and the work  *)
(* queue.                                                                  *)
(*                                                                         *)
(* The database is external: READ COMMITTED transactions that see what is  *)
(* committed, row locks held from the UPDATE to the end, and table locks   *)
(* (DROP, CREATE ... PARTITION OF) that wait for transactions in progress. *)
(* Day d of retirement is the time from 2d up to 2d + 2, so that a cutoff  *)
(* can fall inside a day.  Every write brings one event.                   *)
(***************************************************************************)
EXTENDS Integers, Sequences, SequencesExt, FiniteSets, FiniteSetsExt

CONSTANTS Ids, Writers, None,
          First,        \* the record the book starts with
          locOf,        \* record -> its locator
          Days,         \* retirement days of records
          Cutoffs,      \* times RetireBefore is called with
          MaxWrites, MaxRetires, MaxItems, MaxFaults

ASSUME PostgresAssumption ==
    /\ Days \subseteq Nat \ {0} /\ Days # {} /\ Cutoffs \subseteq Nat
    /\ First \in Ids /\ DOMAIN locOf = Ids
    /\ {MaxWrites, MaxRetires, MaxItems, MaxFaults} \subseteq Nat

\* None is nothing else: no number, no record's id, no operation, and no row.
ASSUME NoneAssumption ==
    /\ None \notin Nat /\ None \notin Ids /\ None \notin {"create", "update", "divide"}
    /\ None \notin [ver : Nat, by : Writers \cup {None}, day : Days, part : Days \cup {0}]

VARIABLES rows,    \* record -> [ver, by, day, part], None when there is none
          born,    \* records there have been
          events,  \* record -> its events in the table
          parts,   \* the daily partitions of the two tables
          cache,   \* what this process knows of partitions: have, pending, failed
          making,  \* day -> where createPartitions stands
          tx,      \* writer -> its call
          retire,  \* RetireBefore
          late,    \* history: records committed to the default partition since
                   \* RetireBefore counted it empty
          queue,   \* record -> "none", "pending", "worked"
          writes, retires, faults

vars == <<rows, born, events, parts, cache, making, tx, retire, late, queue,
          writes, retires, faults>>

Default == 0   \* the default partition

Idle == [pc |-> "idle", op |-> None, id |-> None, child |-> None, day |-> 0, exp |-> 0,
         part |-> Default]

\* The book holds one record already, in its day's partition or the default one.
Init ==
    /\ \E d \in {Min(Days)}, p \in {Min(Days), Default} :
          /\ rows = [i \in Ids |-> IF i = First THEN [ver |-> 1, by |-> None, day |-> d, part |-> p] ELSE None]
          /\ events = [i \in Ids |-> IF i = First THEN {[seq |-> 1, ver |-> 1, day |-> d, part |-> p]} ELSE {}]
          /\ parts = [t \in {"pnr", "pnr_event"} |-> {p} \ {Default}]
          /\ cache = [have |-> {p} \ {Default}, pending |-> {}, failed |-> {d} \ {p}]
    /\ born = {First}
    /\ making = [d \in Days |-> "no"]
    /\ tx = [w \in Writers |-> Idle]
    /\ retire = [pc |-> "idle", cutoff |-> 0, drop |-> {}, here |-> FALSE]
    /\ late = {} /\ queue = [i \in Ids |-> "none"]
    /\ writes = 0 /\ retires = 0 /\ faults = 0

\* The database fails a statement, or a deadline passes.
Fault == faults < MaxFaults /\ faults' = faults + 1

Live == {i \in Ids : rows[i] # None}

-----------------------------------------------------------------------------
(* A write: the partitions of its days first, then one transaction. *)

\* Ids are ULIDs: a new record has one nobody else has.
Fresh(i) == i \notin born /\ \A w \in Writers : i \notin {tx[w].id, tx[w].child}

\* CreatePNR, UpdatePNR and DividePNR; an updater has read the record.
Call(w, op, id, child, day) ==
    /\ tx[w] = Idle
    /\ writes < MaxWrites /\ writes' = writes + 1
    /\ op = "create" => Fresh(id)
    /\ op # "create" => id \in Live
    /\ op = "divide" => Fresh(child)
    /\ tx' = [tx EXCEPT ![w] =
          [pc |-> "ensure", op |-> op, id |-> id,
           child |-> IF op = "divide" THEN child ELSE None, day |-> day,
           exp |-> IF op = "create" THEN 0 ELSE rows[id].ver, part |-> Default]]
    /\ UNCHANGED <<rows, born, events, parts, cache, making, retire, late, queue, retires, faults>>

\* ensurePartitions: known, lately failed, or wait for the one attempt.
ensurePartitions(w) ==
    LET d == tx[w].day
        known == d \in cache.have \cup cache.failed
    IN  /\ tx[w].pc = "ensure"
        /\ tx' = [tx EXCEPT ![w].pc = IF known THEN "statement" ELSE "wait"]
        /\ cache' = IF known THEN cache ELSE [cache EXCEPT !.pending = @ \cup {d}]
        /\ making' = IF known \/ d \in cache.pending THEN making ELSE [making EXCEPT ![d] = "look"]
        /\ UNCHANGED <<rows, born, events, parts, retire, late, queue, writes, retires, faults>>

\* The attempt is over, or the caller's deadline is, and then Begin fails.
WaitOver(w) ==
    /\ tx[w].pc = "wait"
    /\ \/ /\ tx[w].day \notin cache.pending /\ UNCHANGED faults
          /\ tx' = [tx EXCEPT ![w].pc = "statement"]
       \/ Fault /\ tx' = [tx EXCEPT ![w] = Idle]
    /\ UNCHANGED <<rows, born, events, parts, cache, making, retire, late, queue, writes, retires>>

Locked(i) == \E w \in Writers : tx[w].pc = "commit" /\ i \in {tx[w].id, tx[w].child}

\* The row goes where its day has a partition, to the default one otherwise.
Routed(table, d) == IF d \in parts[table] THEN d ELSE Default

\* The unique index has the day in its key: an INSERT waits for another one
\* of the same locator and day.
InsertWaits(t) ==
    \E v \in Writers, i \in {t.id, t.child} \ {None}, j \in Ids :
        /\ tx[v].pc = "commit" /\ tx[v].day = t.day
        /\ j \in {tx[v].id, tx[v].child} \ {i} /\ locOf[j] = locOf[i]

\* Fault to inject: the version is no part of the predicate.
RefusedUnversioned(t) ==
    \/ t.op = "create" /\ rows[t.id] # None
    \/ t.op # "create" /\ rows[t.id] = None
    \/ t.op = "divide" /\ rows[t.child] # None

locatorHeld(i) == \E j \in Live : locOf[j] = locOf[i]

\* ErrDuplicate, ErrNotFound, ErrConflict: rolled back with nothing written.
Refused(t) ==
    \/ t.op = "create" /\ locatorHeld(t.id)
    \/ t.op # "create" /\ (rows[t.id] = None \/ rows[t.id].ver # t.exp)
    \/ t.op = "divide" /\ locatorHeld(t.child)

\* The statements up to COMMIT.  A row another transaction has changed is waited for.
Statements(w) ==
    LET t == tx[w]
    IN  /\ t.pc = "statement"
        /\ ~Locked(t.id)
        /\ t.child # None => ~Locked(t.child)
        /\ ~InsertWaits(t)
        /\ tx' = [tx EXCEPT ![w] = IF Refused(t) THEN Idle
                                   ELSE [t EXCEPT !.pc = "commit", !.part = Routed("pnr", t.day)]]
        /\ UNCHANGED <<rows, born, events, parts, cache, making, retire, late, queue, writes, retires, faults>>

\* Fault to inject: the events are counted, as the in-memory store may.
lastSeqCounted(i) == Cardinality(events[i])

lastSeq(i) == Max({e.seq : e \in events[i]} \cup {0})

\* insertEvents: the next number, in the record's day.
WithEvent(i, v, d) ==
    events[i] \cup {[seq |-> lastSeq(i) + 1, ver |-> v, day |-> d, part |-> Routed("pnr_event", d)]}

Row(v, w, t) == [ver |-> v, by |-> w, day |-> t.day, part |-> t.part]

Commit(w) ==
    LET t == tx[w]
        ids == IF t.child = None THEN <<t.id>> ELSE <<t.child, t.id>>
    IN  /\ t.pc = "commit"
        /\ rows' = [i \in Ids |-> CASE i = t.id -> Row(t.exp + 1, w, t)
                                    [] i = t.child -> Row(1, w, t)
                                    [] OTHER -> rows[i]]
        /\ events' = [i \in Ids |-> IF i \in ToSet(ids)
                                 THEN WithEvent(i, IF i = t.id THEN t.exp + 1 ELSE 1, t.day)
                                 ELSE events[i]]
        /\ born' = born \cup ToSet(ids)
        /\ late' = IF retire.pc = "truncate" /\ t.part = Default THEN late \cup ToSet(ids) ELSE late
        /\ tx' = [tx EXCEPT ![w] = Idle]
        /\ UNCHANGED <<parts, cache, making, retire, queue, writes, retires, faults>>

\* The connection fails: the transaction rolls back.
Rollback(w) ==
    /\ tx[w].pc \in {"statement", "commit"} /\ Fault
    /\ tx' = [tx EXCEPT ![w] = Idle]
    /\ UNCHANGED <<rows, born, events, parts, cache, making, retire, late, queue, writes, retires>>

-----------------------------------------------------------------------------
(* createPartitions. *)

\* DROP and CREATE wait for the transactions that have the tables open.
TablesFree == \A w \in Writers : tx[w].pc # "commit"

Occupied(d) ==
    \/ \E i \in Live : rows[i].day = d /\ rows[i].part = Default
    \/ \E i \in Ids, e \in UNION {events[j] : j \in Ids} :
          e \in events[i] /\ e.day = d /\ e.part = Default

Made(d) ==
    /\ making' = [making EXCEPT ![d] = "no"]
    /\ cache' = [have |-> cache.have \cup {d}, pending |-> cache.pending \ {d},
                 failed |-> cache.failed \ {d}]

NotMade(d) ==
    /\ making' = [making EXCEPT ![d] = "no"]
    /\ cache' = [cache EXCEPT !.pending = @ \ {d}, !.failed = @ \cup {d}]

\* Looking first: a day with rows in the default partition is not attempted.
LookAtDefault(d) ==
    /\ making[d] = "look"
    /\ \/ /\ ~Occupied(d) /\ UNCHANGED <<cache, faults>>
          /\ making' = [making EXCEPT ![d] = "make"]
       \/ NotMade(d) /\ IF Occupied(d) THEN UNCHANGED faults ELSE Fault
    /\ UNCHANGED <<rows, born, events, parts, tx, retire, late, queue, writes, retires>>

\* The catalogue refuses what has become occupied since.
MakePartition(d) ==
    /\ making[d] = "make"
    /\ \/ /\ TablesFree /\ ~Occupied(d)
          /\ parts' = [t \in DOMAIN parts |-> parts[t] \cup {d}]
          /\ Made(d) /\ UNCHANGED faults
       \/ /\ NotMade(d) /\ UNCHANGED parts
          /\ IF Occupied(d) THEN UNCHANGED faults ELSE Fault
    /\ UNCHANGED <<rows, born, events, tx, retire, late, queue, writes, retires>>

\* partitionRetry has passed.
RetryDue(d) ==
    /\ d \in cache.failed
    /\ cache' = [cache EXCEPT !.failed = @ \ {d}]
    /\ UNCHANGED <<rows, born, events, parts, making, tx, retire, late, queue, writes, retires, faults>>

-----------------------------------------------------------------------------
(* RetireBefore, in this process or another one. *)

Past(d, cutoff) == 2 * d + 2 <= cutoff

RetireBefore(cutoff, here) ==
    /\ retire.pc = "idle" /\ retires < MaxRetires /\ retires' = retires + 1
    /\ retire' = [pc |-> "drop", cutoff |-> cutoff, here |-> here,
                  drop |-> {p \in (DOMAIN parts) \X Days : p[2] \in parts[p[1]] /\ Past(p[2], cutoff)}]
    /\ UNCHANGED <<rows, born, events, parts, cache, making, tx, late, queue, writes, faults>>

RowsGone(gone) ==
    /\ rows' = [i \in Ids |-> IF i \in gone THEN None ELSE rows[i]]

DropPartition(t, d) ==
    /\ retire.pc = "drop" /\ <<t, d>> \in retire.drop
    /\ TablesFree
    /\ parts' = [parts EXCEPT ![t] = @ \ {d}]
    /\ IF t = "pnr" THEN RowsGone({i \in Live : rows[i].part = d}) /\ UNCHANGED events
       ELSE /\ events' = [i \in Ids |-> {e \in events[i] : e.part # d}]
            /\ UNCHANGED rows
    /\ cache' = IF retire.here THEN [cache EXCEPT !.have = @ \ {d}] ELSE cache
    /\ retire' = [retire EXCEPT !.drop = @ \ {<<t, d>>}]
    /\ UNCHANGED <<born, making, tx, late, queue, writes, retires, faults>>

\* Fault to inject: whole days rounded the other way.
DueInDefaultEarly(d, cutoff) == 2 * d <= cutoff

DueInDefault(d, cutoff) == 2 * d < cutoff

\* The rows of the default partition; a row being changed is waited for.
RetireRecords ==
    LET gone == {i \in Live : rows[i].part = Default /\ DueInDefault(rows[i].day, retire.cutoff)}
    IN  /\ retire.pc = "drop" /\ retire.drop = {}
        /\ \A i \in gone : ~Locked(i)
        /\ RowsGone(gone)
        /\ retire' = [retire EXCEPT !.pc = "events"]
        /\ UNCHANGED <<born, events, parts, cache, making, tx, late, queue, writes, retires, faults>>

RetireEvents ==
    /\ retire.pc = "events"
    /\ events' = [i \in Ids |-> {e \in events[i] : e.part # Default \/ ~DueInDefault(e.day, retire.cutoff)}]
    /\ retire' = [retire EXCEPT !.pc = "queue"]
    /\ UNCHANGED <<rows, born, parts, cache, making, tx, late, queue, writes, retires, faults>>

RetireQueue ==
    /\ retire.pc = "queue"
    /\ queue' = [i \in Ids |-> IF i \in Live THEN queue[i] ELSE "none"]
    /\ retire' = [retire EXCEPT !.pc = "count"]
    /\ UNCHANGED <<rows, born, events, parts, cache, making, tx, late, writes, retires, faults>>

\* A default partition that is counted empty is truncated, by a statement of
\* its own; a count that fails leaves it.
CountRecords ==
    /\ retire.pc = "count"
    /\ \/ /\ \A i \in Live : rows[i].part # Default
          /\ retire' = [retire EXCEPT !.pc = "truncate"] /\ UNCHANGED faults
       \/ /\ retire' = [retire EXCEPT !.pc = "countEvents"]
          /\ IF \A i \in Live : rows[i].part # Default THEN Fault ELSE UNCHANGED faults
    /\ late' = {}
    /\ UNCHANGED <<rows, born, events, parts, cache, making, tx, queue, writes, retires>>

TruncateRecords ==
    /\ retire.pc = "truncate" /\ TablesFree
    /\ RowsGone({i \in Live : rows[i].part = Default})
    /\ retire' = [retire EXCEPT !.pc = "countEvents"] /\ late' = {}
    /\ UNCHANGED <<born, events, parts, cache, making, tx, queue, writes, retires, faults>>

DefaultEvents == \E i \in Ids : \E e \in events[i] : e.part = Default

CountEvents ==
    /\ retire.pc = "countEvents"
    /\ \/ /\ ~DefaultEvents
          /\ retire' = [retire EXCEPT !.pc = "truncateEvents"] /\ UNCHANGED faults
       \/ /\ retire' = [retire EXCEPT !.pc = "idle"]
          /\ IF DefaultEvents THEN UNCHANGED faults ELSE Fault
    /\ UNCHANGED <<rows, born, events, parts, cache, making, tx, late, queue, writes, retires>>

TruncateEvents ==
    /\ retire.pc = "truncateEvents" /\ TablesFree
    /\ events' = [i \in Ids |-> {e \in events[i] : e.part # Default}]
    /\ retire' = [retire EXCEPT !.pc = "idle"]
    /\ UNCHANGED <<rows, born, parts, cache, making, tx, late, queue, writes, retires, faults>>

\* A statement fails; what the earlier ones did stays done.
RetireFails ==
    /\ retire.pc # "idle" /\ Fault
    /\ retire' = [retire EXCEPT !.pc = "idle", !.drop = {}]
    /\ UNCHANGED <<rows, born, events, parts, cache, making, tx, late, queue, writes, retires>>

-----------------------------------------------------------------------------
(* The work queue. *)

\* The index on pending items refuses a second one.
Enqueue(i) ==
    /\ i \in born /\ queue[i] # "pending"
    /\ Cardinality({j \in Ids \ {i} : queue[j] # "none"}) < MaxItems
    /\ queue' = [queue EXCEPT ![i] = "pending"]
    /\ UNCHANGED <<rows, born, events, parts, cache, making, tx, retire, late, writes, retires, faults>>

WorkQueueItem(i) ==
    /\ queue[i] = "pending"
    /\ queue' = [queue EXCEPT ![i] = "worked"]
    /\ UNCHANGED <<rows, born, events, parts, cache, making, tx, retire, late, writes, retires, faults>>

Step(w) == ensurePartitions(w) \/ WaitOver(w) \/ Statements(w) \/ Commit(w)

Next ==
    \/ \E w \in Writers, op \in {"create", "update", "divide"}, id, child \in Ids, d \in Days :
          Call(w, op, id, child, d)
    \/ \E w \in Writers : Step(w) \/ Rollback(w)
    \/ \E d \in Days : LookAtDefault(d) \/ MakePartition(d) \/ RetryDue(d)
    \/ \E c \in Cutoffs, here \in BOOLEAN : RetireBefore(c, here)
    \/ \E t \in {"pnr", "pnr_event"}, d \in Days : DropPartition(t, d)
    \/ RetireRecords \/ RetireEvents \/ RetireQueue \/ RetireFails
    \/ CountRecords \/ TruncateRecords \/ CountEvents \/ TruncateEvents
    \/ \E i \in Ids : Enqueue(i) \/ WorkQueueItem(i)

Spec == Init /\ [][Next]_vars

-----------------------------------------------------------------------------
(* Properties. *)

\* What is committed is a book as the in-memory store keeps it: versions,
\* divisions, queue items and removals, through overlapping transactions.
B == INSTANCE Book WITH
        ver <- [i \in Ids |-> IF rows[i] = None THEN None ELSE rows[i].ver],
        by <- [i \in Ids |-> IF rows[i] = None THEN None ELSE rows[i].by],
        queue <- [i \in Ids |-> IF rows[i] = None THEN "none" ELSE queue[i]]

BookSpec == B!Spec

\* Retirement takes no record whose day has not begun by the cutoff, though
\* records are written and moved between its statements; except that the
\* TRUNCATE of a default partition takes what was committed to it since it
\* was counted empty.
OnlyTheDue ==
    [][\A i \in Ids : rows[i] # None /\ rows'[i] = None =>
          \/ retire.pc = "drop" /\ 2 * rows[i].day < retire.cutoff
          \/ i \in late]_vars

\* The same without the exception, as RetireBefore's comment has it: it
\* "retires every record whose purge day has passed".
OnlyTheDueEver ==
    [][\A i \in Ids : rows[i] # None /\ rows'[i] = None => 2 * rows[i].day < retire.cutoff]_vars

\* Two writes of a record never number their events alike, whichever
\* partitions the events went to (the unique index has the day in its key).
EventsInOrder ==
    \A i \in Ids : \A e, f \in events[i] : e.ver < f.ver => e.seq < f.seq

\* locatorHeld: "the same locator on a different retirement day; this can".
LocatorsDistinct == \A i, j \in Live : locOf[i] = locOf[j] => i = j

\* A record keeps the events that say how it came to be as it is.
HistoryKept ==
    \A i \in Live : {e.seq : e \in events[i]} = 1..lastSeq(i)

=============================================================================
