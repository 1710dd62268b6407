---------------------------- MODULE Conversation ----------------------------
(***************************************************************************)
(* The conversation on a booking between a distribution system and the     *)
(* carriers that own its flights: Book and AddSegment sell, the carrier's  *)
(* inventory decides and answers, Cancel withdraws, a schedule change is   *)
(* matched to the records holding the flight and the irregular-operations  *)
(* engine rebooks them.  Both sides run this code.                         *)
(*                                                                         *)
(* Messages are delivered once and in any order: a retry overtakes what it *)
(* was queued behind, and the duplicate check (module Pipeline) takes care *)
(* of retransmissions.  A record write is one step, as optimistic          *)
(* concurrency makes it; respond's second write, which is not retried, is  *)
(* a step of its own, and so is what a caller read before it wrote.        *)
(* A locator is the number of the record at the side that issued it; the   *)
(* two sides' locators never coincide here.                                *)
(***************************************************************************)
EXTENDS Integers, Sequences, FiniteSets, SequencesExt, FiniteSetsExt

CONSTANTS
    Flights, Carriers,
    carrierOf,     \* [Flights -> Carriers]
    Edifact,       \* the carriers whose link speaks EDIFACT; the rest teletype
    capacity,      \* [Flights -> Nat]: the cabin's seats
    waitlist,      \* [Flights -> Nat]: waitlistFor
    Controlled,    \* the flights a carrier may refuse although it has the seats
    Requests,      \* what agents ask for: [pax, fs: a sequence of flights]
    alternatives,  \* [Flights -> Seq(Flights)]: Schedule.Alternatives, nearest first
    AskCarriers,   \* Engine.AskCarriers
    Agents,        \* concurrent calls of Book
    Readers,       \* a carrier's concurrent readers
    None,
    MaxSales,      \* bound: sells, by Book and AddSegment
    MaxEvents      \* bound: cancellations, broadcasts, schedule changes, failed sends, restarts

ASSUME ConversationAssumption ==
    /\ carrierOf \in [Flights -> Carriers] /\ Edifact \subseteq Carriers
    /\ capacity \in [Flights -> Nat] /\ waitlist \in [Flights -> Nat]
    /\ Controlled \subseteq Flights
    /\ \A q \in Requests : q.pax \in Nat \ {0} /\ q.fs \in Seq(Flights) /\ Len(q.fs) > 0
    /\ alternatives \in [Flights -> Seq(Flights)]
    /\ \A f \in Flights : Len(alternatives[f]) <= 5      \* Engine.MaxCandidates
    /\ MaxSales \in Nat /\ MaxEvents \in Nat

\* None is no status and no task.
ASSUME NoneAssumption == None \notin {"HK", "HL", "unable", "waitlisted"}

VARIABLES
    recs,     \* the distribution system's records: a sequence of [pax, segs, open, locs, asks, n]
    avl,      \* [Flights -> its availability belief]
    api,      \* [Agents -> a Book between its availability decisions and its writes]
    copies,   \* the carriers' records: a sequence of [c, ext, segs, ver]
    sold, waiting,   \* [Flights -> Nat]: the inventory's counts
    reader,   \* [Carriers \X Readers -> the sell it is answering]
    net,      \* messages in flight
    items,    \* the worklist: [rec, seg, code, c]
    unsent,   \* <<record, carrier>> with an undeliverable message in the log
    failed,   \* <<record, carrier>> a message about which failed at the carrier
    eng,      \* the irregular-operations engine
    worked,   \* history: what the engine reported rebooked, [rec, to]
    sales, events

vars == <<recs, avl, api, copies, sold, waiting, reader, failed, net, items, unsent, eng, worked, sales, events>>
carrier == <<copies, sold, waiting, reader, failed>>

(***************************************************************************)
(* pkg/rescode: the vocabulary, as far as these systems use it.            *)
(***************************************************************************)
Confirmed  == {"KK", "TK", "HK", "SS"}
Waitlisted == {"US", "HL"}
Refusals   == {"UC", "UN", "NO"}
NeedsReply(code) == code \in {"NN", "SS"}
awaitingDecision(st) == st = "HN" \/ NeedsReply(st)

(* The holding a reply stands for; None when nothing is held.              *)
ReplyTo(code) == CASE code \in {"KK", "TK"} -> "HK"
                   [] code = "US"           -> "HL"
                   [] code \in Refusals     -> None
                   [] OTHER                 -> code

(* pnr.segmentLive and Recompute's record status.                          *)
segmentLive(st) == st \notin {"XX"} \cup Refusals
Recompute(rec)  == [rec EXCEPT !.open = \E i \in DOMAIN rec.segs : segmentLive(rec.segs[i].st)]

Seg(f, st, seats) == [f |-> f, st |-> st, seats |-> seats]

(* The first segment with the key, 0 if none.                              *)
SegmentByKey(segs, f) ==
    LET at == {i \in DOMAIN segs : segs[i].f = f} IN IF at = {} THEN 0 ELSE Min(at)

CarriersOn(segs) == {carrierOf[segs[i].f] : i \in DOMAIN segs}
Of(segs, c) == SelectSeq(segs, LAMBDA s : carrierOf[s.f] = c)

(* queue.ForStatus: the task a status a partner changed gives somebody.    *)
ForStatus(st) == CASE st = "XX"            -> "cancelled"
                   [] st \in Waitlisted    -> "waitlisted"
                   [] st \in {"HK", "TK"}  -> "confirmed"
                   [] st \in Refusals      -> "unable"
                   [] OTHER                -> None

Item(r, i, code, c) == [rec |-> r, seg |-> i, code |-> code, c |-> c]

(* enqueueStatusChanges: the snapshot is a map by segment key, so of two   *)
(* segments with one key the later one's status is what was before.        *)
StatusItems(r, was, now) ==
    LET before(f) == LET at == {i \in DOMAIN was : was[i].f = f}
                     IN  IF at = {} THEN None ELSE was[Max(at)].st
    IN  {Item(r, i, ForStatus(now[i].st), carrierOf[now[i].f]) :
            i \in {j \in DOMAIN now : /\ now[j].st # before(now[j].f)
                                      /\ ForStatus(now[j].st) # None}}

(***************************************************************************)
(* pkg/avail: the beliefs.  A broadcast is stamped when it is received, so *)
(* Put always finds it the newer.                                          *)
(***************************************************************************)
NoBelief == [st |-> "unknown", seats |-> 0]

AvailDecide(f, seats) ==
    IF avl[f].st = "open" /\ seats <= avl[f].seats THEN "free" ELSE "ask"

Sold(belief, seats) == [belief EXCEPT !.seats = IF @ > seats THEN @ - seats ELSE 0]

(* Inventory.Availability for a class with no ladder; a count of zero is   *)
(* read as closed whatever the letter beside it.                           *)
Availability(f) ==
    IF capacity[f] > sold[f] THEN [st |-> "open", seats |-> capacity[f] - sold[f]]
                             ELSE [st |-> "closed", seats |-> 0]

(***************************************************************************)
(* Messages.  n numbers a record's messages, so that two of them are never *)
(* one; loc is the carrier's locator as far as the record knows it.        *)
(***************************************************************************)
SellMsg(r, rec, segs, c, act) ==
    [kind |-> "sell", c |-> c, r |-> r, segs |-> Of(segs, c), act |-> act, n |-> rec.n]
BuildCancel(rec, refs, c) == {rec.segs[i] : i \in {j \in refs : carrierOf[rec.segs[j].f] = c}}

CancelMsg(r, rec, refs, c) ==
    [kind |-> "cancel", c |-> c, r |-> r, loc |-> rec.locs[c], n |-> rec.n,
     off |-> BuildCancel(rec, refs, c)]

(* requestSegments: EDIFACT always asks; teletype reports a sale when      *)
(* every one of the carrier's segments was free-sold.                      *)
allFreeSold(segs) == \A i \in DOMAIN segs : segs[i].st = "HK"
Action(segs, c) == IF c \notin Edifact /\ allFreeSold(Of(segs, c)) THEN "SS" ELSE "NN"

Asked(rec, cs) == [rec EXCEPT !.asks = [c \in Carriers |-> @[c] + (IF c \in cs THEN 1 ELSE 0)],
                              !.n = @ + 1]

(* SendKeyed: a message the link refuses is undeliverable in the log.      *)
Requested(r, rec, segs, down) ==
    /\ net' = net \cup {SellMsg(r, rec, segs, c, Action(segs, c)) : c \in CarriersOn(segs) \ down}
    /\ unsent' = unsent \cup {<<r, c>> : c \in down}
    /\ events' = events + Cardinality(down)
    /\ events' <= MaxEvents

(***************************************************************************)
(* The distribution system                                                 *)
(***************************************************************************)
(* Book, up to its availability decisions.                                 *)
Decided(q) == [i \in DOMAIN q.fs |->
    Seg(q.fs[i], IF AvailDecide(q.fs[i], q.pax) = "free" THEN "HK" ELSE "HN", q.pax)]

BookDecides(a) ==
    /\ api[a] = None /\ sales < MaxSales
    /\ \E q \in Requests : api' = [api EXCEPT ![a] = [pax |-> q.pax, segs |-> Decided(q)]]
    /\ sales' = sales + 1
    /\ UNCHANGED <<recs, avl, carrier, net, items, unsent, eng, worked, events>>

(* The seats of a flight's segments at the statuses sts. *)
SeatsOn(segs, f, sts) ==
    MapThenSumSet(LAMBDA i : segs[i].seats, {i \in DOMAIN segs : segs[i].f = f /\ segs[i].st \in sts})

(* The rest of it: Avail.Sold, CreatePNR, one request per carrier.  A      *)
(* carrier that cannot be asked does not undo the booking.                 *)
AvlSold(f, segs) == Sold(avl[f], SeatsOn(segs, f, {"HK"}))

Book(a) ==
    /\ api[a] # None
    /\ LET segs == api[a].segs
           r    == Len(recs) + 1
           rec  == [pax |-> api[a].pax, segs |-> segs, open |-> TRUE,
                    locs |-> [c \in Carriers |-> 0], asks |-> [c \in Carriers |-> 0], n |-> 0]
       IN  /\ avl' = [f \in Flights |-> AvlSold(f, segs)]
           /\ recs' = Append(recs, Asked(rec, CarriersOn(segs)))
           /\ \E down \in SUBSET CarriersOn(segs) : Requested(r, rec, segs, down)
    /\ api' = [api EXCEPT ![a] = None]
    /\ UNCHANGED <<carrier, items, eng, worked, sales>>

(* AddSegment: one more leg on a record that is not cancelled, asked for   *)
(* alone.  The engine is its caller.                                       *)
MayAdd(rec, f) ==
    rec.open /\ ~\E i \in DOMAIN rec.segs : rec.segs[i].f = f /\ rec.segs[i].st # "XX"

AddSegment(r, f, seats) ==
    LET seg == Seg(f, IF AvailDecide(f, seats) = "free" THEN "HK" ELSE "HN", seats)
        rec == recs[r]
    IN  /\ recs' = [recs EXCEPT ![r] =
                       Asked(Recompute([rec EXCEPT !.segs = Append(rec.segs, seg)]), {carrierOf[f]})]
        /\ avl' = [avl EXCEPT ![f] = IF seg.st = "HK" THEN Sold(@, seats) ELSE @]
        /\ \E down \in SUBSET {carrierOf[f]} : Requested(r, rec, <<seg>>, down)

(* Cancel: the messages are built while the segments are live, the record  *)
(* is marked, the carriers are told; one that cannot be is queued.         *)
Doomed(rec, refs) == {i \in refs : rec.segs[i].st # "XX"}

hasLiveSegment(segs) == \E i \in DOMAIN segs : segs[i].st # "XX"

Cancelled(rec, refs) ==
    LET segs == [i \in DOMAIN rec.segs |-> IF i \in refs THEN [rec.segs[i] EXCEPT !.st = "XX"]
                                                        ELSE rec.segs[i]]
    IN  [rec EXCEPT !.segs = segs, !.open = @ /\ hasLiveSegment(segs), !.n = @ + 1]

Cancel(r, refs, pending, cost) ==
    LET rec    == recs[r]
        doomed == Doomed(rec, refs)
        told   == {carrierOf[rec.segs[i].f] : i \in doomed}
    IN  \E down \in SUBSET told :
        /\ recs' = [recs EXCEPT ![r] = IF doomed = {} THEN rec ELSE Cancelled(rec, doomed)]
        /\ net' = net \cup {CancelMsg(r, rec, doomed, c) : c \in told \ down}
        /\ items' = pending \cup {Item(r, 0, "cancel_not_sent", c) : c \in down}
        /\ unsent' = unsent \cup {<<r, c>> : c \in down}
        /\ events' = events + cost + Cardinality(down)
        /\ events' <= MaxEvents

(* An agent, an NDC order or the sweeper cancels some or all of a booking. *)
AgentCancels(r) ==
    /\ \E refs \in SUBSET DOMAIN recs[r].segs :
         /\ Doomed(recs[r], refs) # {}            \* ErrNothingToCancel
         /\ Cancel(r, refs, items, 1)
    /\ UNCHANGED <<avl, api, carrier, eng, worked, sales>>

(* Fault: a refusal is applied only to what is held.                       *)
applySegmentHeld(seg, code) ==
    IF ReplyTo(code) = None THEN IF seg.st = "HN" THEN seg ELSE [seg EXCEPT !.st = code]
    ELSE IF seg.st = "XX"   THEN seg
    ELSE [seg EXCEPT !.st = ReplyTo(code)]

(* Fault: the answer is applied whatever the segment's status.             *)
applySegmentAnyway(seg, code) ==
    IF ReplyTo(code) = None THEN [seg EXCEPT !.st = code] ELSE [seg EXCEPT !.st = ReplyTo(code)]

(* applySegment and handleRPI, for a reply: a refusal is written whatever  *)
(* the segment's status, XX included; a confirmation is not written on XX. *)
(* The branch for a request is AsRequested, the one for a cancellation     *)
(* Withdrawn.                                                              *)
applySegment(seg, code) ==
    IF ReplyTo(code) = None THEN [seg EXCEPT !.st = code]
    ELSE IF seg.st = "XX"   THEN seg                    \* late_confirmation_ignored
    ELSE [seg EXCEPT !.st = ReplyTo(code)]

Answered(segs, codes) ==
    [i \in DOMAIN segs |-> IF segs[i].f \in DOMAIN codes /\ i = SegmentByKey(segs, segs[i].f)
                           THEN applySegment(segs[i], codes[segs[i].f]) ELSE segs[i]]

(* Fault: only a confirmation of a segment already refused is noticed.     *)
lateMissed(segs, codes) ==
    \E f \in DOMAIN codes : segs[SegmentByKey(segs, f)].st = "UC" /\ ReplyTo(codes[f]) # None

late(segs, codes) ==
    \E f \in DOMAIN codes : segs[SegmentByKey(segs, f)].st = "XX" /\ ReplyTo(codes[f]) # None

(* apply, for a reply: applySegment and handleRPI on each segment, the     *)
(* locator learnt, the changes queued, and the cancellation sent again     *)
(* when a confirmation crossed it.                                         *)
ReceiveReply(m) ==
    /\ m.kind = "reply"
    /\ LET rec  == recs[m.ext]
           was  == rec.segs
           now  == Answered(was, m.codes)
           rec1 == Recompute([rec EXCEPT !.segs = now, !.locs[m.c] = m.loc])
           dead == {i \in DOMAIN now : carrierOf[now[i].f] = m.c /\ now[i].st = "XX"}
           changed == items \cup StatusItems(m.ext, was, now)
       IN  IF ~late(was, m.codes)
           THEN /\ recs' = [recs EXCEPT ![m.ext] = rec1]
                /\ net' = net \ {m} /\ items' = changed
                /\ UNCHANGED <<unsent, events>>
           ELSE /\ recs' = [recs EXCEPT ![m.ext] = [rec1 EXCEPT !.n = rec1.n + 1]]
                /\ \/ /\ net' = (net \ {m}) \cup {CancelMsg(m.ext, rec1, dead, m.c)}
                      /\ items' = changed \cup {Item(m.ext, 0, "late_confirmation", m.c)}
                      /\ UNCHANGED <<unsent, events>>
                   \/ /\ net' = net \ {m}
                      /\ items' = changed \cup {Item(m.ext, 0, "cancel_not_sent", m.c)}
                      /\ unsent' = unsent \cup {<<m.ext, m.c>>}
                      /\ events < MaxEvents /\ events' = events + 1
    /\ UNCHANGED <<avl, api, carrier, eng, worked, sales>>

(* applyAvailability; and a belief past the trust window is none.          *)
ReceiveAvailability(m) ==
    /\ m.kind = "avs"
    /\ avl' = [avl EXCEPT ![m.f] = [st |-> m.st, seats |-> m.seats]]
    /\ net' = net \ {m}
    /\ UNCHANGED <<recs, api, carrier, items, unsent, eng, worked, sales, events>>

Stale(f) ==
    /\ avl[f] # NoBelief /\ events < MaxEvents
    /\ avl' = [avl EXCEPT ![f] = NoBelief]
    /\ events' = events + 1
    /\ UNCHANGED <<recs, api, carrier, net, items, unsent, eng, worked, sales>>

(* applySchedule: every live holding on the flight gets a task, and a new  *)
(* time turns a confirmed one into TK.                                     *)
retime(rec, f) ==
    [rec EXCEPT !.segs = [i \in DOMAIN rec.segs |->
        IF rec.segs[i].f = f /\ rec.segs[i].st = "HK" THEN [rec.segs[i] EXCEPT !.st = "TK"]
                                                     ELSE rec.segs[i]]]

applySchedule(f, action) ==
    /\ events < MaxEvents
    /\ items' = items \cup
         UNION {{Item(r, i, action, carrierOf[f]) :
                   i \in {j \in DOMAIN recs[r].segs : recs[r].segs[j].f = f /\ recs[r].segs[j].st # "XX"}} :
                r \in DOMAIN recs}
    /\ items' # items
    /\ recs' = IF action = "schedule_tim" THEN [r \in DOMAIN recs |-> retime(recs[r], f)] ELSE recs
    /\ events' = events + 1
    /\ UNCHANGED <<avl, api, carrier, net, unsent, eng, worked, sales>>

(***************************************************************************)
(* A carrier                                                               *)
(***************************************************************************)
Idle == [k |-> 0, outs |-> None, ver |-> 0, segs |-> <<>>]
Quiet(c) == \A w \in Readers : reader[<<c, w>>] = Idle

(* resolveRecord and apply, for a sell: a message that may create never    *)
(* adopts a record under the sender's locator, so each sell is a new copy. *)
(* A segment for a flight the copy already has is the one it has.          *)
AsRequested(segs) ==
    LET once == SetToSortSeq({SegmentByKey(segs, segs[i].f) : i \in DOMAIN segs}, <)
    IN  [i \in DOMAIN once |-> [segs[once[i]] EXCEPT !.st = "HN"]]

ReceiveSell(m, w) ==
    /\ m.kind = "sell" /\ reader[<<m.c, w>>] = Idle
    /\ copies' = Append(copies, [c |-> m.c, ext |-> m.r, ver |-> 1, segs |-> AsRequested(m.segs)])
    /\ reader' = [reader EXCEPT ![<<m.c, w>>] =
                     [k |-> Len(copies) + 1, outs |-> None, ver |-> 1, segs |-> AsRequested(m.segs)]]
    /\ net' = net \ {m}
    /\ UNCHANGED <<recs, avl, api, sold, waiting, failed, items, unsent, eng, worked, sales, events>>

(* Inventory.Decide, what it may answer.  Closed classes, the class ladder *)
(* and the bid price (UC) and a date the flight does not operate on (UN)   *)
(* refuse whatever the counts say; their arithmetic is left out.           *)
Controls(f) == IF f \in Controlled THEN {"UC", "UN"} ELSE {}

Outcome(f, seats) ==
    Controls(f) \cup
    {IF sold[f] + seats <= capacity[f]         THEN "KK"
     ELSE IF waiting[f] + seats <= waitlist[f] THEN "US" ELSE "UC"}

SumSeats(f, sts) == MapThenSumSet(LAMBDA k : SeatsOn(copies[k].segs, f, sts), DOMAIN copies)

(* The decision and the count are under one lock, on the record as apply   *)
(* wrote it: a cancellation since then is not seen.                        *)
Decide(c, w) ==
    /\ reader[<<c, w>>] # Idle /\ reader[<<c, w>>].outs = None
    /\ LET segs == reader[<<c, w>>].segs
           ask  == {segs[i].f : i \in {j \in DOMAIN segs : awaitingDecision(segs[j].st)}}
           wants(f) == segs[SegmentByKey(segs, f)].seats
       IN  \E outs \in [ask -> UNION {Outcome(f, wants(f)) : f \in ask}] :
             LET granted(f, code) == IF f \in ask /\ outs[f] = code THEN wants(f) ELSE 0
             IN  /\ \A f \in ask : outs[f] \in Outcome(f, wants(f))
                 /\ reader' = [reader EXCEPT ![<<c, w>>].outs = outs]
                 /\ sold' = [f \in Flights |-> sold[f] + granted(f, "KK")]
                 /\ waiting' = [f \in Flights |-> waiting[f] + granted(f, "US")]
    /\ UNCHANGED <<recs, avl, api, copies, failed, net, items, unsent, eng, worked, sales, events>>

(* respond: the decision is written on the carrier's copy, unless the copy *)
(* changed since it was read, and then answered; what was not decided is   *)
(* answered NO.                                                            *)
Settled(segs, outs) ==
    [i \in DOMAIN segs |->
        IF segs[i].f \notin DOMAIN outs THEN segs[i]
        ELSE [segs[i] EXCEPT !.st = IF ReplyTo(outs[segs[i].f]) = None THEN outs[segs[i].f]
                                                                      ELSE ReplyTo(outs[segs[i].f])]]

BuildReply(segs, outs) ==
    [f \in {segs[i].f : i \in DOMAIN segs} |-> IF f \in DOMAIN outs THEN outs[f] ELSE "NO"]

buildReply(k, segs, outs) ==
    [kind |-> "reply", c |-> copies[k].c, loc |-> k, ext |-> copies[k].ext,
     codes |-> BuildReply(segs, outs)]

respond(c, w) ==
    /\ reader[<<c, w>>] # Idle /\ reader[<<c, w>>].outs # None
    /\ LET k    == reader[<<c, w>>].k
           outs == reader[<<c, w>>].outs
           segs == copies[k].segs
       IN  \/ /\ copies[k].ver = reader[<<c, w>>].ver
              /\ copies' = [copies EXCEPT ![k].segs = Settled(segs, outs), ![k].ver = @ + 1]
              /\ UNCHANGED failed
              /\ \/ net' = net \cup {buildReply(k, segs, outs)} /\ UNCHANGED <<unsent, events>>
                 \/ /\ events < MaxEvents /\ events' = events + 1
                    /\ unsent' = unsent \cup {<<copies[k].ext, c>>}
                    /\ UNCHANGED net
           \/ /\ copies[k].ver # reader[<<c, w>>].ver           \* ErrConflict: the message fails
              /\ failed' = failed \cup {<<copies[k].ext, c>>}
              /\ UNCHANGED <<copies, net, unsent, events>>
    /\ reader' = [reader EXCEPT ![<<c, w>>] = Idle]
    /\ UNCHANGED <<recs, avl, api, sold, waiting, items, eng, worked, sales>>

(* apply, for a cancellation: found under the carrier's own locator, else  *)
(* (teletype, which may not create) under the sender's.  EDIFACT creates a *)
(* cancelled copy; a teletype cancellation for nothing held is refused.    *)
Found(m) == IF m.loc # 0 THEN {m.loc}
            ELSE IF m.c \in Edifact THEN {}
            ELSE {k \in DOMAIN copies : copies[k].c = m.c /\ copies[k].ext = m.r}

NamedIn(f, m) == \E s \in m.off : s.f = f

(* EDIFACT brings the seats with the status, teletype the status alone.     *)
handleRPI(seg, off) ==
    [seg EXCEPT !.st = "XX", !.seats = (CHOOSE s \in off : s.f = seg.f).seats]

Withdrawn(segs, m) ==
    [i \in DOMAIN segs |->
        IF ~NamedIn(segs[i].f, m) \/ i # SegmentByKey(segs, segs[i].f) THEN segs[i]
        ELSE IF m.c \in Edifact THEN handleRPI(segs[i], m.off)
        ELSE [segs[i] EXCEPT !.st = "XX"]]

(* Fault: a waitlisted segment's seats are not given back.                 *)
ReleasedHeld(was, now, f, sts) ==
    MapThenSumSet(LAMBDA i : now[i].seats,
                  {i \in DOMAIN now : /\ now[i].f = f /\ now[i].st = "XX" /\ "HK" \in sts
                                      /\ was[i].st \in sts})

(* releaseCancelled and Inventory.Release: what a segment was holding.     *)
Released(was, now, f, sts) ==
    MapThenSumSet(LAMBDA i : now[i].seats,
                  {i \in DOMAIN now : now[i].f = f /\ now[i].st = "XX" /\ was[i].st \in sts})

Less(n, d) == IF n > d THEN n - d ELSE 0

ReceiveCancel(m, w) ==
    /\ m.kind = "cancel" /\ reader[<<m.c, w>>] = Idle
    /\ net' = net \ {m}
    /\ \/ \E k \in Found(m) :
             LET was == copies[k].segs
                 now == Withdrawn(was, m)
             IN  /\ copies' = [copies EXCEPT ![k].segs = now, ![k].ver = @ + 1]
                 /\ sold' = [f \in Flights |-> Less(sold[f], Released(was, now, f, {"HK", "TK"}))]
                 /\ waiting' = [f \in Flights |-> Less(waiting[f], Released(was, now, f, {"HL"}))]
       \/ /\ Found(m) = {} /\ m.c \in Edifact
          /\ copies' = Append(copies, [c |-> m.c, ext |-> m.r, ver |-> 1,
                                       segs |-> SetToSeq({[s EXCEPT !.st = "XX"] : s \in m.off})])
          /\ UNCHANGED <<sold, waiting>>
       \/ Found(m) = {} /\ m.c \notin Edifact /\ UNCHANGED <<copies, sold, waiting>>
    /\ UNCHANGED <<recs, avl, api, reader, failed, items, unsent, eng, worked, sales, events>>

(* A carrier restarting: what its readers held is gone, and the inventory  *)
(* is Reset and Seeded from the book of record.                            *)
Rebuild(c) ==
    /\ events < MaxEvents /\ events' = events + 1
    /\ reader' = [x \in Carriers \X Readers |-> IF x[1] = c THEN Idle ELSE reader[x]]
    /\ sold' = [f \in Flights |-> IF carrierOf[f] # c THEN sold[f] ELSE
                   SumSeats(f, {"HK", "TK"})]
    /\ waiting' = [f \in Flights |-> IF carrierOf[f] # c THEN waiting[f] ELSE SumSeats(f, {"HL"})]
    /\ failed' = failed \cup
         {<<copies[reader[<<c, w>>].k].ext, c>> : w \in {v \in Readers : reader[<<c, v>>] # Idle}}
    /\ UNCHANGED <<recs, avl, api, copies, net, items, unsent, eng, worked, sales>>

Broadcast(f) ==
    /\ events < MaxEvents /\ events' = events + 1
    /\ net' = net \cup {[kind |-> "avs", f |-> f, st |-> Availability(f).st, seats |-> Availability(f).seats]}
    /\ UNCHANGED <<recs, avl, api, carrier, items, unsent, eng, worked, sales>>

(***************************************************************************)
(* pkg/irops: the engine takes a cancelled flight's task, tries the        *)
(* alternatives on free sale and then, if it may, by asking.  What it read *)
(* of the answer and what it does about it are two steps.                  *)
(***************************************************************************)
NoTask == [pc |-> "idle", r |-> 0, dead |-> 0, at |-> 0, ask |-> FALSE, alt |-> 0, st |-> None, wl |-> {}]

Task(r, i) == Item(r, i, "schedule_cnl", carrierOf[recs[r].segs[i].f])

(* Rebook, up to its first candidate: a dead leg someone has already       *)
(* cancelled only wants its task worked.                                   *)
EngineTakes ==
    /\ eng.pc = "idle"
    /\ \E it \in {x \in items : x.code = "schedule_cnl"} :
         IF recs[it.rec].segs[it.seg].st = "XX"
         THEN items' = items \ {it} /\ UNCHANGED eng
         ELSE /\ eng' = [NoTask EXCEPT !.pc = "try", !.r = it.rec, !.dead = it.seg, !.at = 1]
              /\ UNCHANGED items
    /\ UNCHANGED <<recs, avl, api, carrier, net, unsent, worked, sales, events>>

Candidates == alternatives[recs[eng.r].segs[eng.dead].f]
Seats == recs[eng.r].segs[eng.dead].seats

(* The next candidate; then the second pass; then the task is left for a   *)
(* person.                                                                 *)
Onward(e) == IF e.at < Len(Candidates) THEN [e EXCEPT !.pc = "try", !.at = @ + 1]
             ELSE IF ~e.ask /\ AskCarriers THEN [e EXCEPT !.pc = "try", !.at = 1, !.ask = TRUE]
             ELSE NoTask

Wanted(f) == AvailDecide(f, Seats) = (IF eng.ask THEN "ask" ELSE "free")

EngineTries ==
    /\ eng.pc = "try"
    /\ IF eng.at > Len(Candidates)
       THEN eng' = NoTask /\ UNCHANGED <<recs, avl, net, unsent, sales, events>>
       ELSE LET f == Candidates[eng.at]
            IN  IF Wanted(f) /\ MayAdd(recs[eng.r], f)
                THEN /\ sales < MaxSales /\ sales' = sales + 1
                     /\ AddSegment(eng.r, f, Seats)
                     /\ eng' = [eng EXCEPT !.pc = "await", !.alt = Len(recs[eng.r].segs) + 1]
                ELSE eng' = Onward(eng) /\ UNCHANGED <<recs, avl, net, unsent, sales, events>>
    /\ UNCHANGED <<api, carrier, items, worked>>

(* awaitAnswer: the status once it is no longer a request, or the request  *)
(* when ReplyTimeout passes first.                                         *)
awaitAnswer ==
    /\ eng.pc = "await"
    /\ eng' = [eng EXCEPT !.pc = "act", !.st = recs[eng.r].segs[eng.alt].st]
    /\ UNCHANGED <<recs, avl, api, carrier, net, items, unsent, worked, sales, events>>

(* Fault: a request the carrier has not refused is as good as a seat.      *)
EngineHopes ==
    /\ eng.pc = "act" /\ eng.st \in Confirmed \cup {"HN"}
    /\ Cancel(eng.r, {eng.dead} \cup eng.wl, items \ {Task(eng.r, eng.dead)}, 0)
    /\ worked' = worked \cup {[rec |-> eng.r, to |-> eng.alt]}
    /\ eng' = NoTask
    /\ UNCHANGED <<avl, api, carrier, sales>>

EngineConfirms ==
    /\ eng.pc = "act" /\ eng.st \in Confirmed
    /\ Cancel(eng.r, {eng.dead} \cup eng.wl, items \ {Task(eng.r, eng.dead)}, 0)
    /\ worked' = worked \cup {[rec |-> eng.r, to |-> eng.alt]}
    /\ eng' = NoTask
    /\ UNCHANGED <<avl, api, carrier, sales>>

EngineWaitlisted ==
    /\ eng.pc = "act" /\ eng.st \in Waitlisted
    /\ eng' = Onward([eng EXCEPT !.wl = @ \cup {eng.alt}])
    /\ UNCHANGED <<recs, avl, api, carrier, net, items, unsent, worked, sales, events>>

EngineGivesUp ==
    /\ eng.pc = "act" /\ eng.st \notin Confirmed \cup Waitlisted
    /\ Cancel(eng.r, {eng.alt}, items, 0)
    /\ eng' = Onward(eng)
    /\ UNCHANGED <<avl, api, carrier, worked, sales>>

Init ==
    /\ recs = <<>> /\ copies = <<>>
    /\ avl = [f \in Flights |-> NoBelief]
    /\ api = [a \in Agents |-> None]
    /\ sold = [f \in Flights |-> 0] /\ waiting = [f \in Flights |-> 0]
    /\ reader = [x \in Carriers \X Readers |-> Idle]
    /\ net = {} /\ items = {} /\ unsent = {} /\ failed = {} /\ worked = {}
    /\ eng = NoTask
    /\ sales = 0 /\ events = 0

Next ==
    \/ \E a \in Agents : BookDecides(a) \/ Book(a)
    \/ \E r \in DOMAIN recs : AgentCancels(r)
    \/ \E m \in net : ReceiveReply(m) \/ ReceiveAvailability(m)
    \/ \E m \in net, w \in Readers : ReceiveSell(m, w) \/ ReceiveCancel(m, w)
    \/ \E c \in Carriers, w \in Readers : Decide(c, w) \/ respond(c, w)
    \/ \E c \in Carriers : Rebuild(c)
    \/ \E f \in Flights : Broadcast(f) \/ Stale(f)
    \/ \E f \in Flights, act \in {"schedule_cnl", "schedule_tim"} : applySchedule(f, act)
    \/ EngineTakes \/ EngineTries \/ awaitAnswer
    \/ EngineConfirms \/ EngineWaitlisted \/ EngineGivesUp

(* What the spools, the retry queue and the readers' loops keep doing:     *)
(* some message is taken or some answer finished as long as one can be.    *)
Progress ==
    \/ \E m \in net : ReceiveReply(m)
    \/ \E m \in net, w \in Readers : ReceiveSell(m, w)
    \/ \E c \in Carriers, w \in Readers : Decide(c, w) \/ respond(c, w)

Spec == Init /\ [][Next]_vars /\ WF_vars(Progress)

(***************************************************************************)
(* Properties                                                              *)
(***************************************************************************)
HeldHere(r, f)  == SeatsOn(recs[r].segs, f, Confirmed)
HeldThere(r, f) == MapThenSumSet(LAMBDA k : SeatsOn(copies[k].segs, f, {"HK", "TK"}),
                                 {k \in DOMAIN copies : copies[k].ext = r})
Settling == net # {} \/ \E c \in Carriers : ~Quiet(c)

(* Cancel's promise, with reCancelAfterLateConfirmation and                *)
(* FindPNRByExternalLocator: however a sell, its answer and a cancellation *)
(* overtake one another, once nothing is in flight the record and the      *)
(* carrier's copy agree on the seats confirmed, unless a message of theirs *)
(* could not be sent or answered, which one of the two logs shows.         *)
Agreed == ~Settling => \A r \in DOMAIN recs, f \in Flights :
    \/ <<r, carrierOf[f]>> \in unsent \cup failed
    \/ recs[r].asks[carrierOf[f]] > 1
    \/ HeldHere(r, f) = HeldThere(r, f)

(* The same for a record whose carrier was asked twice, as AddSegment      *)
(* does: Cancel says that a carrier that was not told "lands on the        *)
(* divergence queue".                                                      *)
AgreedAlways == ~Settling => \A r \in DOMAIN recs, f \in Flights :
    <<r, carrierOf[f]>> \in unsent \cup failed \/ HeldHere(r, f) = HeldThere(r, f)

(* inventory: the count and the book of record never disagree, restarts    *)
(* and cancellations included, unless a decision could not be written on   *)
(* the record, which fails its message; and no flight is ever oversold.    *)
SeatsAccounted == \A f \in Flights :
    LET c == carrierOf[f] IN
    /\ sold[f] <= capacity[f] /\ SumSeats(f, {"HK", "TK"}) <= sold[f]
    /\ Quiet(c) /\ (\A r \in DOMAIN recs : <<r, c>> \notin failed) =>
          sold[f] = SumSeats(f, {"HK", "TK"}) /\ waiting[f] = SumSeats(f, {"HL"})

(* applySegment, handleRPI: "a dead segment must not be confirmed back to  *)
(* life".  However a refusal, a confirmation and a cancellation overtake   *)
(* one another, a segment cancelled or refused is never held again, as     *)
(* long as its carrier was asked once about the record.                    *)
StaysDead == [][\A r \in DOMAIN recs : \A i \in DOMAIN recs[r].segs :
    ~segmentLive(recs[r].segs[i].st) =>
       \/ ~segmentLive(recs'[r].segs[i].st)
       \/ recs[r].asks[carrierOf[recs[r].segs[i].f]] > 1]_vars

(* The same also when AddSegment asked the carrier again: "a dead segment  *)
(* is not confirmed back to life" (docs/states.md).  A refusal overwrites  *)
(* XX, and a confirmation that was overtaken by it then finds no XX.       *)
StaysDeadAlways == [][\A r \in DOMAIN recs : \A i \in DOMAIN recs[r].segs :
    ~segmentLive(recs[r].segs[i].st) => ~segmentLive(recs'[r].segs[i].st)]_vars

(* docs/states.md of a cancelled segment: "late NO ignored -- refusals do  *)
(* not revive either".                                                     *)
RefusalIgnored == [][\A r \in DOMAIN recs : \A i \in DOMAIN recs[r].segs :
    recs[r].segs[i].st = "XX" => recs'[r].segs[i].st = "XX"]_vars

(* Engine: "dropping the dead leg on the strength of a request is how a    *)
(* passenger ends up holding nothing".  The leg a passenger was moved to   *)
(* is confirmed, or somebody cancelled it since, or the carrier's refusal  *)
(* of the free sale is on the worklist.                                    *)
MovedIsHeld == \A x \in worked :
    LET st == recs[x.rec].segs[x.to].st
    IN  \/ st \in Confirmed \cup {"XX"}
        \/ \E it \in items : it.rec = x.rec /\ it.seg = x.to /\ it.code \in {"unable", "waitlisted"}

Waits(r, i) == /\ recs[r].segs[i].st = "HN"
               /\ <<r, carrierOf[recs[r].segs[i].f]>> \notin unsent \cup failed

(* Every request for a seat is answered: the segment leaves HN, unless the *)
(* log shows a message of this record and carrier undeliverable or failed. *)
EveryRequestAnswered == []<>(\A r \in DOMAIN recs : \A i \in DOMAIN recs[r].segs : ~Waits(r, i))
=============================================================================
