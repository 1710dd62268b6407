------------------------------ MODULE Ticketing ------------------------------
(***************************************************************************)
(* The documents of one booking: tickets and EMDs issued, exchanged,       *)
(* refunded, stapled and reported flown, next to cancellations, added      *)
(* segments and the sweeper that enforces the ticketing time limit         *)
(* (pkg/gateway/{ticket,exchange,refund,emd,cancel,rebook}.go,             *)
(* pkg/queue).                                                             *)
(*                                                                         *)
(* Every operation reads the record, changes its copy, writes it back if   *)
(* the version is still the one it read, and then tells the carriers.  A   *)
(* version is kept as the set of callers whose copy no write overtook.     *)
(* A document's number is its position on the record, a segment's          *)
(* reference its position in the itinerary.                                *)
(***************************************************************************)
EXTENDS Integers, FiniteSets, Sequences, SequencesExt

CONSTANTS
    Passengers,     \* number of passengers on the record
    Operator,       \* the carrier operating each segment, booked or addable
    Booked,         \* number of segments the record starts with
    MaxCoupons,     \* coupons on one document
    MaxConjunction, \* documents in one conjunction set
    Callers,        \* goroutines: an agent's, a carrier's link
    Requests,       \* [Callers -> the calls each makes]
    Sweeper,        \* the sweeper's goroutine
    AutoCancel,     \* Sweeper.Cancel is set
    Flaky,          \* carriers whose link may refuse a message
    None,
    MaxAttempts,    \* maxAttempts of the retry loops
    MaxCalls,       \* bound: calls made
    MaxFaults       \* bound: failed store calls and crashes

Carriers == {Operator[s] : s \in DOMAIN Operator}

Statuses == {"O", "C", "F", "E", "R"}   \* open, checked in, flown, exchanged, refunded

(* A call as the API and applyTicketControl pass it on: an EMD is of type  *)
(* A or S (IsEMD) and for a passenger of the record (hasPassenger); an     *)
(* added segment is requested or held on free sale; a ticket control       *)
(* message comes from a carrier, with whatever status it likes.            *)
Request(q) ==
    \/ q.op \in {"issue", "exchange", "refund"}
    \/ q.op = "emd" /\ q.type \in {"A", "S"} /\ q.pax \in 1..Passengers
                    /\ q.seg \in 0..Len(Operator) /\ q.status \in {"O", "F"}
    \/ q.op = "staple" /\ q.doc \in Nat /\ q.seg \in 0..Len(Operator)
    \/ q.op = "cancel" /\ q.segs \subseteq DOMAIN Operator
    \/ q.op = "add" /\ q.status \in {"HN", "HK"}
    \/ q.op = "control" /\ q.doc \in Nat /\ q.from \in Carriers
                        /\ q.wants \in Seq([n : Nat, status : STRING])

ASSUME TicketingAssumption ==
    /\ Passengers \in Nat \ {0} /\ Operator \in Seq(Carriers) /\ Booked \in 1..Len(Operator)
    /\ MaxCoupons \in Nat \ {0} /\ MaxConjunction \in Nat \ {0}
    /\ Booked <= MaxCoupons * MaxConjunction
    /\ \A w \in Callers : \A q \in Requests[w] : Request(q)
    /\ Flaky \subseteq Carriers /\ Sweeper \notin Callers /\ None \notin Carriers /\ AutoCancel \in BOOLEAN
    /\ MaxAttempts \in Nat \ {0} /\ MaxCalls \in Nat /\ MaxFaults \in Nat

VARIABLES
    rec,    \* the record in the store
    wk,     \* [goroutine -> its call: where it is, its copy, what it has yet to send]
    fresh,  \* goroutines whose copy has the version in the store
    items,  \* the codes pending on a queue
    told,   \* <<document, carrier>> pairs a carrier was sent
    clock,  \* where now is to the ticketing time limit
    calls, faults

vars == <<rec, wk, fresh, items, told, clock, calls, faults>>

Final(status) == status \in {"F", "E", "R"}
Usable(status) == status \in {"O", "C"}

Codes == {<<"tktl_near", None>>, <<"tktl_expired", None>>}
            \cup {<<"unanswered", s>> : s \in DOMAIN Operator}
            \cup {<<"ticket_not_advised", c>> : c \in Carriers}
            \cup {<<"cancel_not_sent", c>> : c \in Carriers}

Workers == Callers \cup {Sweeper}
Pcs == {"idle", "read", "write", "work", "tell", "place"}

(* A stapled coupon names a flight coupon; <<0, 0>> is no association. *)
Unstapled == <<0, 0>>

Coupon == [seg : 0..Len(Operator), status : Statuses, assoc : Nat \X Nat]
Document == [type : {"T", "A", "S"}, pax : 1..Passengers, coupons : Seq(Coupon), from : Nat]
Record == [segs : Seq({"HN", "HK", "XX"}), status : {"open", "ticketed", "cancelled"},
           limit : BOOLEAN, docs : Seq(Document)]

(* What goes to a carrier: a document, a cancellation, a request for an    *)
(* added segment, or the answer to its ticket control message.             *)
Kinds == {"ticket", "cancel", "request", "answered", "refused"}

Expired == [op |-> "cancel", segs |-> {}]
Sweeps == [op : {"sweep"}, now : {"early", "near", "past"}, old : BOOLEAN]

AllRequests == UNION {Requests[w] : w \in Callers}

Idle == [pc |-> "idle", q |-> None, copy |-> None, tries |-> 0, todo |-> {}]

TypeOK ==
    /\ rec \in Record
    /\ \A w \in Workers :
          /\ wk[w].pc \in Pcs /\ wk[w].q \in AllRequests \cup {None, Expired} \cup Sweeps
          /\ wk[w].copy = None \/ wk[w].copy \in Record
          /\ wk[w].tries \in 0..(MaxAttempts - 1)
          /\ \A m \in wk[w].todo : m \in Kinds \X Nat \X Carriers
    /\ fresh \subseteq Workers
    /\ items \subseteq Codes
    /\ told \subseteq (1..Len(rec.docs)) \X Carriers
    /\ clock \in {"early", "near", "past"}
    /\ calls \in 0..MaxCalls /\ faults \in 0..MaxFaults

---------------------------------------------------------------------------
(* Questions about a record (pkg/pnr).                                     *)

Live(r) == {s \in DOMAIN r.segs : r.segs[s] # "XX"}

IsFlight(t) == t.type = "T"

Covers(t, s) == \E n \in DOMAIN t.coupons : t.coupons[n].seg = s /\ Usable(t.coupons[n].status)

(* Every live segment is covered for every passenger; an EMD covers none. *)
Ticketed(r) ==
    /\ \E d \in DOMAIN r.docs : IsFlight(r.docs[d])
    /\ \A p \in 1..Passengers, s \in Live(r) :
          \E d \in DOMAIN r.docs :
             IsFlight(r.docs[d]) /\ r.docs[d].pax = p /\ Covers(r.docs[d], s)

(* Any document of the passenger, an EMD too. *)
TicketFor(r, p) == \E d \in DOMAIN r.docs : r.docs[d].pax = p

Owing(r) == r.status # "cancelled" /\ ~Ticketed(r) /\ r.limit

---------------------------------------------------------------------------
(* What each operation makes of its copy, or None where it returns early.  *)

(* The members of a finite set of numbers, in order. *)
Ascending(S) ==
    CHOOSE s \in [1..Cardinality(S) -> S] : \A i, j \in 1..Cardinality(S) : i < j => s[i] < s[j]

TicketableSegments(r) == Ascending(Live(r))

(* One conjunction set: the segments in chunks of MaxCoupons. *)
IssueFor(r, p, from) ==
    LET segs == TicketableSegments(r)
        size == (Len(segs) + MaxCoupons - 1) \div MaxCoupons
        last(k) == IF k * MaxCoupons < Len(segs) THEN k * MaxCoupons ELSE Len(segs)
    IN  [k \in 1..size |->
           [type |-> "T", pax |-> p, from |-> from,
            coupons |-> [n \in 1..(last(k) - (k - 1) * MaxCoupons) |->
               [seg |-> segs[(k - 1) * MaxCoupons + n], status |-> "O", assoc |-> Unstapled]]]]

TooLong(r) == Cardinality(Live(r)) > MaxCoupons * MaxConjunction

(* A document set for each passenger of ps, in the record's order. *)
IssueForAll(r, ps, from) ==
    LET order == Ascending(ps)
    IN  FlattenSeq([i \in DOMAIN order |-> IssueFor(r, order[i], from[order[i]])])

(* Fault to inject: a passenger who has a ticket is issued another. *)
IssueTicketsAnew(r) ==
    IF r.status = "cancelled" \/ Ticketed(r) \/ Live(r) = {} \/ TooLong(r) THEN None
    ELSE [r EXCEPT !.docs = @ \o IssueForAll(r, 1..Passengers, [p \in 1..Passengers |-> 0]),
                   !.limit = FALSE, !.status = "ticketed"]

IssueTickets(r) ==
    LET owed == {p \in 1..Passengers : ~TicketFor(r, p)} IN
    IF r.status = "cancelled" \/ Ticketed(r) \/ Live(r) = {} \/ TooLong(r) \/ owed = {} THEN None
    ELSE [r EXCEPT !.docs = @ \o IssueForAll(r, owed, [p \in owed |-> 0]),
                   !.limit = FALSE, !.status = "ticketed"]

(* The documents of r with the coupons of its flight tickets that are open *)
(* moved to a status; refunding and exchanging both do no more.            *)
Close(r, ds, status) ==
    [d \in DOMAIN r.docs |->
       IF d \notin ds THEN r.docs[d]
       ELSE [r.docs[d] EXCEPT !.coupons =
               [n \in DOMAIN @ |-> IF @[n].status = "O" THEN [@[n] EXCEPT !.status = status] ELSE @[n]]]]

OpenDocs(r) ==
    {d \in DOMAIN r.docs : IsFlight(r.docs[d])
        /\ \E n \in DOMAIN r.docs[d].coupons : r.docs[d].coupons[n].status = "O"}

(* Every passenger with an open coupon gets a new set over the segments    *)
(* now held, naming the last of the documents it replaces.                 *)
Exchange(r) ==
    LET ds == OpenDocs(r)
        ps == {r.docs[d].pax : d \in ds}
        old == [p \in ps |-> CHOOSE d \in ds : r.docs[d].pax = p
                                /\ \A e \in ds : r.docs[e].pax = p => e <= d]
    IN  IF Live(r) = {} \/ ds = {} \/ TooLong(r) THEN None
        ELSE [r EXCEPT !.docs = Close(r, ds, "E") \o IssueForAll(r, ps, old), !.status = "ticketed"]

Refund(r) == IF OpenDocs(r) = {} THEN None ELSE [r EXCEPT !.docs = Close(r, OpenDocs(r), "R")]

(* The first coupon over the segment on the passenger's tickets, whatever  *)
(* became of it.                                                           *)
FlightCouponFor(r, p, s) ==
    LET at == {x \in (DOMAIN r.docs) \X (1..MaxCoupons) :
                 /\ IsFlight(r.docs[x[1]]) /\ r.docs[x[1]].pax = p
                 /\ x[2] \in DOMAIN r.docs[x[1]].coupons /\ r.docs[x[1]].coupons[x[2]].seg = s}
    IN  IF at = {} THEN Unstapled
        ELSE CHOOSE x \in at : \A y \in at : x[1] < y[1] \/ (x[1] = y[1] /\ x[2] <= y[2])

(* A document of one value coupon, open or consumed at issuance. *)
IssueEMD(r, q) ==
    LET assoc == IF q.type = "A" THEN FlightCouponFor(r, q.pax, q.seg) ELSE Unstapled IN
    IF r.status = "cancelled" \/ (q.type = "A" /\ assoc = Unstapled) THEN None
    ELSE [r EXCEPT !.docs = Append(@, [type |-> q.type, pax |-> q.pax, from |-> 0,
            coupons |-> <<[seg |-> q.seg, status |-> q.status, assoc |-> assoc]>>])]

(* Staple the value coupon to a segment's flight coupon, or with segment 0 *)
(* take it off.                                                            *)
AssociateEMD(r, q) ==
    LET assoc == IF q.seg = 0 THEN Unstapled ELSE FlightCouponFor(r, r.docs[q.doc].pax, q.seg) IN
    IF \/ q.doc \notin DOMAIN r.docs
       \/ r.docs[q.doc].type # "A"
       \/ Final(r.docs[q.doc].coupons[1].status)
       \/ IF q.seg = 0 THEN r.docs[q.doc].coupons[1].assoc = Unstapled ELSE assoc = Unstapled
    THEN None
    ELSE [r EXCEPT !.docs[q.doc].coupons[1] = [@ EXCEPT !.assoc = assoc, !.seg = q.seg]]

(* No segments named means all of them. *)
Doomed(r, q) == {s \in Live(r) : q.segs = {} \/ s \in q.segs}

Cancel(r, q) ==
    IF Doomed(r, q) = {} THEN None
    ELSE [r EXCEPT !.segs = [s \in DOMAIN @ |-> IF s \in Doomed(r, q) THEN "XX" ELSE @[s]],
                   !.status = IF Live(r) \subseteq Doomed(r, q) THEN "cancelled" ELSE @]

(* Held at once on free sale, else requested; Recompute leaves a ticketed  *)
(* record ticketed.                                                        *)
AddSegment(r, q) ==
    IF r.status = "cancelled" \/ Len(r.segs) = Len(Operator) THEN None
    ELSE [r EXCEPT !.segs = Append(@, q.status)]

(* Fault to inject: a value coupon stays behind its flight coupon. *)
LiftNothing(docs, d, n, status) == docs

(* What is stapled to a flight coupon ends with it. *)
LiftAssociated(docs, d, n, status) ==
    IF ~Final(status) THEN docs
    ELSE [e \in DOMAIN docs |->
            IF docs[e].type # "A" THEN docs[e]
            ELSE [docs[e] EXCEPT !.coupons = [m \in DOMAIN @ |->
                    IF @[m].assoc = <<d, n>> /\ ~Final(@[m].status)
                    THEN [@[m] EXCEPT !.status = status] ELSE @[m]]]]

(* No such coupon; finished with; a status nobody published; or on a       *)
(* segment the sender does not operate.                                    *)
Refuses(r, q, want) ==
    \/ want.status \notin Statuses
    \/ want.n \notin DOMAIN r.docs[q.doc].coupons
    \/ Final(r.docs[q.doc].coupons[want.n].status)
    \/ LET s == r.docs[q.doc].coupons[want.n].seg IN s \in DOMAIN r.segs /\ Operator[s] # q.from

ApplyCoupon(r, q, want) ==
    LET t == r.docs[q.doc]
        docs == [r.docs EXCEPT ![q.doc].coupons[want.n].status = want.status]
    IN  IF Refuses(r, q, want) \/ t.coupons[want.n].status = want.status THEN r
        ELSE [r EXCEPT !.docs = IF IsFlight(t) THEN LiftAssociated(docs, q.doc, want.n, want.status)
                                ELSE docs]

(* The coupons asked for, one after the other. *)
ApplyCoupons(r, q) ==
    LET after[i \in 0..Len(q.wants)] ==
            IF i = 0 THEN r ELSE ApplyCoupon(after[i - 1], q, q.wants[i])
    IN  after[Len(q.wants)]

ApplyCouponChanges(r, q) == IF ApplyCoupons(r, q) = r THEN None ELSE ApplyCoupons(r, q)

Apply(r, q) ==
    CASE q.op = "issue"    -> IssueTickets(r)
      [] q.op = "exchange" -> Exchange(r)
      [] q.op = "refund"   -> Refund(r)
      [] q.op = "emd"      -> IssueEMD(r, q)
      [] q.op = "staple"   -> AssociateEMD(r, q)
      [] q.op = "cancel"   -> Cancel(r, q)
      [] q.op = "add"      -> AddSegment(r, q)
      [] q.op = "control"  -> IF q.doc \in DOMAIN r.docs THEN ApplyCouponChanges(r, q) ELSE None

---------------------------------------------------------------------------
(* A call: read, write if the version still matches, tell.                 *)

Covered(r, d) == {r.docs[d].coupons[n].seg : n \in DOMAIN r.docs[d].coupons} \cap DOMAIN r.segs

Tickets(r, ds) == UNION {{<<"ticket", d, Operator[s]>> : s \in Covered(r, d)} : d \in ds}

Refused(r, q) ==
    q.doc \notin DOMAIN r.docs \/ \E i \in DOMAIN q.wants : Refuses(r, q, q.wants[i])

(* What is sent once the copy is stored: notifyTicketed goes over every    *)
(* document of the record, notifyDocument over the new one.                *)
Tells(r, q, copy) ==
    CASE q.op \in {"issue", "exchange"} -> Tickets(copy, DOMAIN copy.docs)
      [] q.op = "emd"     -> Tickets(copy, {Len(copy.docs)})
      [] q.op = "cancel"  -> {<<"cancel", 0, Operator[s]>> : s \in Doomed(r, q)}
      [] q.op = "add"     -> {<<"request", 0, Operator[Len(copy.segs)]>>}
      [] q.op = "control" -> {<<IF Refused(r, q) THEN "refused" ELSE "answered", q.doc, q.from>>}
      [] OTHER            -> {}

(* GetPNR or FindPNRByDocument, and everything up to UpdatePNR.  A ticket  *)
(* control message that changes nothing is answered, the other calls end.  *)
Reads(w, q, tries) ==
    LET copy == Apply(rec, q) IN
    IF copy # None
    THEN /\ wk' = [wk EXCEPT ![w] = [pc |-> "write", q |-> q, copy |-> copy, tries |-> tries,
                                     todo |-> Tells(rec, q, copy)]]
         /\ fresh' = fresh \cup {w}
    ELSE /\ wk' = [wk EXCEPT ![w] = IF q.op # "control" THEN Idle
                        ELSE [Idle EXCEPT !.pc = "tell", !.q = q, !.todo = Tells(rec, q, rec)]]
         /\ fresh' = fresh \ {w}

(* A booking the carriers hold: before ticketing, ticketed, or with a      *)
(* value coupon stapled to its first flight as well.                       *)
Booking == [segs |-> [s \in 1..Booked |-> "HK"], status |-> "open", limit |-> TRUE, docs |-> <<>>]

Bought == [op |-> "emd", type |-> "A", pax |-> 1, seg |-> 1, status |-> "O"]

Init ==
    /\ rec \in {Booking, IssueTickets(Booking), IssueEMD(IssueTickets(Booking), Bought)} \ {None}
    /\ told = {<<m[2], m[3]>> : m \in Tickets(rec, DOMAIN rec.docs)}
    /\ wk = [w \in Workers |-> Idle]
    /\ fresh = {} /\ items = {} /\ clock = "early" /\ calls = 0 /\ faults = 0

Call(w, q) ==
    /\ wk[w].pc = "idle" /\ calls < MaxCalls
    /\ calls' = calls + 1
    /\ Reads(w, q, 0)
    /\ UNCHANGED <<rec, items, told, clock, faults>>

ReadAgain(w) ==
    /\ wk[w].pc = "read"
    /\ Reads(w, wk[w].q, wk[w].tries)
    /\ UNCHANGED <<rec, items, told, clock, calls, faults>>

(* Where a call goes from a successful UpdatePNR. *)
Stored(c) ==
    IF c.todo = {} THEN Idle
    ELSE [c EXCEPT !.pc = IF c.q.op = "issue" THEN "work" ELSE "tell", !.copy = None, !.tries = 0]

UpdatePNR(w) ==
    /\ wk[w].pc = "write" /\ w \in fresh
    /\ rec' = wk[w].copy /\ fresh' = {}
    /\ wk' = [wk EXCEPT ![w] = Stored(@)]
    /\ UNCHANGED <<items, told, clock, calls, faults>>

(* The end of a call whose write failed: a ticket control message is       *)
(* answered "could not record the change", an operation returns an error.  *)
Unwritten(c) ==
    IF c.q.op = "control"
    THEN [c EXCEPT !.pc = "tell", !.copy = None, !.todo = {<<"refused", c.q.doc, c.q.from>>}]
    ELSE Idle

(* ErrConflict: again from the read, except where nothing loops. *)
Overtaken(c) ==
    IF c.q.op \in {"control", "staple"} \/ c.tries = MaxAttempts - 1 THEN Unwritten(c)
    ELSE [c EXCEPT !.tries = @ + 1, !.pc = "read", !.copy = None, !.todo = {}]

Conflict(w) ==
    /\ wk[w].pc = "write" /\ w \notin fresh
    /\ wk' = [wk EXCEPT ![w] = Overtaken(@)]
    /\ UNCHANGED <<rec, fresh, items, told, clock, calls, faults>>

(* The store fails a read, a write, or a call on the queues. *)
Failed(c) ==
    CASE c.pc = "write" -> Unwritten(c)
      [] c.pc = "work"  -> [c EXCEPT !.pc = "tell"]
      [] OTHER          -> Idle

StoreFails(w) ==
    /\ wk[w].pc \in {"read", "write", "work", "place"} /\ faults < MaxFaults
    /\ faults' = faults + 1
    /\ wk' = [wk EXCEPT ![w] = Failed(@)]
    /\ fresh' = fresh \ {w}
    /\ UNCHANGED <<rec, items, told, clock, calls>>

(* Place: one pending item per code (Mem.Enqueue). *)
Place(ks) == items' = items \cup ks

(* workTicketingQueue: what the issue has made moot is worked. *)
WorkTicketingQueue(w) ==
    /\ wk[w].pc = "work"
    /\ items' = {k \in items : k[2] # None}
    /\ wk' = [wk EXCEPT ![w].pc = "tell"]
    /\ UNCHANGED <<rec, fresh, told, clock, calls, faults>>

(* The next message of the call, documents in order. *)
Following(w, m) == m \in wk[w].todo /\ \A x \in wk[w].todo : m[2] <= x[2]

(* The call without it, over when there is no other. *)
Without(c, m) == IF c.todo = {m} THEN Idle ELSE [c EXCEPT !.todo = @ \ {m}]

Sent(w, m) == [wk EXCEPT ![w] = Without(@, m)]

Tell(w, m) ==
    /\ wk[w].pc = "tell" /\ Following(w, m)
    /\ wk' = Sent(w, m)
    /\ told' = IF m[1] = "ticket" THEN told \cup {<<m[2], m[3]>>} ELSE told
    /\ UNCHANGED <<rec, fresh, items, clock, calls, faults>>

(* Fault to inject: a carrier that was not told is logged only. *)
TellFailsQuietly(w, m) ==
    /\ wk[w].pc = "tell" /\ Following(w, m) /\ m[3] \in Flaky
    /\ wk' = Sent(w, m)
    /\ UNCHANGED <<rec, fresh, items, told, clock, calls, faults>>

(* The carrier could not be told: a divergence, if it was of a document or *)
(* a cancellation (queueTicketDivergence, queueCancelDivergence).          *)
TellFails(w, m) ==
    /\ wk[w].pc = "tell" /\ Following(w, m) /\ m[3] \in Flaky
    /\ wk' = Sent(w, m)
    /\ CASE m[1] = "ticket" -> Place({<<"ticket_not_advised", m[3]>>})
         [] m[1] = "cancel" -> Place({<<"cancel_not_sent", m[3]>>})
         [] OTHER           -> UNCHANGED items
    /\ UNCHANGED <<rec, fresh, told, clock, calls, faults>>

(* Neither told nor queued: both failed, and both are only logged. *)
TellLost(w, m) ==
    /\ wk[w].pc = "tell" /\ Following(w, m) /\ m[3] \in Flaky /\ faults < MaxFaults
    /\ faults' = faults + 1
    /\ wk' = Sent(w, m)
    /\ UNCHANGED <<rec, fresh, items, told, clock, calls>>

---------------------------------------------------------------------------
(* The sweeper.                                                            *)

Unanswered(r) == {s \in DOMAIN r.segs : r.segs[s] = "HN"}

(* Fault to inject: a limit near its end is not looked for again. *)
DueEarly(r) == clock = "near" /\ Owing(r)

(* FindPNRsDueBy: records that owe a ticket and whose limit is near. *)
Due(r) == clock # "early" /\ Owing(r)

(* A pass that finds the record, due or long without an answer. *)
SweepList(old) ==
    /\ wk[Sweeper].pc = "idle"
    /\ Due(rec) \/ (old /\ rec.status # "cancelled" /\ Unanswered(rec) # {})
    /\ wk' = [wk EXCEPT ![Sweeper] = [Idle EXCEPT !.pc = "place", !.copy = rec,
                                          !.q = [op |-> "sweep", now |-> clock, old |-> old]]]
    /\ UNCHANGED <<rec, fresh, items, told, clock, calls, faults>>

LimitCode(r, now) ==
    IF ~r.limit \/ Ticketed(r) \/ now = "early" THEN {}
    ELSE {<<IF now = "past" THEN "tktl_expired" ELSE "tktl_near", None>>}

(* sweepRecord, on the record as it was listed.  A limit that passed is    *)
(* raised and, if asked for, the booking cancelled; nothing else is then   *)
(* looked at.                                                              *)
SweepRecord ==
    LET s == wk[Sweeper]
        raised == LimitCode(s.copy, s.q.now)
        cancels == AutoCancel /\ s.q.now = "past" /\ raised # {}
    IN  /\ s.pc = "place"
        /\ Place(raised \cup IF cancels \/ ~s.q.old THEN {}
                              ELSE {<<"unanswered", x>> : x \in Unanswered(s.copy)})
        /\ wk' = [wk EXCEPT ![Sweeper] =
                     IF cancels THEN [Idle EXCEPT !.pc = "read", !.q = Expired] ELSE Idle]
        /\ UNCHANGED <<rec, fresh, told, clock, calls, faults>>

---------------------------------------------------------------------------
(* The surroundings.                                                       *)

(* A partner's reply, applied by the inbound pipeline in one write. *)
PartnerReplies(s) ==
    /\ s \in Unanswered(rec)
    /\ rec' = [rec EXCEPT !.segs[s] = "HK"] /\ fresh' = {}
    /\ UNCHANGED <<wk, items, told, clock, calls, faults>>

(* A carrier's TKCRES that refuses what it was told. *)
CarrierRefuses(d, c) ==
    /\ <<d, c>> \in told
    /\ Place({<<"ticket_not_advised", c>>})
    /\ UNCHANGED <<rec, wk, fresh, told, clock, calls, faults>>

Tick ==
    /\ clock # "past"
    /\ clock' = IF clock = "early" THEN "near" ELSE "past"
    /\ UNCHANGED <<rec, wk, fresh, items, told, calls, faults>>

(* The process dies; the record and the queues are in the store. *)
Crash ==
    /\ faults < MaxFaults /\ faults' = faults + 1
    /\ wk' = [w \in Workers |-> Idle] /\ fresh' = {}
    /\ UNCHANGED <<rec, items, told, clock, calls>>

Step(w) ==
    \/ ReadAgain(w) \/ UpdatePNR(w) \/ Conflict(w) \/ WorkTicketingQueue(w)
    \/ \E m \in wk[w].todo : Tell(w, m) \/ TellFails(w, m)

Fails(w) == StoreFails(w) \/ \E m \in wk[w].todo : TellLost(w, m)

Sweep == (\E old \in BOOLEAN : SweepList(old)) \/ SweepRecord

Next ==
    \/ \E w \in Callers : \E q \in Requests[w] : Call(w, q)
    \/ \E w \in Workers : Step(w) \/ Fails(w)
    \/ Sweep \/ Tick \/ Crash
    \/ \E s \in DOMAIN Operator : PartnerReplies(s)
    \/ \E x \in told : CarrierRefuses(x[1], x[2])

(* The sweeper runs on a ticker, and a call that was begun goes on. *)
Fairness == WF_vars(Sweep \/ Step(Sweeper)) /\ \A w \in Callers : WF_vars(Step(w))

Spec == Init /\ [][Next]_vars /\ Fairness

---------------------------------------------------------------------------
(* Properties.                                                             *)

StatusOf(r, d, n) == r.docs[d].coupons[n].status

(* "Issuing twice would put two live documents against the same coupon,    *)
(* which is a refund problem" (ticket.go IssueTickets): between documents  *)
(* not issued in exchange, a passenger never has two usable coupons over   *)
(* one segment, however many agents issue at once.                         *)
OneLiveCoupon ==
    \A d, e \in DOMAIN rec.docs, s \in DOMAIN rec.segs :
        ( /\ IsFlight(rec.docs[d]) /\ IsFlight(rec.docs[e]) /\ rec.docs[d].pax = rec.docs[e].pax
          /\ rec.docs[d].from = 0 /\ rec.docs[e].from = 0
          /\ Covers(rec.docs[d], s) /\ Covers(rec.docs[e], s) ) => d = e

(* "A value coupon stapled to a flight coupon is lifted with it" (emd.go   *)
(* liftAssociated): when a flight coupon becomes flown, nothing stapled to *)
(* it is left open, though staplers and issuers run at the same time.      *)
LiftedWithFlight ==
    [][\A d \in DOMAIN rec.docs : \A n \in DOMAIN rec.docs[d].coupons :
         IsFlight(rec.docs[d]) /\ ~Final(StatusOf(rec, d, n)) /\ StatusOf(rec', d, n) = "F"
           => \A e \in DOMAIN rec'.docs : \A m \in DOMAIN rec'.docs[e].coupons :
                rec'.docs[e].coupons[m].assoc = <<d, n>> => Final(StatusOf(rec', e, m))]_vars

(* "A ticket the operating carrier does not know about is a ticket that    *)
(* exists only here" (ticket.go): once the calls are over, every carrier   *)
(* was sent every document over its segments, or a divergence was raised.  *)
(* (An EMD-A was sent to a carrier; stapled to another it is not again.)   *)
AdvisedOrQueued ==
    (faults = 0 /\ \A w \in Callers : wk[w].pc = "idle") =>
        LET knows(d, c) == <<d, c>> \in told \/ <<"ticket_not_advised", c>> \in items IN
        \A d \in DOMAIN rec.docs :
            IF rec.docs[d].type = "A" THEN \E c \in Carriers : knows(d, c)
            ELSE \A s \in Covered(rec, d) : knows(d, Operator[s])

(* A standalone EMD is asked for no segment, or for one that was booked.   *)
(* (IssueEMD looks no segment up for a document of type S: one over a      *)
(* segment that is added later would be no news to that segment's carrier.)*)
StandaloneBooked ==
    \A w \in Callers : \A q \in Requests[w] : q.op = "emd" /\ q.type = "S" => q.seg \in 0..Booked

(* Auto-cancel on a ticketing time limit (cancel.go, sweep.go): a booking  *)
(* that owes a ticket past its limit does not go on owing it, though       *)
(* conflicts use up the attempts of a cancellation and the process dies.   *)
LimitEnforced == AutoCancel => ((clock = "past" /\ Owing(rec)) ~> ~Owing(rec))

(* "A ticketed record owes nobody a ticketing deadline" (sweep.go): the    *)
(* sweeper cancels no booking that is ticketed by then.                    *)
SweptOwing ==
    [][wk[Sweeper].pc = "write" /\ wk'[Sweeper].pc = "tell" => ~Ticketed(rec)]_vars

(* "A record with one passenger ticketed out of two is not ticketed, and   *)
(* letting it look ticketed would let the limit pass on the passenger      *)
(* nobody issued for" (pnr/ticket.go): a limit is cleared only when        *)
(* everybody has a ticket.                                                 *)
LimitMet == [][rec.limit /\ ~rec'.limit => Ticketed(rec')]_vars
=============================================================================
