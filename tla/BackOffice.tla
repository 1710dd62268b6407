----------------------------- MODULE BackOffice -----------------------------
(***************************************************************************)
(* The parts of jetway that compute and do not wait: reading and writing   *)
(* interchanges and teletype messages, channel numbers, prices, settlement *)
(* files, crew legality, dividing a booking and planning a load.  Each is  *)
(* a desk with work on it; a step adds to the work of the desk that is     *)
(* open, in every way the constants allow, and an invariant compares what  *)
(* the code's operators make of it with a definition of what they are for. *)
(***************************************************************************)
EXTENDS Settlement

CONSTANT MaxSegments
E == INSTANCE Edifact

CONSTANTS MaxLines, MaxBytes, SequenceWrap
T == INSTANCE TypeB

CONSTANTS Filed, Levies
F == INSTANCE Fare

CONSTANTS Cumulative, Rest, FreeTime, FreeWindow, Extension
C == INSTANCE Crew

D == INSTANCE Divide
L == INSTANCE LoadPlan

CONSTANTS
    Stems, Symbols, MaxSymbols,   \* texts: what they begin with, and may go on with
    Options, Sample, MaxSent,     \* how to encode, a message on a channel, how many
    Interchanges,                 \* as sent: what Finalize made
    Flights, Party, MaxTrip,      \* flights and travellers of a trip, and how many of each
    Purchases, Distances,         \* when a trip is bought, and how long its sectors are
    Templates, MaxSales,          \* transactions an office may report, and how many
    Shapes, Gaps, MaxDuties,      \* duties: their shape, hours between them, how many
    Booking, Format,              \* a record, and the links of its carriers
    Aircraft, Weights, MaxItems   \* types, kilos of an item, bags and dead load

VARIABLES
    desk,     \* the desk that is open
    text,     \* wire, teletype: the symbols so far
    channel,  \* channel: what was sent, what came, and what the gateway remembers
    torn,     \* envelope: what was sent, and what came
    trip,     \* fares: the flights to be priced, and who travels
    offices,  \* settlement: the offices of the file
    crew,     \* crew: the duties flown, and the record kept of them
    halves,   \* divide: the records, and what was done of telling the carriers
    load      \* load: the aircraft, its bags and its dead load

vars == <<desk, text, channel, torn, trip, offices, crew, halves, load>>

\* adviseSplit at work: the carriers it has to tell, who was told what, who is
\* queued for a person to tell, and who is neither.
Advice(parent, child, carriers) ==
    [parent |-> parent, child |-> child, todo |-> SetToSeq(carriers), told |-> {}, queued |-> {}, missed |-> {}]

NewOffice(n) == [agent |-> n, currency |-> "EUR", txs |-> <<>>]

Init ==
    /\ text \in {[stem |-> s, more |-> <<>>] : s \in Stems["wire"] \cup Stems["teletype"]}
    /\ channel = [sent |-> 0, newest |-> 0, previous |-> 0, last |-> T!NoNumber, heard |-> <<>>]
    /\ torn \in {[sent |-> s, came |-> s, damaged |-> FALSE] : s \in Interchanges}
    /\ trip = [flights |-> <<>>, party |-> <<>>]
    /\ offices = <<NewOffice(1)>>
    /\ crew = [flown |-> <<>>, record |-> <<>>]
    /\ halves = [records |-> <<Booking>>, advice |-> Advice(Booking, Booking, {})]
    /\ load \in {[type |-> t, bags |-> <<>>, dead |-> 0, items |-> 0] : t \in Aircraft}
    \* One desk's work at a time, the others as they are at first.
    /\ desk \in {"wire", "teletype", "channel", "envelope", "fares", "settlement", "crew", "divide", "load"}
    /\ IF desk \in DOMAIN Stems THEN text.stem \in Stems[desk] ELSE text.stem = <<>>
    /\ desk # "envelope" => torn.sent = CHOOSE s \in Interchanges : TRUE
    /\ desk # "load" => load.type = CHOOSE t \in Aircraft : TRUE

-----------------------------------------------------------------------------
(* Work. *)

Received(s) ==
    /\ desk \in DOMAIN Stems /\ s \in Symbols[desk] /\ Len(text.more) < MaxSymbols[desk]
    /\ text' = [text EXCEPT !.more = Append(@, s)]
    /\ UNCHANGED <<desk, channel, torn, trip, offices, crew, halves, load>>

\* The nth message on the channel, as it is on the wire.
OnWire(n) == T!Encode(Sample, [max |-> 63, frame |-> TRUE, crlf |-> TRUE, blank |-> FALSE, charset |-> FALSE,
                                 channel |-> T!ChannelOf(((n - 1) % SequenceWrap) + 1)]).raw

Hear(n, raw) ==
    \E c \in {T!checkSequence(channel.last, raw)} :
        channel' = [sent |-> IF n > channel.sent THEN n ELSE channel.sent,
                    newest |-> IF n > channel.newest THEN n ELSE channel.newest, previous |-> n, last |-> c.last,
                    heard |-> <<[n |-> n, said |-> c.said, previous |-> channel.previous, newest |-> channel.newest]>>]

\* The next message arrives, or is lost.
Arrive ==
    /\ desk = "channel" /\ channel.sent < MaxSent
    /\ Hear(channel.sent + 1, OnWire(channel.sent + 1))
    /\ UNCHANGED <<desk, text, torn, trip, offices, crew, halves, load>>

Lose ==
    /\ desk = "channel" /\ channel.sent < MaxSent
    /\ channel' = [channel EXCEPT !.sent = @ + 1, !.heard = <<>>]
    /\ UNCHANGED <<desk, text, torn, trip, offices, crew, halves, load>>

\* The sender retransmits one that had come, marked.
Again(n) ==
    /\ desk = "channel"
    /\ Hear(n, T!MarkPossibleDuplicate(OnWire(n)).raw)
    /\ UNCHANGED <<desk, text, torn, trip, offices, crew, halves, load>>

\* The gateway's memory of the channel does not outlive the process.
Restart ==
    /\ desk = "channel" /\ channel.last # T!NoNumber
    /\ channel' = [channel EXCEPT !.last = T!NoNumber, !.previous = 0, !.heard = <<>>]
    /\ UNCHANGED <<desk, text, torn, trip, offices, crew, halves, load>>

\* A run of the sender's segments is lost, comes twice, or is another's.
Damaged(came) ==
    /\ desk = "envelope" /\ ~torn.damaged
    /\ torn' = [torn EXCEPT !.came = came, !.damaged = TRUE]
    /\ UNCHANGED <<desk, text, channel, trip, offices, crew, halves, load>>

Lost(i, j) == Damaged(SubSeq(torn.sent, 1, i - 1) \o SubSeq(torn.sent, j + 1, Len(torn.sent)))
Twice(i, j) == Damaged(SubSeq(torn.sent, 1, j) \o SubSeq(torn.sent, i, Len(torn.sent)))
Spliced(i, other, j) == Damaged(SubSeq(torn.sent, 1, i) \o SubSeq(other, j, Len(other)))

AddFlight(f) ==
    /\ desk = "fares" /\ Len(trip.flights) < MaxTrip
    /\ trip.flights # <<>> => Last(trip.flights).depart <= f.depart
    /\ trip' = [trip EXCEPT !.flights = Append(@, f)]
    /\ UNCHANGED <<desk, text, channel, torn, offices, crew, halves, load>>

AddTraveller(pt) ==
    /\ desk = "fares" /\ Len(trip.party) < MaxTrip
    /\ trip' = [trip EXCEPT !.party = Append(@, pt)]
    /\ UNCHANGED <<desk, text, channel, torn, offices, crew, halves, load>>

Sales == SumOf(offices, LAMBDA o : Len(o.txs))

Sell(t) ==
    /\ desk = "settlement" /\ Sales < MaxSales
    /\ offices' = [offices EXCEPT ![Len(offices)].txs = Append(@, [t EXCEPT !.document = Sales + 1])]
    /\ UNCHANGED <<desk, text, channel, torn, trip, crew, halves, load>>

OpenOffice ==
    /\ desk = "settlement" /\ Len(offices) < 2
    /\ offices' = Append(offices, NewOffice(2))
    /\ UNCHANGED <<desk, text, channel, torn, trip, crew, halves, load>>

FreeFrom == IF crew.flown = <<>> THEN 0 ELSE Last(crew.flown).release

DutyOf(shape, report) ==
    [report |-> report, release |-> 1,
     legs |-> [i \in 1..Len(shape) |-> [depart |-> report + shape[i][1], arrive |-> report + shape[i][2]]]]

\* How far back a limit can reach, and so what the record must keep.
Reach == Max({FreeWindow} \cup {IF c.days > 0 THEN c.days * C!Day ELSE c.span : c \in Cumulative})

\* A duty the record admits is flown, and the record trimmed.
Fly(shape, gap) ==
    /\ desk = "crew" /\ Len(crew.flown) < MaxDuties
    /\ LET d == DutyOf(shape, FreeFrom + gap) IN
         /\ C!Admits(d, crew.record)
         /\ crew' = [flown |-> C!AddDuty(crew.flown, d),
                     record |-> C!Trim(C!AddDuty(crew.record, d), C!ReleaseOf(d) - Reach)]
    /\ UNCHANGED <<desk, text, channel, torn, trip, offices, halves, load>>

\* Reserve: duty that is not flying, filed as it comes.
Standby(gap) ==
    /\ desk = "crew" /\ Len(crew.flown) < MaxDuties
    /\ LET p == [kind |-> "reserve", report |-> FreeFrom + gap, release |-> FreeFrom + gap + 8, legs |-> <<>>] IN
         crew' = [flown |-> C!Add(crew.flown, p), record |-> C!Add(crew.record, p)]
    /\ UNCHANGED <<desk, text, channel, torn, trip, offices, halves, load>>

\* Split: both records at once; then the carriers, in an order.  A division's
\* advisories read its own two records and nothing else, so that they are over
\* before the next division.
Split(i, moving) ==
    LET p      == halves.records[i]
        child  == D!ChildOf(p, moving, Len(halves.records) + 1)
        parent == D!ParentOf(p, moving, child.locator)
    IN  /\ desk = "divide" /\ halves.advice.todo = <<>>
        /\ p.status # "cancelled" /\ D!CanDivide(p, moving)
        /\ halves' = [records |-> Append([halves.records EXCEPT ![i] = parent], child),
                      advice |-> Advice(parent, child, D!Concerned(child))]
        /\ UNCHANGED <<desk, text, channel, torn, trip, offices, crew, load>>

Advising == desk = "divide" /\ halves.advice.todo # <<>>

\* adviseSplit goes on to the next carrier, having done with this one.
DoneWith(advice) ==
    /\ halves' = [halves EXCEPT !.advice = [advice EXCEPT !.todo = Tail(@)]]
    /\ UNCHANGED <<desk, text, channel, torn, trip, offices, crew, load>>

\* sendDivide succeeds, over a link that can carry it.
Tell ==
    /\ Advising /\ ~D!Unreachable(Head(halves.advice.todo), Format)
    /\ LET a == halves.advice
           c == Head(a.todo)
       IN  DoneWith([a EXCEPT !.told = @ \cup {[carrier |-> c, said |-> D!BuildDivide(a.parent, a.child, c)]}])

\* It does not, and the gap is placed on the divergence queue; or there is no
\* queue, or Place fails, and the gap is only logged.
PlaceGap == Advising /\ DoneWith([halves.advice EXCEPT !.queued = @ \cup {Head(halves.advice.todo)}])
LogGap == Advising /\ DoneWith([halves.advice EXCEPT !.missed = @ \cup {Head(halves.advice.todo)}])

\* The process stops: nothing remembers who was still to be told.
StopAdvising ==
    /\ Advising
    /\ halves' = [halves EXCEPT !.advice.missed = @ \cup ToSet(halves.advice.todo), !.advice.todo = <<>>]
    /\ UNCHANGED <<desk, text, channel, torn, trip, offices, crew, load>>

AddBag(w) ==
    /\ desk = "load" /\ load.items < MaxItems
    /\ load' = [load EXCEPT !.bags = Append(@, w), !.items = @ + 1]
    /\ UNCHANGED <<desk, text, channel, torn, trip, offices, crew, halves>>

AddCargo(w) ==
    /\ desk = "load" /\ load.items < MaxItems
    /\ load' = [load EXCEPT !.dead = @ + w, !.items = @ + 1]
    /\ UNCHANGED <<desk, text, channel, torn, trip, offices, crew, halves>>

Next ==
    \/ \E s \in UNION {Symbols[d] : d \in DOMAIN Stems} : Received(s)
    \/ Arrive
    \/ Lose
    \/ \E n \in 1..channel.newest : n >= channel.newest - 1 /\ Again(n)
    \/ Restart
    \/ \E i, j \in 1..Len(torn.sent) : i <= j /\ Lost(i, j)
    \/ \E i, j \in 1..Len(torn.sent) : i <= j /\ Twice(i, j)
    \/ \E other \in Interchanges : \E i \in 1..Len(torn.sent), j \in 1..Len(other) :
         other # torn.sent /\ Spliced(i, other, j)
    \/ \E f \in Flights : AddFlight(f)
    \/ \E pt \in Party : AddTraveller(pt)
    \/ \E t \in Templates : Sell(t)
    \/ OpenOffice
    \/ \E shape \in Shapes, gap \in Gaps : Fly(shape, gap)
    \/ \E gap \in Gaps : Standby(gap)
    \/ \E i \in 1..Len(halves.records) : \E moving \in SUBSET (1..Len(halves.records[i].pax)) : Split(i, moving)
    \/ Tell
    \/ PlaceGap
    \/ LogGap
    \/ StopAdvising
    \/ \E w \in Weights : AddBag(w)
    \/ \E w \in Weights : AddCargo(w)

Spec == Init /\ [][Next]_vars

-----------------------------------------------------------------------------
(* What the operators are for. *)

\* What a segment says: the values that are not empty, each with its place.
Said(s) ==
    UNION {UNION {{<<e, r, c, s.elems[e][r][c]>> : c \in {i \in 1..Len(s.elems[e][r]) : s.elems[e][r][i] # <<>>}}
                  : r \in 1..Len(s.elems[e])} : e \in 1..Len(s.elems)}

\* The envelope a message is read with when it is written under the options.
Rewritten(p, o) ==
    [p EXCEPT !.framed = o.frame, !.channel = IF o.frame THEN o.channel ELSE "",
              !.priority = IF @ = "" THEN "QU" ELSE @, !.err = (p.text = <<>>)]

\* What the partner reads of a captured message that is sent again.
Marked(raw) == T!Parse(T!MarkPossibleDuplicate(raw).raw)

\* Whatever text Parse accepts, what Encode writes of it reads back as the
\* same segments under the same service characters, on one line or many: the
\* gateway may pass an interchange on without changing what it says.  So does
\* a teletype message that Encode does not refuse, under every option a link
\* may ask for; and marking the captured text of one as a possible duplicate,
\* which the retry queue does without reading it, changes that and nothing
\* else.  The last clause is of texts that Encode wrote and of captured ones
\* without a carriage return or a control character: MarkPossibleDuplicate looks
\* at lines as they came and Parse at lines after Normalise, so that after a
\* carriage return alone the mark lands in the text, and a control character
\* before the dot hides the origin line (see MarkReads).
FixedPoint ==
    /\ desk = "wire" =>
         \A p \in {E!ParseText(text.stem \o text.more)} : p.ok =>
           \A nl \in {<<>>, <<E!LF>>} : \A q \in {E!ParseText(E!Encode(p, nl))} :
                   /\ q.ok /\ q.syn = p.syn /\ Len(q.segs) = Len(p.segs)
                   /\ \A i \in 1..Len(p.segs) : p.segs[i].tag = q.segs[i].tag /\ Said(p.segs[i]) = Said(q.segs[i])
    /\ desk = "teletype" =>
         \A raw \in {text.stem \o text.more} : \A p \in {T!Parse(raw)} :
             /\ \A o \in Options : \A e \in {T!Encode(p, o)} : p.ok /\ e.ok =>
                  \A q \in {Rewritten(p, o)} :
                    T!Parse(e.raw) = q /\ Marked(e.raw) = [q EXCEPT !.pdm = TRUE] /\ T!PriorityOf(e.raw) = q.priority
             /\ p.ok /\ p.origin # "" /\ {T!CR, T!CTL} \cap ToSet(raw) = {} => Marked(raw) = [p EXCEPT !.pdm = TRUE]

\* The mark is on what is sent again, and touches only the origin line: of every
\* captured text that has one, the partner reads the same message with the mark.
MarkReads ==
    desk = "teletype" =>
      \A raw \in {text.stem \o text.more} : \A p \in {T!Parse(raw)} :
          p.ok /\ p.origin # "" => Marked(raw) = [p EXCEPT !.pdm = TRUE]

Bodies(segs) ==
    LET ms == E!assemble(segs).messages
    IN  [i \in 1..Len(ms) |-> [ref |-> ms[i].header.ref, body |-> ms[i].body]]

\* sendCONTRL: what the sender reads in the CONTRL that Check and Build answer
\* with, to a peer that wants one of everything; nothing when it cannot be built.
Read(contrl) ==
    IF contrl = <<>> THEN [action |-> "none"] ELSE E!ParseCONTRL(E!assemble(contrl).messages[1])
sendCONTRL(segs) == Read(E!Build(E!Check(E!assemble(segs)), 9))


\* A party pays what its members would pay one by one, so that dividing a
\* booking does not change its price; the same trip bought earlier is never
\* dearer nor refused; a passenger's coupons are worth the passenger's total
\* but for less than a minor unit each; and a fare prorated over its coupons is
\* given out in full, nobody's share being negative, above its proportion but
\* for the last coupon's rounding, or less than its service charge.
PriceOfParts ==
    desk = "fares" /\ trip.flights # <<>> /\ trip.party # <<>> =>
      \A t \in Purchases, n \in {Len(trip.flights)} : \A whole \in {F!Price(trip.flights, trip.party, t)} :
        LET alone(i) == F!Price(trip.flights, <<trip.party[i]>>, t)
        IN  /\ whole.ok => whole.total = SumOf([i \in 1..Len(trip.party) |-> alone(i).total], LAMBDA x : x)
            /\ \A u \in Purchases : u < t /\ whole.ok =>
                 \A early \in {F!Price(trip.flights, trip.party, u)} : early.ok /\ early.total <= whole.total
            /\ whole.ok => \A i \in 1..Len(trip.party) : \A q \in {F!price(trip.flights, trip.party, t)} :
                 LET worth == SumOf([k \in 1..n |-> F!couponValue(q, i, k)], LAMBDA x : x)
                 IN  worth <= q.passengers[i].total /\ q.passengers[i].total - worth < n
            /\ whole.ok => \A d \in [1..n -> Distances] :
                 \A s \in {F!Straight(whole.base, d).shares}, all \in {SumOf(d, LAMBDA x : x)} :
                     /\ SumOf(s, LAMBDA x : x) = whole.base
                     /\ \A i \in 1..n : s[i] >= F!ServiceCharge(s[i], 900) /\ F!ServiceCharge(s[i], 900) >= 0
                     /\ all > 0 => \A i \in 1..n : s[i] * all < whole.base * d[i] + (IF i = n THEN n * all ELSE 1)

Lines(file, id) == SelectSeq(file, LAMBDA l : l.rec.id = id)
AmountOf(l, k) == getAmount(l.rec.totals[k])

\* One sign throughout, so that magnitudes add up.
OneSign(t) ==
    LET amounts == {t.fare, t.total, t.commission} \cup {t.taxes[i].amount : i \in 1..Len(t.taxes)}
    IN  \A a, b \in amounts : a * b >= 0

\* A settlement file reads back as the transactions written, computed, and
\* writes again as the same file; what an office comes to when it is read is
\* what its totals say, and the offices' totals come to the file's, currency by
\* currency.  A file cut off inside a transaction, after a record or within one,
\* is refused, unless it is cut within the transaction's last record: Parse pads
\* that with blanks, so that the count is right, and nothing but that payment is
\* lost.  (Nor is one cut within a header before its count is whole; it is a
\* transaction without records, or none.)  The same sales reported to the plan
\* read back with their amounts.
FileBalances ==
    desk = "settlement" =>
      \A file \in {Write(offices)} : \A back \in {Parse(file)}, tots \in {Lines(file, "BOT94")} :
          /\ back.ok /\ Write(back.offices) = file
          /\ \A i \in 1..Len(offices) :
               /\ Len(back.offices[i].txs) = Len(offices[i].txs)
               /\ \A k \in DOMAIN NoTotals :
                    OfficeTotals(back.offices[i])[k]
                      = SumOf(SelectSeq(tots, LAMBDA l : l.rec.agent = offices[i].agent), LAMBDA l : AmountOf(l, k))
               /\ \A l \in ToSet(tots), k \in DOMAIN NoTotals : l.rec.agent = offices[i].agent =>
                    AmountOf(l, k) = SumOf(SelectSeq(Lines(file, "BOT93"), LAMBDA s :
                       s.rec.agent = l.rec.agent /\ s.rec.key[2] = l.rec.currency), LAMBDA s : AmountOf(s, k))
          /\ \A id \in {"BCT95", "BFT99"}, k \in DOMAIN NoTotals : \A l \in ToSet(Lines(file, id)) :
               AmountOf(l, k) = SumOf(SelectSeq(tots, LAMBDA m : m.rec.currency = l.rec.currency), LAMBDA m : AmountOf(m, k))
          /\ \A i \in 2..Len(file) : file[i].rec.id \in OfTransaction =>
               LET final == file[i + 1].rec.id \notin OfTransaction IN
               \A r \in Padded(file[i].rec) \cup {file[i].rec} :
               \A cut \in {Parse(Append(SubSeq(file, 1, i - 1), [seq |-> i, rec |-> r]))} :
                 /\ cut.ok = final
                 /\ final => \A o \in {Last(cut.offices)} : \A t \in {back.offices[Len(cut.offices)].txs[Len(o.txs)]} :
                      /\ \A f \in DOMAIN t \ {"payments"} : Last(o.txs)[f] = t[f]
                      /\ IsPrefix(Front(t.payments), Last(o.txs).payments)
          /\ \A txs \in {[i \in 1..Sales |-> Sold(offices)[i].t]} : \A ret \in {ParseRET(WriteRET(txs))} :
                 \A i \in 1..Len(txs) : OneSign(txs[i]) =>
                   /\ ret[i].total = Abs(txs[i].total) /\ ret[i].fare = Abs(txs[i].fare)
                   /\ ret[i].commission = Abs(txs[i].commission) /\ ret[i].coupons = txs[i].coupons

InHours(p, h) == p.report <= h /\ h < p.release
Flying(h) == \E i \in 1..Len(crew.flown) : \E l \in ToSet(crew.flown[i].legs) : l.depart <= h /\ h < l.arrive
OnFlightDuty(h) == \E p \in ToSet(crew.flown) : p.kind = "flight" /\ InHours(p, h)
Busy(h) == \E p \in ToSet(crew.flown) : InHours(p, h)

\* Hour by hour over everything flown: no stretch of consecutive hours, and no
\* run of calendar days up to one the last duty arrives on, holds more than its
\* limit, and every flight duty had its rest and its free time before it,
\* though Admits only looked at a few points and at a record that is trimmed.
CrewWithinLimits ==
    desk = "crew" =>
      LET flying == {h \in 0..FreeFrom : Flying(h)}
          onDuty == {h \in 0..FreeFrom : OnFlightDuty(h)}
          busy   == {h \in 0..FreeFrom : Busy(h)}
          held(c, from, to) == Cardinality((IF c.of = "flight" THEN flying ELSE onDuty) \cap (from..(to - 1)))
          flights == {p \in ToSet(crew.flown) : p.kind = "flight"}
          arrivals == IF crew.flown = <<>> THEN {} ELSE {l.arrive : l \in ToSet(Last(crew.flown).legs)}
      IN  /\ \A c \in Cumulative :
               IF c.days = 0 THEN \A t \in 1..FreeFrom : held(c, t - c.span, t) <= c.limit
               ELSE \A t \in arrivals : held(c, (t \div 24 + 1 - c.days) * 24, (t \div 24 + 1) * 24) <= c.limit
          /\ \A p \in flights :
               /\ busy \cap ((p.report - Rest)..(p.report - 1)) = {}
               /\ \E s \in (p.report - FreeWindow)..(p.report - FreeTime) : busy \cap (s..(s + FreeTime - 1)) = {}

Holding(p) == {p.segs[i].carrier : i \in {j \in 1..Len(p.segs) : D!segmentLive(p.segs[j].status)}}

\* After any number of divisions every traveller is on one record, with the
\* services and tickets that are theirs and nobody else's, a service of nobody's
\* on every record and a ticket of nobody's on one; the seats of a segment held
\* for everybody add up to what was held; and every carrier that holds something
\* of the newest record has been told which record it came from, is queued for a
\* person to tell or still to be told, unless the queue failed or the process
\* stopped (see CarriersKnow).
ServicesFollow ==
    desk = "divide" =>
      LET recs == halves.records
          owned(items, p) == \A x \in ToSet(items) : x.ref # 0 => x.ref <= Len(p.pax) /\ p.pax[x.ref] = x.of
          a == halves.advice
          has(items, whole, common) == \A x \in ToSet(whole) :
               Cardinality({i \in 1..Len(recs) : \E y \in ToSet(items[i]) : y.of = x.of})
                 = IF x.ref = 0 THEN common ELSE 1
      IN  /\ \A w \in ToSet(Booking.pax) :
               Cardinality({<<i, j>> \in (1..Len(recs)) \X (1..Len(Booking.pax)) :
                              j <= Len(recs[i].pax) /\ recs[i].pax[j] = w}) = 1
          /\ \A i \in 1..Len(recs) : owned(recs[i].ssrs, recs[i]) /\ owned(recs[i].tickets, recs[i])
          /\ has([i \in 1..Len(recs) |-> recs[i].ssrs], Booking.ssrs, Len(recs))
          /\ has([i \in 1..Len(recs) |-> recs[i].tickets], Booking.tickets, 1)
          /\ \A k \in 1..Len(Booking.segs) : Booking.segs[k].seats = Len(Booking.pax) =>
               SumOf(recs, LAMBDA p : p.segs[k].seats) = Booking.segs[k].seats
          /\ Len(recs) > 1 => \A c \in Holding(Last(recs)) :
               \/ c \in a.queued \cup ToSet(a.todo) \cup a.missed
               \/ \E m \in a.told :
                     /\ m.carrier = c /\ D!IsDivide(m.said)
                     /\ D!ParseDivide(m.said).locator = Last(recs).splitFrom
                     /\ D!ParseDivide(m.said).split = {Last(recs).locator}

\* adviseSplit "tells the carriers it can, and records the ones it cannot": once
\* it is over, every carrier of the new record was told or is on the divergence
\* queue.
CarriersKnow ==
    halves.advice.todo = <<>> => halves.advice.missed = {}

\* A passenger's coupon is valued at the fare that passenger was priced, also
\* on a record that has been divided.
FaresFollow ==
    \A p \in ToSet(halves.records) : \A i \in 1..Len(p.pax) : D!couponValue(p, i) \in {"none", p.pax[i]}

PlanOf(bags) == L!Planned(load.type, 170, 170, bags, load.dead, 300, 200)

\* Every kilo of bags and dead load is in a hold within its limit or named as
\* not fitting, and bags that some share fits are all loaded; containers stand
\* in positions of their own, hold what the bags of their compartments weigh
\* and, together, every bag; the load message reads back as the holds
\* and the distribution message adds up to them but for cargo beside containers.
LoadAccounted ==
    desk = "load" =>
      \A t \in {load.type} :
      \A l \in {PlanOf(load.bags)}, empty \in {PlanOf(<<>>)} :
      \A m \in {L!ParseLDM(L!BuildLDM(t, l))}, names \in {DOMAIN l.holds} :
      LET \* A container's compartment, whatever its position begins with.
          inHold(u, c) == u.position \in ToSet(c.positions)
          aft(c) == c.arm >= t.ref
          room(A(_)) == SumOf(SelectSeq(t.holds, A), LAMBDA c : c.max - empty.holds[c.name])
          share(k) == (l.bagKilos * k + 10) \div 20
      IN  /\ SumOf(SetToSeq(names), LAMBDA n : l.holds[n]) + SumOf(l.left, LAMBDA x : x) = l.bagKilos + load.dead
          /\ \A c \in ToSet(t.holds) : l.holds[c.name] <= c.max
          /\ (\E k \in 0..20 : /\ room(LAMBDA c : ~aft(c)) >= share(k)
                               /\ room(aft) >= l.bagKilos - share(k)) => l.left = <<l.left[1], 0, 0>>
          /\ IsInjective([i \in 1..Len(l.ulds) |-> l.ulds[i].position])
          /\ \A c \in ToSet(t.holds) : c.uld =>
               SumOf(SelectSeq(l.ulds, LAMBDA u : inHold(u, c)), LAMBDA u : u.weight)
                 = l.holds[c.name] - empty.holds[c.name]
          /\ l.ulds # <<>> => SumOf(l.ulds, LAMBDA u : u.bags) = l.bags /\ \A u \in ToSet(l.ulds) : u.bags >= 0
          /\ m.holds = l.holds /\ m.total = SumOf(SetToSeq(names), LAMBDA n : l.holds[n])
          \* Cargo under bags in a container hold is on no line of the CPM.
          /\ SumOf(L!BuildCPM(t, l), LAMBDA x : x.weight)
               = m.total - SumOf(t.holds, LAMBDA c : IF \E u \in ToSet(l.ulds) : inHold(u, c) THEN empty.holds[c.name] ELSE 0)

=============================================================================
