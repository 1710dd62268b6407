------------------------------- MODULE Divide -------------------------------
(***************************************************************************)
(* pnr.Divide, gateway.Split's two records and the advisory padis builds   *)
(* of them.  A passenger's reference is a place in the record's list; a    *)
(* service, a ticket and a fare each carry such a reference, 0 for the     *)
(* whole booking.  `of' says whose it is, which no code reads: it is what  *)
(* the reference ought to mean.                                            *)
(***************************************************************************)
EXTENDS Integers, Sequences, FiniteSets, SequencesExt

Dead == {"XX", "NO"}

-----------------------------------------------------------------------------
(* pkg/pnr *)

segmentLive(status) == status \notin Dead

\* Recompute: references are places, so only the status is left to derive.
Recompute(p) ==
    [p EXCEPT !.status = IF \A i \in 1..Len(p.segs) : ~segmentLive(p.segs[i].status) THEN "cancelled"
                         ELSE IF @ = "ticketed" THEN @ ELSE "open"]

seatShare(seats, share, total) ==
    CASE total <= 0 \/ seats <= 0 -> seats
      [] total > 0 /\ seats > 0 /\ seats = total -> share
      [] OTHER -> LET n == (seats * share) \div total IN IF n < 1 THEN 1 ELSE n

\* renumber: an old reference, among those kept together, to its new place.
renumber(refs) == [r \in refs |-> Cardinality({q \in refs : q <= r})]

\* Fault to inject: references stay what they were.
remapNothing(items, m) == items

remapPassengerRefs(items, m) ==
    [i \in 1..Len(items) |-> IF items[i].ref \in DOMAIN m THEN [items[i] EXCEPT !.ref = m[items[i].ref]]
                             ELSE items[i]]

\* The half of a record that a set of references makes, with what is its own.
\* A service of the whole booking is on both, a ticket of it stays.
Half(p, refs, own) ==
    LET places == SetToSortSeq(refs, <)
        m == renumber(refs)
    IN  Recompute([p EXCEPT
            !.pax = [i \in 1..Len(places) |-> p.pax[places[i]]],
            !.segs = [i \in 1..Len(p.segs) |->
                        [p.segs[i] EXCEPT !.seats = seatShare(@, Cardinality(refs), Len(p.pax))]],
            !.ssrs = remapPassengerRefs(SelectSeq(p.ssrs, LAMBDA x : x.ref \in own \cup {0}), m),
            !.tickets = remapPassengerRefs(SelectSeq(p.tickets, LAMBDA x : x.ref \in own), m)])

CanDivide(p, moving) ==
    /\ moving # {} /\ Cardinality(moving) < Len(p.pax)
    /\ moving \subseteq 1..Len(p.pax)

\* The child is a new record: only what Divide names is on it.
ChildOf(p, moving, locator) ==
    [Half(p, moving, moving) EXCEPT !.locator = locator, !.splitFrom = p.locator, !.splitTo = {}, !.pricing = <<>>]

\* The references there are, 0 of a ticket of nobody's too.
Named(p) == {x.ref : x \in ToSet(p.ssrs) \cup ToSet(p.tickets)}

ParentOf(p, moving, locator) ==
    [Half(p, (1..Len(p.pax)) \ moving, Named(p) \ moving) EXCEPT !.splitTo = @ \cup {locator}]

-----------------------------------------------------------------------------
(* pkg/padis: the advisory. *)

\* BuildDivide: both locators, how many moved, and what they hold here.
BuildDivide(parent, child, carrier) ==
    <<[tag |-> "RCI", locator |-> parent.locator]>>
    \o SelectSeq(<<[tag |-> "RCI", locator |-> parent.theirs]>>, LAMBDA s : s.locator # "")
    \o <<[tag |-> "EQN", n |-> Len(child.pax)], [tag |-> "RCI", locator |-> child.locator]>>
    \o LET held == SelectSeq(child.segs, LAMBDA s : s.carrier = carrier /\ s.status # "XX")
       IN  [i \in 1..Len(held) |-> [tag |-> "TVL", seats |-> held[i].seats, status |-> held[i].status]]

Find(m, tag) == {i \in 1..Len(m) : m[i].tag = tag}

IsDivide(m) == Find(m, "EQN") # {} /\ Cardinality(Find(m, "RCI")) >= 2

\* ParseDivide: the records named before the count, and after it.
ParseDivide(m) ==
    LET eqn == CHOOSE i \in Find(m, "EQN") : \A j \in Find(m, "EQN") : i <= j
        rci == Find(m, "RCI")
    IN  [n |-> m[eqn].n, locator |-> m[CHOOSE i \in rci : \A j \in rci : i <= j].locator,
         split |-> {m[i].locator : i \in {j \in rci : j > eqn}}]

-----------------------------------------------------------------------------
(* pkg/gateway *)

\* The carriers adviseSplit goes to.
Concerned(child) == {child.segs[i].carrier : i \in {j \in 1..Len(child.segs) : child.segs[j].status # "XX"}}

\* sendDivide cannot, whatever the link does.
Unreachable(carrier, format) == carrier \notin DOMAIN format \/ format[carrier] # "edifact"

\* couponValue: the fare of the first passenger price with that reference.
couponValue(p, ref) ==
    LET of == SelectSeq(p.pricing, LAMBDA x : x.ref = ref) IN IF of = <<>> THEN "none" ELSE of[1].of

=============================================================================
