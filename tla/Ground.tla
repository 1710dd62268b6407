------------------------------- MODULE Ground -------------------------------
(***************************************************************************)
(* Departure control of one flight (src/pkg/dcs): the name list and its    *)
(* amendments, acceptance, go-shows, boarding, offloading, the equipment   *)
(* change, closing and cancelling, bag reports, and another carrier's      *)
(* through check-in, which looks at the flight once and then accepts its   *)
(* passengers one call at a time.  Every operation of a Station holds its  *)
(* lock and ends by saving the whole flight, so it is one action; the save *)
(* may fail, and the process may stop and restore what was saved.          *)
(*                                                                         *)
(* Passengers are known by their position in the manifest (only go-shows   *)
(* refused at once leave it).  A cabin is the sequence of its seats, front *)
(* to back, each in a block of adjacent ones.  Weights, names and alerts   *)
(* are left out.                                                           *)
(***************************************************************************)
EXTENDS Integers, Sequences, SequencesExt, FiniteSets, FiniteSetsExt

CONSTANTS Layouts,      \* aircraft type -> its seats, Seq([seat, comp, block])
          Equipment,    \* the type a name list opens the flight with
          NameLists,    \* the PNL parts and ADLs reservations sends
          GoShows,      \* [class, cat, standby, seat] at the counter
          ThroughCalls, \* sequences of [party, nth, seat, bags] another carrier asks for
          SeatWishes,   \* seats agents may ask for, NoSeat among them
          NoSeat, None,
          MaxPax, MaxBags,
          MaxEvents     \* name lists, equipment changes, through calls and faults, together

Types == DOMAIN Layouts
Comps == {"C", "Y"}
Categories == {"list", "goshow", "norec", "staff"}

Seats == UNION {{Layouts[t][k].seat : k \in DOMAIN Layouts[t]} : t \in Types}

\* The keys of the parties; go-shows share one.
Parties ==
    {n.key : n \in UNION {ToSet(m.names) \cup ToSet(m.del) \cup ToSet(m.add) \cup ToSet(m.chg) : m \in NameLists}}
      \cup {"GOSHOW"}

\* A name item: the party's key, how many they are, and the class booked.
Name == [key : Parties, party : Nat, class : Comps]

\* Every aircraft has seats, and a designator is one seat.
ASSUME GroundAssumption ==
    /\ Equipment \in Types
    /\ \A t \in Types :
          /\ Layouts[t] \in Seq([seat : Seats, comp : Comps, block : Nat]) /\ Layouts[t] # <<>>
          /\ \A j, k \in DOMAIN Layouts[t] : Layouts[t][j].seat = Layouts[t][k].seat => j = k
    /\ \A m \in NameLists :
          /\ m.part \in Nat /\ m.final \in BOOLEAN
          /\ {m.names, m.del, m.add, m.chg} \subseteq Seq(Name)
    /\ \A g \in GoShows : g.class \in Comps /\ g.cat \in Categories
    /\ \A call \in ThroughCalls : call # <<>> /\ call \in Seq([party : STRING, nth : Nat, seat : Seats \cup {NoSeat}, bags : Nat])
    /\ None \notin Seats /\ NoSeat \notin Seats
    /\ SeatWishes \subseteq Seats \cup {NoSeat}
    /\ {MaxPax, MaxBags, MaxEvents} \subseteq Nat

VARIABLES fl,      \* the flight in the station's memory, or None
          doc,     \* the flight as last saved, or None
          tagSeq,  \* bag tags issued since the process started
          thr,     \* a through check-in under way: the passengers still to accept
          moved,   \* whether an equipment change has given somebody a new seat
          events

vars == <<fl, doc, tagSeq, thr, moved, events>>

Statuses == {"listed", "accepted", "boarded", "standby", "noshow", "offloaded", "deleted"}

Bag == [tag : Nat, loaded : BOOLEAN, off : BOOLEAN]

Passenger == [party : Parties, nth : Nat, comp : Comps, status : Statuses, cat : Categories,
              seat : Seats \cup {NoSeat}, seq : Nat, dropped : BOOLEAN,
              bags : SUBSET Bag]

Reports == {"NOSHO", "OFFLD", "GOSHO", "NOREC", "IDPAD"}

Closures == [etl : SUBSET Nat, pfs : SUBSET (Nat \X Reports), hold : SUBSET (Nat \X Nat)]

Flight == [type : Types, state : {"open", "checkin_closed", "closed"}, cancelled : BOOLEAN,
           pax : Seq(Passenger), occ : [Seats -> Nat], seen : SUBSET Nat, complete : BOOLEAN,
           nextSeq : Nat \ {0}, closure : Closures \cup {None}]

\* Whom a through check-in is to accept, 0 for nobody, the seat asked for and
\* the pieces declared.
Asked == [id : Nat, seat : Seats \cup {NoSeat}, bags : Nat]

\* None is no flight.
ASSUME NoneAssumption == None \notin Flight

TypeOK ==
    /\ fl \in Flight \cup {None}
    /\ doc \in Flight \cup {None}
    /\ tagSeq \in 0..MaxBags
    /\ thr \in [pc : {"idle", "ask", "any"}, todo : Seq(Asked)]
    /\ moved \in BOOLEAN
    /\ events \in 0..MaxEvents

Flying(p) == p.status \in {"accepted", "boarded"}

-----------------------------------------------------------------------------
(* The cabin. *)

\* The free seats of a compartment, by their places in the cabin.
FreeSeats(f, comp) ==
    {k \in DOMAIN Layouts[f.type] : /\ Layouts[f.type][k].comp = comp
                                    /\ f.occ[Layouts[f.type][k].seat] = 0}

FreeIn(f, comp, b) == {k \in FreeSeats(f, comp) : Layouts[f.type][k].block = b}

PlaceOf(type, s) == CHOOSE k \in DOMAIN Layouts[type] : Layouts[type][k].seat = s

Has(type, s) == \E k \in DOMAIN Layouts[type] : Layouts[type][k].seat = s

CompOf(type, s) == Layouts[type][PlaceOf(type, s)].comp

HasComp(type, comp) == \E k \in DOMAIN Layouts[type] : Layouts[type][k].comp = comp

\* A class falls to the other cabin when the aircraft does not have its own.
CompartmentFor(type, class) ==
    IF HasComp(type, class) THEN class ELSE CHOOSE c \in Comps : HasComp(type, c)

\* How many of S come before x, and the first n of S.
Before(S, x) == Cardinality({y \in S : y < x})
FirstOf(S, n) == {x \in S : Before(S, x) < n}

\* n seats: the first block with room for all of them, else the first free ones.
Assign(f, comp, n) ==
    LET free == FreeSeats(f, comp)
        room == {b \in {Layouts[f.type][k].block : k \in free} : Cardinality(FreeIn(f, comp, b)) >= n}
    IN  CASE room # {} -> FirstOf(FreeIn(f, comp, Min(room)), n)
          [] room = {} /\ Cardinality(free) >= n -> FirstOf(free, n)
          [] OTHER -> {}

\* Those of ids booked in a compartment, and the seats found for them.
Group(f, ids, comp) == {i \in ids : f.pax[i].comp = comp}
Found(f, ids, comp) == Assign(f, comp, Cardinality(Group(f, ids, comp)))

\* The first of a group gets the first seat found, and so on.
SeatFound(f, ids, i) ==
    LET found == Found(f, ids, f.pax[i].comp)
        nth == Before(Group(f, ids, f.pax[i].comp), i)
    IN  Layouts[f.type][CHOOSE k \in found : Before(found, k) = nth].seat

\* The seats of the passengers ids, all of them or None.
SeatsFor(f, ids, wish) ==
    IF wish # NoSeat
    THEN IF Has(f.type, wish) /\ f.occ[wish] = 0 THEN [i \in ids |-> wish] ELSE None
    ELSE IF \E c \in Comps : Cardinality(Found(f, ids, c)) < Cardinality(Group(f, ids, c)) THEN None
         ELSE [i \in ids |-> SeatFound(f, ids, i)]

\* accept: seats, sequence numbers in order, and the bags on the first of them.
AcceptedPax(f, ids, seats, bags, i) ==
    [f.pax[i] EXCEPT !.status = "accepted", !.seat = seats[i],
                     !.comp = CompOf(f.type, seats[i]),
                     !.seq = f.nextSeq + Before(ids, i),
                     !.bags = @ \cup IF i = Min(ids) THEN bags ELSE {}]

Accepted(f, ids, seats, bags) ==
    [f EXCEPT
       !.occ = [s \in Seats |-> IF \E i \in ids : seats[i] = s
                                THEN CHOOSE i \in ids : seats[i] = s ELSE @[s]],
       !.nextSeq = @ + Cardinality(ids),
       !.pax = [i \in DOMAIN @ |-> IF i \in ids THEN AcceptedPax(f, ids, seats, bags, i) ELSE @[i]]]

NewBags(n) == {[tag |-> tagSeq + k, loaded |-> FALSE, off |-> FALSE] : k \in 1..n}

OffloadedPax(p) ==
    [p EXCEPT !.status = "offloaded", !.bags = {[b EXCEPT !.off = TRUE] : b \in @}]

\* Fault to inject: the seat stays taken.
OffloadedSeated(f, ids) ==
    [f EXCEPT !.pax = [i \in DOMAIN @ |-> IF i \in ids THEN OffloadedPax(@[i]) ELSE @[i]]]

\* offload: the seats are freed and the bags are to come off.
Offloaded(f, ids) ==
    [f EXCEPT !.occ = [s \in Seats |-> IF \E i \in ids : f.pax[i].seat = s THEN 0 ELSE @[s]],
              !.pax = [i \in DOMAIN @ |-> IF i \in ids THEN OffloadedPax(@[i]) ELSE @[i]]]

-----------------------------------------------------------------------------
(* The name list. *)

open(type) ==
    [type |-> type, state |-> "open", cancelled |-> FALSE, pax |-> <<>>,
     occ |-> [s \in Seats |-> 0], seen |-> {}, complete |-> FALSE, nextSeq |-> 1,
     closure |-> None]

party(f, key) == {i \in DOMAIN f.pax : f.pax[i].party = key /\ f.pax[i].status # "deleted"}

gone(f, key) == {i \in DOMAIN f.pax : f.pax[i].party = key /\ f.pax[i].status = "deleted"}

\* A party still there is left alone; of one deleted the first member comes back.
addNames(f, n) ==
    LET comp == CompartmentFor(f.type, n.class)
    IN  CASE party(f, n.key) # {} -> f
          [] party(f, n.key) = {} /\ gone(f, n.key) # {} ->
               [f EXCEPT !.pax[Min(gone(f, n.key))] =
                            [@ EXCEPT !.status = "listed", !.comp = comp]]
          [] OTHER ->
               [f EXCEPT !.pax = @ \o [k \in 1..n.party |->
                   [party |-> n.key, nth |-> k, comp |-> comp, status |-> "listed",
                    cat |-> "list", seat |-> NoSeat, seq |-> 0, dropped |-> FALSE, bags |-> {}]]]

deleteNames(f, n) ==
    [f EXCEPT !.pax = [i \in DOMAIN @ |->
        CASE i \in party(f, n.key) /\ @[i].status \in {"listed", "standby"} ->
               [@[i] EXCEPT !.status = "deleted"]
          [] i \in party(f, n.key) /\ Flying(@[i]) -> [@[i] EXCEPT !.dropped = TRUE]
          [] OTHER -> @[i]]]

changeNames(f, n) ==
    IF party(f, n.key) = {} THEN addNames(f, n)
    ELSE [f EXCEPT !.pax = [i \in DOMAIN @ |->
             IF i \in party(f, n.key) /\ @[i].status = "listed"
             THEN [@[i] EXCEPT !.comp = CompartmentFor(f.type, n.class)] ELSE @[i]]]

amend(f, a) ==
    CASE a.want = "DEL" -> deleteNames(f, a.name)
      [] a.want = "ADD" -> addNames(f, a.name)
      [] a.want = "CHG" -> changeNames(f, a.name)

\* One name item after the other.
amendAll(f, items) ==
    LET after[k \in 0..Len(items)] == IF k = 0 THEN f ELSE amend(after[k - 1], items[k])
    IN  after[Len(items)]

Wanted(want, names) == [k \in DOMAIN names |-> [want |-> want, name |-> names[k]]]

\* Begun is acceptance: the list may no longer be replaced.
Begun(f) == \E i \in DOMAIN f.pax : f.pax[i].status \notin {"listed", "deleted"}

\* A repeated part, and a part after the final one, change nothing.
applyPNL(f, m) ==
    IF m.part \in f.seen \/ f.complete THEN f
    ELSE [amendAll(f, Wanted("ADD", m.names)) EXCEPT !.seen = @ \cup {m.part}, !.complete = m.final]

\* Deletions, then additions, then changes.
applyADL(f, m) ==
    amendAll(f, Wanted("DEL", m.del) \o Wanted("ADD", m.add) \o Wanted("CHG", m.chg))

-----------------------------------------------------------------------------
(* Saving.  An operation that succeeds has saved what it did; one whose     *)
(* save fails reports an error, and memory keeps the change.                *)

Event == events < MaxEvents /\ events' = events + 1

Save(f) ==
    \/ /\ fl' = f /\ doc' = f /\ UNCHANGED events
    \/ /\ fl' = f /\ Event /\ UNCHANGED doc

Idle == [pc |-> "idle", todo |-> <<>>]

Init ==
    /\ fl = None /\ doc = None
    /\ tagSeq = 0 /\ thr = Idle /\ moved = FALSE
    /\ events = 0

ApplyNameList(m) ==
    LET f == IF fl = None THEN open(Equipment) ELSE fl
        g == IF m.kind = "PNL" THEN applyPNL(f, m) ELSE applyADL(f, m)
    IN  /\ Event
        /\ f.state # "closed"
        /\ m.kind = "PNL" => ~Begun(f)
        /\ fl' = g /\ doc' \in {g, doc}
        /\ UNCHANGED <<tagSeq, thr, moved>>

-----------------------------------------------------------------------------
(* Acceptance. *)

\* resolve: one passenger, or those of a party still to be accepted.
Resolve(f, key) ==
    {i \in DOMAIN f.pax : f.pax[i].party = key /\ f.pax[i].status \in {"listed", "standby"}}

Waiting(i) == i \in DOMAIN fl.pax /\ fl.pax[i].status \in {"listed", "standby"}

MayAccept(f, force) == f # None /\ (f.state = "open" \/ (f.state = "checkin_closed" /\ force))

Take(ids, wish, n, force) ==
    /\ MayAccept(fl, force)
    /\ ids # {}
    /\ tagSeq + n <= MaxBags
    /\ SeatsFor(fl, ids, wish) # None
    /\ Save(Accepted(fl, ids, SeatsFor(fl, ids, wish), NewBags(n)))
    /\ tagSeq' = tagSeq + n

AcceptParty(key, n, force) ==
    /\ fl # None
    /\ Take(Resolve(fl, key), NoSeat, n, force)
    /\ UNCHANGED <<thr, moved>>

AcceptOne(i, wish, force) ==
    /\ fl # None /\ Waiting(i)
    /\ Take({i}, wish, 0, force)
    /\ UNCHANGED <<thr, moved>>

\* spare: the free seats that no listed passenger is owed.
spare(f, comp) ==
    Cardinality(FreeSeats(f, comp))
      - Cardinality({i \in DOMAIN f.pax : f.pax[i].status = "listed" /\ f.pax[i].comp = comp})

\* A go-show waits unless its cabin has a seat to spare.
AcceptGoShow(g) ==
    LET comp == CompartmentFor(fl.type, g.class)
        n == Len(fl.pax) + 1
        f == [fl EXCEPT !.pax = Append(@,
                [party |-> "GOSHOW", nth |-> n, comp |-> comp, status |-> "standby",
                 cat |-> g.cat, seat |-> NoSeat, seq |-> 0, dropped |-> FALSE, bags |-> {}])]
        waits == g.standby \/ g.cat = "staff" \/ spare(f, comp) <= 0
        seats == SeatsFor(f, {n}, g.seat)
    IN  /\ fl # None /\ fl.state = "open"
        /\ n <= MaxPax
        /\ ~waits /\ seats = None => g.seat = NoSeat   \* a seat refused is an error: nothing is kept
        /\ Save(IF waits \/ seats = None THEN f ELSE Accepted(f, {n}, seats, {}))
        /\ UNCHANGED <<tagSeq, thr, moved>>

Board(i) ==
    /\ fl # None /\ fl.state # "closed"
    /\ i \in DOMAIN fl.pax /\ fl.pax[i].status = "accepted"
    /\ Save([fl EXCEPT !.pax[i].status = "boarded"])
    /\ UNCHANGED <<tagSeq, thr, moved>>

Offload(i) ==
    /\ fl # None /\ fl.state # "closed"
    /\ i \in DOMAIN fl.pax /\ Flying(fl.pax[i])
    /\ Save(Offloaded(fl, {i}))
    /\ UNCHANGED <<tagSeq, thr, moved>>

-----------------------------------------------------------------------------
(* Closing. *)

StandBys(f) == {i \in DOMAIN f.pax : f.pax[i].status = "standby"}

\* Revenue passengers first, staff last, each in the order they presented.
NextStandBy(f, left) ==
    LET revenue == {i \in left : f.pax[i].cat # "staff"}
    IN  Min(IF revenue # {} THEN revenue ELSE left)

\* The next of those left to look at is accepted if there is a seat.
Clear(x) ==
    LET i == NextStandBy(x.f, x.left)
        seats == SeatsFor(x.f, {i}, NoSeat)
    IN  [f |-> IF seats = None THEN x.f ELSE Accepted(x.f, {i}, seats, {}), left |-> x.left \ {i}]

ClearAll(f) ==
    LET after[k \in 0..Cardinality(StandBys(f))] ==
            IF k = 0 THEN [f |-> f, left |-> StandBys(f)] ELSE Clear(after[k - 1])
    IN  after[Cardinality(StandBys(f))].f

closeCheckIn(f) ==
    IF f.state # "open" THEN f ELSE ClearAll([f EXCEPT !.state = "checkin_closed"])

CloseCheckIn ==
    /\ fl # None /\ fl.state # "closed"
    /\ Save(closeCheckIn(fl))
    /\ UNCHANGED <<tagSeq, thr, moved>>

\* The listed become no-shows, the accepted who did not board are offloaded.
Settled(f) ==
    LET g == Offloaded(f, {i \in DOMAIN f.pax : f.pax[i].status = "accepted"})
    IN  [g EXCEPT !.pax = [i \in DOMAIN @ |->
            IF @[i].status = "listed" THEN [@[i] EXCEPT !.status = "noshow"] ELSE @[i]]]

\* reconcile: bags loaded whose passenger did not board.
Unaccompanied(f) ==
    {i \in DOMAIN f.pax : f.pax[i].status # "boarded" /\ \E b \in f.pax[i].bags : b.loaded}

\* Those bags come off, so that the load never counts them.
PulledPax(p) ==
    IF p.status = "boarded" THEN p
    ELSE [p EXCEPT !.bags = {IF b.loaded THEN [b EXCEPT !.loaded = FALSE, !.off = TRUE] ELSE b : b \in @}]

Pulled(f) == [f EXCEPT !.pax = [i \in DOMAIN @ |-> PulledPax(@[i])]]

\* Fault to inject: an offloaded passenger goes unreported.
pfsCategoryOffless(p) ==
    CASE p.status = "noshow" -> "NOSHO"
      [] Flying(p) /\ (p.dropped \/ p.cat = "goshow") -> "GOSHO"
      [] Flying(p) /\ ~p.dropped /\ p.cat = "norec" -> "NOREC"
      [] OTHER -> ""

\* How the final sales message reports a passenger, "" when handled as listed.
pfsCategory(p) ==
    CASE p.status = "noshow" -> "NOSHO"
      [] p.status = "offloaded" -> "OFFLD"
      [] Flying(p) /\ (p.dropped \/ p.cat = "goshow") -> "GOSHO"
      [] Flying(p) /\ ~p.dropped /\ p.cat = "norec" -> "NOREC"
      [] Flying(p) /\ ~p.dropped /\ p.cat = "staff" -> "IDPAD"
      [] OTHER -> ""

BuildPFS(f) ==
    {<<i, pfsCategory(f.pax[i])>> : i \in {j \in DOMAIN f.pax : pfsCategory(f.pax[j]) # ""}}

BuildETL(f) == {i \in DOMAIN f.pax : f.pax[i].status = "boarded"}

\* Plan counts the bags of the boarded that are not to come off.
Hold(f) ==
    UNION {{<<i, b.tag>> : b \in {c \in f.pax[i].bags : ~c.off}} : i \in BuildETL(f)}

Closed(f) ==
    [Pulled(f) EXCEPT !.state = "closed",
        !.closure = [etl |-> BuildETL(f), pfs |-> BuildPFS(f), hold |-> Hold(Pulled(f))]]

\* Refused over unaccompanied bags, the offloads stand in memory and are not saved.
\* When the save fails the caller gets an error and no closure: the flight is closed
\* in memory and nothing is reported.
CloseFlight(force, reconciled) ==
    LET f == Settled(closeCheckIn(fl))
    IN  /\ fl # None /\ fl.state # "closed"
        /\ fl.state = "open" => force
        /\ IF reconciled /\ Unaccompanied(f) # {}
           THEN fl' = f /\ UNCHANGED <<doc, events>>
           ELSE \/ fl' = Closed(f) /\ doc' = Closed(f) /\ UNCHANGED events
                \/ fl' = [Closed(f) EXCEPT !.closure = None] /\ Event /\ UNCHANGED doc
        /\ UNCHANGED <<tagSeq, thr, moved>>

\* Everyone flying is offloaded; nobody becomes a no-show and nothing is reported.
CancelFlight ==
    LET f == Offloaded(fl, {i \in DOMAIN fl.pax : Flying(fl.pax[i])})
    IN  /\ fl # None /\ fl.state # "closed"
        /\ Save([f EXCEPT !.state = "closed", !.cancelled = TRUE])
        /\ UNCHANGED <<tagSeq, thr, moved>>

\* markLoaded: the first passenger with a bag of that tag, whatever the flight's state.
ApplyBagReport(tag) ==
    LET with == {i \in DOMAIN fl.pax : \E b \in fl.pax[i].bags : b.tag = tag}
    IN  /\ fl # None /\ with # {}
        /\ \E b \in fl.pax[Min(with)].bags : b.tag = tag /\ ~b.loaded
        /\ Save([fl EXCEPT !.pax[Min(with)].bags =
                   {IF b.tag = tag THEN [b EXCEPT !.loaded = TRUE] ELSE b : b \in @}])
        /\ UNCHANGED <<tagSeq, thr, moved>>

-----------------------------------------------------------------------------
(* The equipment change. *)

Holders(f) == {i \in DOMAIN f.pax : Flying(f.pax[i]) /\ f.pax[i].seat # NoSeat}

\* Seat holders, the boarded first, then in sequence.
NextHolder(f, left) ==
    LET boarded == {i \in left : f.pax[i].status = "boarded"}
        first == IF boarded # {} THEN boarded ELSE left
    IN  Min({i \in first : \A j \in first : f.pax[i].seq <= f.pax[j].seq})

\* Where a passenger of the compartment is sat: there, or in any.
AnyFree(f, comp) ==
    CASE FreeSeats(f, comp) # {} -> FreeSeats(f, comp)
      [] FreeSeats(f, comp) = {} /\ FreeSeats(f, "C") # {} -> FreeSeats(f, "C")
      [] OTHER -> FreeSeats(f, "Y")

\* A seat of the same cabin is kept and taken.  Another one is written down
\* and not taken in the new seat map (equipment.go:89), so that the next
\* passenger is found the same one.  Without any, the passenger stands by.
Reseated(old, g, i) ==
    LET seat == g.pax[i].seat
        want == CompOf(old, seat)
        any == AnyFree(g, want)
    IN  CASE Has(g.type, seat) /\ CompOf(g.type, seat) = want /\ g.occ[seat] = 0 ->
               [g EXCEPT !.occ[seat] = i]
          [] ~(Has(g.type, seat) /\ CompOf(g.type, seat) = want /\ g.occ[seat] = 0) /\ any = {} ->
               [g EXCEPT !.pax[i] = [@ EXCEPT !.seat = NoSeat, !.status = "standby"]]
          [] OTHER -> [g EXCEPT !.pax[i].seat = Layouts[g.type][Min(any)].seat]

Reseat(old, x) ==
    LET i == NextHolder(x.f, x.left)
    IN  [f |-> Reseated(old, x.f, i), left |-> x.left \ {i}]

\* The flight f in an empty aircraft of the type, its holders sat one after the other.
Reequipped(f, type) ==
    LET bare == [f EXCEPT !.type = type, !.occ = [s \in Seats |-> 0]]
        after[k \in 0..Cardinality(Holders(f))] ==
            IF k = 0 THEN [f |-> bare, left |-> Holders(f)] ELSE Reseat(f.type, after[k - 1])
    IN  after[Cardinality(Holders(f))].f

ChangeEquipment(type) ==
    LET f == Reequipped(fl, type)
    IN  /\ fl # None /\ fl.state # "closed"
        /\ Event
        /\ fl' = f /\ doc' \in {f, doc}
        /\ moved' = (moved \/ \E i \in DOMAIN f.pax :
                        Flying(f.pax[i]) /\ f.occ[f.pax[i].seat] # i)
        /\ UNCHANGED <<tagSeq, thr>>

-----------------------------------------------------------------------------
(* Through check-in, and stopping. *)

findListed(f, q) ==
    {i \in DOMAIN f.pax : /\ f.pax[i].party = q.party
                          /\ q.nth \in {0, f.pax[i].nth}
                          /\ f.pax[i].status \in {"listed", "standby"}}

\* Everyone asked for is looked up in one snapshot, before the first is accepted.
ThroughCheckIn(call) ==
    /\ thr = Idle /\ Event
    /\ fl # None /\ fl.state # "closed"
    /\ thr' = [pc |-> "ask",
               todo |-> [k \in DOMAIN call |->
                   [id |-> IF findListed(fl, call[k]) = {} THEN 0 ELSE Min(findListed(fl, call[k])),
                    seat |-> call[k].seat, bags |-> call[k].bags]]]
    /\ UNCHANGED <<fl, doc, tagSeq, moved>>

ThroughNext ==
    thr' = IF Len(thr.todo) > 1 THEN [pc |-> "ask", todo |-> Tail(thr.todo)] ELSE Idle

\* Its Accept calls; a seat that is gone is asked for again as any seat.
ThroughAccept ==
    LET q == Head(thr.todo)
        wish == IF thr.pc = "any" THEN NoSeat ELSE q.seat
        may == q.id # 0 /\ MayAccept(fl, FALSE) /\ Waiting(q.id)
    IN  /\ thr.pc # "idle"
        /\ \/ /\ may /\ Take({q.id}, wish, q.bags, FALSE)
              /\ ThroughNext
           \/ /\ may /\ SeatsFor(fl, {q.id}, wish) = None /\ wish # NoSeat
              /\ thr' = [thr EXCEPT !.pc = "any"]
              /\ UNCHANGED <<fl, doc, tagSeq, events>>
           \/ /\ ~may \/ (wish = NoSeat /\ SeatsFor(fl, {q.id}, wish) = None)
              /\ ThroughNext
              /\ UNCHANGED <<fl, doc, tagSeq, events>>
        /\ UNCHANGED moved

\* LoadFlight: sequence numbers go on from the highest, the seat map from the seats held.
Restored(d) ==
    LET highest == Max({d.pax[i].seq : i \in DOMAIN d.pax} \cup {0})
    IN  [d EXCEPT !.nextSeq = highest + 1,
                  !.occ = [s \in Seats |-> Max({i \in DOMAIN d.pax :
                              Flying(d.pax[i]) /\ d.pax[i].seat = s} \cup {0})]]

\* The process stops; the next one restores.  Tag numbers start again.
Restore ==
    /\ Event
    /\ fl' = IF doc = None THEN None ELSE Restored(doc)
    /\ tagSeq' = 0 /\ thr' = Idle
    /\ UNCHANGED <<doc, moved>>

Next ==
    \/ \E m \in NameLists : ApplyNameList(m)
    \/ \E k \in Parties, n \in 0..1, force \in BOOLEAN : AcceptParty(k, n, force)
    \/ \E i \in 1..MaxPax, w \in SeatWishes, force \in BOOLEAN : AcceptOne(i, w, force)
    \/ \E g \in GoShows : AcceptGoShow(g)
    \/ \E i \in 1..MaxPax : Board(i) \/ Offload(i)
    \/ CloseCheckIn
    \/ \E force, reconciled \in BOOLEAN : CloseFlight(force, reconciled)
    \/ CancelFlight
    \/ \E tag \in 1..MaxBags : ApplyBagReport(tag)
    \/ \E t \in Types : ChangeEquipment(t)
    \/ \E call \in ThroughCalls : ThroughCheckIn(call)
    \/ ThroughAccept
    \/ Restore

Spec == Init /\ [][Next]_vars

-----------------------------------------------------------------------------
(* Properties. *)

\* The seat map and the passengers agree, through acceptance, offloading,
\* closing, restarts and amendments: whoever is flying holds a seat of the
\* aircraft that the map gives to nobody else, and the map gives no seat to
\* someone who has left.  Only an equipment change that re-seats breaks it.
SeatsAgree ==
    fl # None /\ ~moved =>
      /\ \A i \in DOMAIN fl.pax : Flying(fl.pax[i]) =>
            Has(fl.type, fl.pax[i].seat) /\ fl.occ[fl.pax[i].seat] = i
      /\ \A s \in Seats : fl.occ[s] # 0 =>
            Flying(fl.pax[fl.occ[s]]) /\ fl.pax[fl.occ[s]].seat = s

\* No two passengers fly in one seat (equipment.go:21-26: the passenger is
\* re-seated, or stands by "when the new cabin has no seat left for them").
OneSeatEach ==
    fl # None => \A i, j \in DOMAIN fl.pax :
        Flying(fl.pax[i]) /\ Flying(fl.pax[j]) /\ i # j => fl.pax[i].seat # fl.pax[j].seat

\* What CloseFlight handed over to be sent still adds up whatever arrives
\* afterwards: the ticket list is those on board, the hold holds bags of
\* theirs alone, and everybody who was expected and is not on board was
\* reported to reservations (standby and deleted passengers excepted).  A
\* close that failed handed over nothing and is not a closure.
ClosureAddsUp ==
    fl # None /\ fl.closure # None =>
      /\ fl.closure.etl = {i \in DOMAIN fl.pax : fl.pax[i].status = "boarded"}
      /\ \A h \in fl.closure.hold : h[1] \in fl.closure.etl
      /\ \A i \in DOMAIN fl.pax \ fl.closure.etl :
            fl.pax[i].status \in {"standby", "deleted"} \/ \E c \in fl.closure.pfs : c[1] = i

\* A flight that closed, and was not cancelled, has been reported
\* (docs/flows.md:201, the PFS follows the door's closing).  It has not when
\* the save failed: CloseFlight returns no closure then (checkin.go:609), and
\* refuses to close the flight again (checkin.go:548).
ClosedReported ==
    fl # None /\ fl.state = "closed" /\ ~fl.cancelled => fl.closure # None

\* As long as check-in is open, somebody the name list did not carry is
\* accepted only while every listed passenger of that cabin still has a seat
\* to come to (checkin.go:258-261).  AcceptGoShow sees to it for the cabin
\* booked; Accept, of a go-show who stands by, and a seat asked for in another
\* cabin do not.
GoShowsWait ==
    [][fl # None /\ fl' # None /\ fl'.state = "open" /\ fl'.nextSeq > fl.nextSeq =>
         \A n \in DOMAIN fl'.pax :
            fl'.pax[n].cat # "list" /\ Flying(fl'.pax[n]) /\ fl'.pax[n].seq >= fl.nextSeq
              => spare(fl', fl'.pax[n].comp) >= 0]_vars

=============================================================================
