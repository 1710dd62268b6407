----------------------------- MODULE GroundProofs -----------------------------
(***************************************************************************)
(* Departure control, for every aircraft, every name list, any number of   *)
(* passengers, bags, restarts and failed saves.                            *)
(***************************************************************************)
EXTENDS Ground, FiniteSetTheorems, WellFoundedInduction, NaturalsInduction, TLAPS

-----------------------------------------------------------------------------
(* Numbers in order. *)

(* A set of naturals has a least element, and Min is one. *)
LEMMA MinIn ==
    ASSUME NEW S \in SUBSET Nat, S # {}
    PROVE  Min(S) \in S /\ \A y \in S : Min(S) <= y
  <1> DEFINE R == OpToRel(<, Nat)
  <1>1. IsWellFoundedOn(R, Nat)
    BY NatLessThanWellFounded
  <1>2. \A x, y \in Nat : <<x, y>> \in R <=> x < y
    BY DEF OpToRel
  <1> HIDE DEF R
  <1>3. PICK x \in S : \A y \in S : ~(<<y, x>> \in R)
    BY <1>1, WFMin
  <1>4. ASSUME NEW y \in S PROVE x <= y
    <2>1. x \in Nat /\ y \in Nat /\ ~(<<y, x>> \in R)
      BY <1>3
    <2>2. ~(y < x)
      BY <1>2, <2>1, Zenon
    <2> QED
      BY <2>1, <2>2
  <1> QED
    BY <1>4 DEF Min

(* How many members of a finite set of numbers come before one of them     *)
(* tells them apart, and every count below their number is met.            *)
LEMMA Ranks ==
    ASSUME NEW S \in SUBSET Nat, IsFiniteSet(S)
    PROVE  /\ Cardinality(S) \in Nat
           /\ \A x \in S : Before(S, x) \in Nat /\ Before(S, x) < Cardinality(S)
           /\ \A x, y \in S : x < y => Before(S, x) < Before(S, y)
           /\ \A x, y \in S : Before(S, x) = Before(S, y) => x = y
           /\ \A n \in Nat : n < Cardinality(S) => \E x \in S : Before(S, x) = n
  <1> DEFINE n == Cardinality(S)
             below(x) == {y \in S : y < x}
             rank == [x \in S |-> Before(S, x)]
  <1>1. n \in Nat
    BY FS_CardinalityType
  <1>2. ASSUME NEW x \in S
        PROVE  /\ IsFiniteSet(below(x)) /\ Before(S, x) = Cardinality(below(x))
               /\ Before(S, x) \in Nat /\ Before(S, x) < n
    <2>1. below(x) \in SUBSET S /\ x \notin below(x)
      OBVIOUS
    <2>2. IsFiniteSet(below(x)) /\ Cardinality(below(x)) <= n /\ Cardinality(below(x)) # n
      BY <2>1, FS_Subset
    <2>3. Cardinality(below(x)) \in Nat
      BY <2>2, FS_CardinalityType
    <2> QED
      BY <1>1, <2>2, <2>3 DEF Before
  <1>3. ASSUME NEW x \in S, NEW y \in S, x < y
        PROVE  Before(S, x) < Before(S, y)
    <2>1. below(x) \in SUBSET below(y) /\ x \in below(y) /\ x \notin below(x)
      <3>1. \A z \in S : z < x => z < y
        BY <1>3
      <3>2. x < y /\ ~(x < x)
        BY <1>3
      <3> QED
        BY <3>1, <3>2
    <2>2. IsFiniteSet(below(x)) /\ IsFiniteSet(below(y))
      BY <1>2
    <2>3. Cardinality(below(x)) <= Cardinality(below(y)) /\ Cardinality(below(x)) # Cardinality(below(y))
      BY <2>1, <2>2, FS_Subset
    <2> HIDE DEF below
    <2> QED
      BY <1>2, <2>3
  <1>4. \A x, y \in S : Before(S, x) = Before(S, y) => x = y
    <2> SUFFICES ASSUME NEW x \in S, NEW y \in S, x # y PROVE Before(S, x) # Before(S, y)
      OBVIOUS
    <2>1. x < y \/ y < x
      OBVIOUS
    <2>2. Before(S, x) \in Nat /\ Before(S, y) \in Nat
      BY <1>2
    <2> QED
      BY <1>3, <2>1, <2>2
  <1> HIDE DEF below
  <1>5. \A m \in Nat : m < n => \E x \in S : Before(S, x) = m
    <2>1. rank \in [S -> 0..(n - 1)]
      <3>1. \A x \in S : Before(S, x) \in 0..(n - 1)
        BY <1>1, <1>2
      <3> QED
        BY <3>1
    <2>2. rank \in Injection(S, 0..(n - 1))
      BY <1>4, <2>1 DEF Injection, IsInjective
    <2>3. IsFiniteSet(0..(n - 1)) /\ Cardinality(0..(n - 1)) = n
      <3>1. n - 1 \in Int /\ 0 \in Int
        BY <1>1
      <3>2. IsFiniteSet(0..(n - 1)) /\ Cardinality(0..(n - 1)) = IF 0 > n - 1 THEN 0 ELSE (n - 1) - 0 + 1
        BY <3>1, FS_Interval
      <3> QED
        BY <1>1, <3>2
    <2>4. rank \in Surjection(S, 0..(n - 1))
      BY <2>2, <2>3, FS_Injection
    <2>5. \A m \in 0..(n - 1) : \E x \in S : rank[x] = m
      <3> HIDE DEF rank
      <3> QED
        BY <2>4 DEF Surjection
    <2>6. ASSUME NEW m \in Nat, m < n PROVE m \in 0..(n - 1)
      BY <1>1, <2>6
    <2> QED
      BY <2>5, <2>6
  <1> QED
    BY <1>1, <1>2, <1>3, <1>4, <1>5

(* A finite set of naturals that has an element has a greatest one: the    *)
(* one all others come before.                                             *)
LEMMA MaxIn ==
    ASSUME NEW S \in SUBSET Nat, IsFiniteSet(S), S # {}
    PROVE  Max(S) \in S /\ \A y \in S : y <= Max(S)
  <1> DEFINE n == Cardinality(S)
  <1>1. n \in Nat /\ n # 0
    BY FS_CardinalityType, FS_EmptySet
  <1>2. n - 1 \in Nat /\ n - 1 < n
    BY <1>1
  <1>3. PICK x \in S : Before(S, x) = n - 1
    <2> HIDE DEF n
    <2> QED
      BY <1>2, Ranks DEF n
  <1>4. ASSUME NEW y \in S PROVE y <= x
    <2> SUFFICES ASSUME x < y PROVE FALSE
      OBVIOUS
    <2>1. Before(S, x) < Before(S, y) /\ Before(S, y) \in Nat /\ Before(S, y) < n
      BY Ranks
    <2> HIDE DEF n
    <2> QED
      BY <1>1, <1>3, <2>1
  <1>5. \A y \in S : x >= y
    BY <1>4
  <1> QED
    BY <1>5 DEF Max

-----------------------------------------------------------------------------
(* The cabin. *)

(* What a sequence is. *)
LEMMA SeqIs ==
    ASSUME NEW T, NEW s \in Seq(T)
    PROVE  /\ Len(s) \in Nat /\ DOMAIN s = 1..Len(s) /\ DOMAIN s \in SUBSET Nat
           /\ IsFiniteSet(DOMAIN s) /\ \A k \in DOMAIN s : s[k] \in T
  <1>1. Len(s) \in Nat /\ DOMAIN s = 1..Len(s)
    OBVIOUS
  <1>2. IsFiniteSet(DOMAIN s)
    BY <1>1, FS_Interval
  <1> QED
    BY <1>1, <1>2

(* The places of an aircraft are numbered, and each is a seat of a         *)
(* compartment.                                                            *)
LEMMA Cabin ==
    ASSUME NEW t \in Types
    PROVE  /\ DOMAIN Layouts[t] \in SUBSET Nat /\ DOMAIN Layouts[t] # {}
           /\ IsFiniteSet(DOMAIN Layouts[t])
           /\ \A k \in DOMAIN Layouts[t] :
                 /\ Layouts[t][k].seat \in Seats /\ Layouts[t][k].comp \in Comps
                 /\ Layouts[t][k].block \in Nat
  <1>1. Layouts[t] \in Seq([seat : Seats, comp : Comps, block : Nat]) /\ Layouts[t] # <<>>
    BY GroundAssumption
  <1>2. PICK L : L = Layouts[t]
    OBVIOUS
  <1>3. /\ L \in Seq([seat : Seats, comp : Comps, block : Nat]) /\ Len(L) # 0
    BY <1>1, <1>2
  <1>4. /\ DOMAIN L = 1..Len(L) /\ Len(L) \in Nat /\ DOMAIN L \in SUBSET Nat /\ IsFiniteSet(DOMAIN L)
        /\ \A k \in DOMAIN L : L[k] \in [seat : Seats, comp : Comps, block : Nat]
    BY <1>3, SeqIs
  <1>5. 1 \in DOMAIN L
    BY <1>3, <1>4
  <1>6. \A k \in DOMAIN L : L[k].seat \in Seats /\ L[k].comp \in Comps /\ L[k].block \in Nat
    BY <1>4
  <1> QED
    BY <1>2, <1>4, <1>5, <1>6

(* A designator is one place. *)
LEMMA PlaceIs ==
    ASSUME NEW t \in Types
    PROVE  /\ \A s : Has(t, s) => /\ PlaceOf(t, s) \in DOMAIN Layouts[t]
                                  /\ Layouts[t][PlaceOf(t, s)].seat = s
                                  /\ s \in Seats /\ CompOf(t, s) \in Comps
           /\ \A k \in DOMAIN Layouts[t] :
                 /\ Has(t, Layouts[t][k].seat)
                 /\ PlaceOf(t, Layouts[t][k].seat) = k
                 /\ CompOf(t, Layouts[t][k].seat) = Layouts[t][k].comp
  <1>1. ASSUME NEW s, Has(t, s)
        PROVE  /\ PlaceOf(t, s) \in DOMAIN Layouts[t]
               /\ Layouts[t][PlaceOf(t, s)].seat = s
    BY <1>1 DEF Has, PlaceOf
  <1>2. ASSUME NEW s, Has(t, s) PROVE s \in Seats /\ CompOf(t, s) \in Comps
    BY <1>1, <1>2, Cabin DEF CompOf
  <1>3. \A k \in DOMAIN Layouts[t] : Has(t, Layouts[t][k].seat)
    BY DEF Has
  <1>4. ASSUME NEW k \in DOMAIN Layouts[t]
        PROVE  PlaceOf(t, Layouts[t][k].seat) = k
    <2>1. \A j \in DOMAIN Layouts[t] : Layouts[t][j].seat = Layouts[t][k].seat => j = k
      BY GroundAssumption
    <2> QED
      BY <1>1, <1>3, <2>1
  <1> QED
    BY <1>1, <1>2, <1>3, <1>4 DEF CompOf

(* CompartmentFor finds a compartment of the aircraft. *)
LEMMA CompartmentIs ==
    ASSUME NEW t \in Types, NEW class \in Comps
    PROVE  CompartmentFor(t, class) \in Comps
  <1>1. PICK k \in DOMAIN Layouts[t] : Layouts[t][k].comp \in Comps
    BY Cabin
  <1>2. \E c \in Comps : HasComp(t, c)
    BY <1>1 DEF HasComp
  <1> QED
    BY <1>2 DEF CompartmentFor

(* Assign finds free seats of the compartment. *)
LEMMA AssignIn ==
    ASSUME NEW f, f.type \in Types, NEW comp, NEW n
    PROVE  /\ Assign(f, comp, n) \in SUBSET FreeSeats(f, comp)
           /\ FreeSeats(f, comp) \in SUBSET DOMAIN Layouts[f.type]
           /\ IsFiniteSet(FreeSeats(f, comp)) /\ IsFiniteSet(Assign(f, comp, n))
           /\ FreeSeats(f, comp) \in SUBSET Nat
  <1> DEFINE free == FreeSeats(f, comp)
             room == {b \in {Layouts[f.type][k].block : k \in free} : Cardinality(FreeIn(f, comp, b)) >= n}
  <1>1. free \in SUBSET DOMAIN Layouts[f.type]
    BY DEF FreeSeats
  <1>2. IsFiniteSet(free) /\ free \in SUBSET Nat
    BY <1>1, Cabin, FS_Subset
  <1>3. \A b : FreeIn(f, comp, b) \in SUBSET free
    BY DEF FreeIn
  <1>4. \A S, m : FirstOf(S, m) \in SUBSET S
    BY DEF FirstOf
  <1>5. Assign(f, comp, n) \in SUBSET free
    <2>1. \/ \E b : Assign(f, comp, n) = FirstOf(FreeIn(f, comp, b), n)
          \/ Assign(f, comp, n) = FirstOf(free, n)
          \/ Assign(f, comp, n) = {}
      <3> HIDE DEF free
      <3>1. CASE room # {}
        BY <3>1 DEF Assign, free
      <3>2. CASE room = {} /\ Cardinality(free) >= n
        BY <3>2 DEF Assign, free
      <3>3. CASE room = {} /\ ~(Cardinality(free) >= n)
        BY <3>3 DEF Assign, free
      <3> QED
        BY <3>1, <3>2, <3>3
    <2> HIDE DEF free
    <2> QED
      BY <1>3, <1>4, <2>1
  <1> QED
    BY <1>1, <1>2, <1>5, FS_Subset

(* Seats found for passengers: free ones of the aircraft, a different one  *)
(* for each, and in the passenger's compartment if none was asked for.     *)
SeatsFit(f, ids, seats) ==
    /\ \A i \in ids : Has(f.type, seats[i]) /\ f.occ[seats[i]] = 0
    /\ \A i, j \in ids : seats[i] = seats[j] => i = j

(* Seats accept finds are free, of the aircraft and one for each           *)
(* passenger.                                                              *)
LEMMA SeatsForFit ==
    ASSUME NEW f, f.type \in Types, NEW ids \in SUBSET Nat, IsFiniteSet(ids), NEW wish,
           \A i \in ids : f.pax[i].comp \in Comps,
           wish # NoSeat => \A i, j \in ids : i = j,
           SeatsFor(f, ids, wish) # None
    PROVE  /\ SeatsFit(f, ids, SeatsFor(f, ids, wish))
           /\ wish = NoSeat => \A i \in ids :
                 CompOf(f.type, SeatsFor(f, ids, wish)[i]) = f.pax[i].comp
  <1>1. CASE wish # NoSeat
    <2>1. Has(f.type, wish) /\ f.occ[wish] = 0 /\ SeatsFor(f, ids, wish) = [i \in ids |-> wish]
      BY <1>1 DEF SeatsFor
    <2> QED
      BY <1>1, <2>1 DEF SeatsFit
  <1>2. CASE wish = NoSeat
    <2> DEFINE seats == SeatsFor(f, ids, wish)
    <2>1. /\ seats = [i \in ids |-> SeatFound(f, ids, i)]
          /\ \A c \in Comps : ~(Cardinality(Found(f, ids, c)) < Cardinality(Group(f, ids, c)))
      BY <1>2 DEF SeatsFor
    <2> DEFINE place(i) == CHOOSE k \in Found(f, ids, f.pax[i].comp) :
                               Before(Found(f, ids, f.pax[i].comp), k) = Before(Group(f, ids, f.pax[i].comp), i)
    <2>2. ASSUME NEW i \in ids
          PROVE  /\ place(i) \in Found(f, ids, f.pax[i].comp)
                 /\ Before(Found(f, ids, f.pax[i].comp), place(i)) = Before(Group(f, ids, f.pax[i].comp), i)
      <3>1. PICK c : c = f.pax[i].comp /\ c \in Comps
        OBVIOUS
      <3>2. PICK G : G = Group(f, ids, c)
        OBVIOUS
      <3>3. PICK T : T = Found(f, ids, c)
        OBVIOUS
      <3>4. G \in SUBSET ids /\ i \in G
        BY <3>1, <3>2 DEF Group
      <3>5. G \in SUBSET Nat /\ IsFiniteSet(G)
        BY <3>4, FS_Subset
      <3>6. T \in SUBSET Nat /\ IsFiniteSet(T)
        BY <3>3, AssignIn DEF Found
      <3>7. Before(G, i) \in Nat /\ Before(G, i) < Cardinality(G) /\ Cardinality(G) \in Nat
        BY <3>4, <3>5, Ranks
      <3>8. Cardinality(T) \in Nat /\ ~(Cardinality(T) < Cardinality(G))
        BY <2>1, <3>1, <3>2, <3>3, <3>6, FS_CardinalityType
      <3>9. Before(G, i) < Cardinality(T)
        BY <3>7, <3>8
      <3>10. \E k \in T : Before(T, k) = Before(G, i)
        BY <3>6, <3>7, <3>9, Ranks
      <3> QED
        BY <3>1, <3>2, <3>3, <3>10
    <2>3. ASSUME NEW i \in ids
          PROVE  seats[i] = Layouts[f.type][place(i)].seat
      BY <2>1 DEF SeatFound
    <2> HIDE DEF place, seats
    <2>4. ASSUME NEW i \in ids
          PROVE  /\ place(i) \in DOMAIN Layouts[f.type]
                 /\ Layouts[f.type][place(i)].comp = f.pax[i].comp
                 /\ f.occ[Layouts[f.type][place(i)].seat] = 0
      <3>1. place(i) \in FreeSeats(f, f.pax[i].comp)
        BY <2>2, AssignIn DEF Found
      <3> QED
        BY <3>1 DEF FreeSeats
    <2>5. ASSUME NEW i \in ids
          PROVE  Has(f.type, seats[i]) /\ f.occ[seats[i]] = 0 /\ CompOf(f.type, seats[i]) = f.pax[i].comp
      BY <2>3, <2>4, PlaceIs
    <2>6. ASSUME NEW i \in ids, NEW j \in ids, seats[i] = seats[j]
          PROVE  i = j
      <3>1. place(i) = place(j)
        <4>1. PlaceOf(f.type, Layouts[f.type][place(i)].seat) = place(i)
          BY <2>4, PlaceIs
        <4>2. PlaceOf(f.type, Layouts[f.type][place(j)].seat) = place(j)
          BY <2>4, PlaceIs
        <4> QED
          BY <2>3, <2>6, <4>1, <4>2
      <3>2. PICK c : c = f.pax[i].comp /\ c = f.pax[j].comp
        BY <2>4, <3>1
      <3>3. PICK G : G = Group(f, ids, c)
        OBVIOUS
      <3>4. G \in SUBSET ids /\ i \in G /\ j \in G
        BY <3>2, <3>3 DEF Group
      <3>5. G \in SUBSET Nat /\ IsFiniteSet(G)
        BY <3>4, FS_Subset
      <3>6. Before(G, i) = Before(G, j)
        BY <2>2, <3>1, <3>2, <3>3
      <3> QED
        BY <3>4, <3>5, <3>6, Ranks
    <2> QED
      BY <1>2, <2>5, <2>6 DEF SeatsFit, seats
  <1> QED
    BY <1>1, <1>2

-----------------------------------------------------------------------------
(* A flight in order. *)

(* Whoever is flying has a seat of the aircraft. *)
Seated(f) == \A i \in DOMAIN f.pax : Flying(f.pax[i]) => Has(f.type, f.pax[i].seat)

(* The seat map gives everyone who is flying their seat, and no other.     *)
Agree(f) ==
    /\ \A i \in DOMAIN f.pax : Flying(f.pax[i]) => f.occ[f.pax[i].seat] = i
    /\ \A s \in Seats : f.occ[s] # 0 =>
          f.occ[s] \in DOMAIN f.pax /\ Flying(f.pax[f.occ[s]]) /\ f.pax[f.occ[s]].seat = s

(* ok: the seat map is still to be trusted. *)
Fine(f, ok) == f \in Flight /\ Seated(f) /\ (ok => Agree(f))

(* The fields of a flight. *)
LEMMA FlightIs ==
    ASSUME NEW f \in Flight
    PROVE  /\ f.type \in Types /\ f.state \in {"open", "checkin_closed", "closed"} /\ f.cancelled \in BOOLEAN
           /\ f.pax \in Seq(Passenger) /\ f.occ \in [Seats -> Nat] /\ f.seen \in SUBSET Nat
           /\ f.complete \in BOOLEAN /\ f.nextSeq \in Nat \ {0} /\ f.closure \in Closures \cup {None}
           /\ Len(f.pax) \in Nat /\ DOMAIN f.pax = 1..Len(f.pax) /\ DOMAIN f.pax \in SUBSET Nat
           /\ IsFiniteSet(DOMAIN f.pax) /\ \A i \in DOMAIN f.pax : f.pax[i] \in Passenger
  <1>1. /\ f.type \in Types /\ f.state \in {"open", "checkin_closed", "closed"} /\ f.cancelled \in BOOLEAN
        /\ f.pax \in Seq(Passenger) /\ f.occ \in [Seats -> Nat] /\ f.seen \in SUBSET Nat
        /\ f.complete \in BOOLEAN /\ f.nextSeq \in Nat \ {0} /\ f.closure \in Closures \cup {None}
    BY DEF Flight
  <1>2. /\ Len(f.pax) \in Nat /\ DOMAIN f.pax = 1..Len(f.pax) /\ DOMAIN f.pax \in SUBSET Nat
        /\ IsFiniteSet(DOMAIN f.pax) /\ \A i \in DOMAIN f.pax : f.pax[i] \in Passenger
    <2>1. PICK p : p = f.pax
      OBVIOUS
    <2>2. p \in Seq(Passenger)
      BY <1>1, <2>1
    <2> QED
      BY <2>1, <2>2, SeqIs
  <1> QED
    BY <1>1, <1>2

(* The manifest with its passengers changed is a manifest. *)
LEMMA PaxLike ==
    ASSUME NEW f \in Flight, NEW p, p \in [DOMAIN f.pax -> Passenger]
    PROVE  p \in Seq(Passenger) /\ DOMAIN p = DOMAIN f.pax /\ Len(p) = Len(f.pax)
  <1>1. PICK n \in Nat : DOMAIN f.pax = 1..n /\ Len(f.pax) = n
    BY FlightIs
  <1>2. p \in [1..n -> Passenger]
    BY <1>1
  <1>3. p \in Seq(Passenger) /\ Len(p) = n /\ DOMAIN p = 1..n
    BY <1>2
  <1> QED
    BY <1>1, <1>3

(* Who is in a seat once the passengers ids have theirs. *)
Holder(f, ids, seats, s) ==
    IF \E i \in ids : seats[i] = s THEN CHOOSE i \in ids : seats[i] = s ELSE f.occ[s]

(* What accept does: the rest of the flight stays as it is. *)
AcceptedAs(f, ids, seats, g) ==
    /\ g \in Flight /\ g.type = f.type /\ g.state = f.state /\ g.closure = f.closure
    /\ DOMAIN g.pax = DOMAIN f.pax /\ Len(g.pax) = Len(f.pax)
    /\ \A i \in DOMAIN f.pax \ ids : g.pax[i] = f.pax[i]
    /\ \A i \in ids : /\ g.pax[i].status = "accepted" /\ g.pax[i].seat = seats[i]
                      /\ g.pax[i].comp = CompOf(f.type, seats[i])
                      /\ g.pax[i].party = f.pax[i].party
    /\ \A s \in Seats : g.occ[s] = Holder(f, ids, seats, s)

(* It does, for seats that fit. *)
LEMMA AcceptedIs ==
    ASSUME NEW f \in Flight, NEW ids \in SUBSET DOMAIN f.pax, NEW seats, SeatsFit(f, ids, seats),
           NEW bags \in SUBSET Bag, NEW g, g = Accepted(f, ids, seats, bags)
    PROVE  AcceptedAs(f, ids, seats, g)
  <1>1. /\ f.type \in Types /\ f.occ \in [Seats -> Nat] /\ f.nextSeq \in Nat \ {0}
        /\ DOMAIN f.pax \in SUBSET Nat /\ IsFiniteSet(DOMAIN f.pax)
    BY FlightIs
  <1>2. ids \in SUBSET Nat /\ IsFiniteSet(ids) /\ Cardinality(ids) \in Nat
    BY <1>1, FS_Subset, FS_CardinalityType
  <1>3. ASSUME NEW i \in ids
        PROVE  /\ AcceptedPax(f, ids, seats, bags, i) \in Passenger
               /\ AcceptedPax(f, ids, seats, bags, i).status = "accepted"
               /\ AcceptedPax(f, ids, seats, bags, i).seat = seats[i]
               /\ AcceptedPax(f, ids, seats, bags, i).comp = CompOf(f.type, seats[i])
               /\ AcceptedPax(f, ids, seats, bags, i).party = f.pax[i].party
    <2>1. PICK p \in Passenger : p = f.pax[i]
      BY FlightIs
    <2>2. PICK s \in Seats : s = seats[i]
      BY <1>1, PlaceIs DEF SeatsFit
    <2>3. PICK c \in Comps : c = CompOf(f.type, seats[i])
      BY <1>1, PlaceIs DEF SeatsFit
    <2>4. PICK q \in Nat : q = f.nextSeq + Before(ids, i)
      <3>1. Before(ids, i) \in Nat
        BY <1>2, Ranks
      <3> QED
        BY <1>1, <3>1
    <2>5. PICK bs \in SUBSET Bag : bs = p.bags \cup IF i = Min(ids) THEN bags ELSE {}
      BY <2>1 DEF Passenger
    <2>6. AcceptedPax(f, ids, seats, bags, i)
            = [p EXCEPT !.status = "accepted", !.seat = s, !.comp = c, !.seq = q, !.bags = bs]
      BY <2>1, <2>2, <2>3, <2>4, <2>5 DEF AcceptedPax
    <2>7. /\ [p EXCEPT !.status = "accepted", !.seat = s, !.comp = c, !.seq = q, !.bags = bs] \in Passenger
          /\ [p EXCEPT !.status = "accepted", !.seat = s, !.comp = c, !.seq = q, !.bags = bs].status = "accepted"
          /\ [p EXCEPT !.status = "accepted", !.seat = s, !.comp = c, !.seq = q, !.bags = bs].seat = s
          /\ [p EXCEPT !.status = "accepted", !.seat = s, !.comp = c, !.seq = q, !.bags = bs].comp = c
          /\ [p EXCEPT !.status = "accepted", !.seat = s, !.comp = c, !.seq = q, !.bags = bs].party = p.party
      BY DEF Passenger, Statuses
    <2> QED
      BY <2>1, <2>2, <2>3, <2>6, <2>7
  <1>4. PICK pax : pax = [i \in DOMAIN f.pax |->
                             IF i \in ids THEN AcceptedPax(f, ids, seats, bags, i) ELSE f.pax[i]]
    OBVIOUS
  <1>5. pax \in Seq(Passenger) /\ DOMAIN pax = DOMAIN f.pax /\ Len(pax) = Len(f.pax)
    <2>1. \A i \in DOMAIN f.pax : f.pax[i] \in Passenger
      BY FlightIs
    <2>2. pax \in [DOMAIN f.pax -> Passenger]
      BY <1>3, <1>4, <2>1
    <2> QED
      BY <2>2, PaxLike
  <1>6. PICK occ : occ = [s \in Seats |-> IF \E i \in ids : seats[i] = s
                                          THEN CHOOSE i \in ids : seats[i] = s ELSE f.occ[s]]
    OBVIOUS
  <1>7. occ \in [Seats -> Nat]
    BY <1>1, <1>2, <1>6
  <1>8. PICK n \in Nat \ {0} : n = f.nextSeq + Cardinality(ids)
    BY <1>1, <1>2
  <1>9. g = [f EXCEPT !.occ = occ, !.nextSeq = n, !.pax = pax]
    BY <1>4, <1>6, <1>8 DEF Accepted
  <1>10. /\ g \in Flight /\ g.type = f.type /\ g.state = f.state /\ g.closure = f.closure
         /\ g.pax = pax /\ g.occ = occ
    BY <1>5, <1>7, <1>9 DEF Flight
  <1> QED
    BY <1>3, <1>4, <1>5, <1>6, <1>10 DEF Holder, AcceptedAs

(* For passengers who are not flying, it leaves the flight in order. *)
LEMMA AcceptedFine ==
    ASSUME NEW f, NEW ok, Fine(f, ok), NEW ids \in SUBSET DOMAIN f.pax, NEW seats, SeatsFit(f, ids, seats),
           \A i \in ids : ~Flying(f.pax[i]), NEW bags \in SUBSET Bag, NEW g, g = Accepted(f, ids, seats, bags)
    PROVE  Fine(g, ok)
  <1>1. f \in Flight /\ Seated(f)
    BY DEF Fine
  <1>0. AcceptedAs(f, ids, seats, g)
    BY <1>1, AcceptedIs, Zenon
  <1>2. /\ g \in Flight /\ g.type = f.type /\ DOMAIN g.pax = DOMAIN f.pax
        /\ \A i \in DOMAIN f.pax \ ids : g.pax[i] = f.pax[i]
        /\ \A i \in ids : g.pax[i].status = "accepted" /\ g.pax[i].seat = seats[i]
        /\ \A s \in Seats : g.occ[s] = Holder(f, ids, seats, s)
    BY <1>0 DEF AcceptedAs
  <1>3. \A i \in ids : Has(f.type, seats[i]) /\ seats[i] \in Seats /\ f.occ[seats[i]] = 0
    <2>1. f.type \in Types
      BY <1>1, FlightIs
    <2> QED
      BY <2>1, PlaceIs DEF SeatsFit
  <1>4. Seated(g)
    BY <1>1, <1>2, <1>3 DEF Seated
  <1>5. ASSUME ok PROVE Agree(g)
    <2>1. Agree(f) /\ DOMAIN f.pax \in SUBSET Nat /\ 0 \notin DOMAIN f.pax
      BY <1>1, <1>5, FlightIs DEF Fine
    <2>2. ASSUME NEW i \in ids PROVE g.occ[seats[i]] = i /\ Flying(g.pax[i])
      <3>1. \A j \in ids : seats[j] = seats[i] => j = i
        BY DEF SeatsFit
      <3> QED
        BY <1>2, <1>3, <3>1 DEF Flying, Holder
    <2>3. ASSUME NEW i \in DOMAIN f.pax \ ids, Flying(f.pax[i])
          PROVE  g.pax[i] = f.pax[i] /\ f.pax[i].seat \in Seats /\ g.occ[f.pax[i].seat] = i
      <3>1. f.pax[i].seat \in Seats
        <4>1. f.type \in Types /\ Has(f.type, f.pax[i].seat)
          BY <1>1, <2>3, FlightIs DEF Seated
        <4> QED
          BY <4>1, PlaceIs
      <3>2. f.occ[f.pax[i].seat] = i /\ i # 0
        BY <2>1, <2>3 DEF Agree
      <3>3. \A j \in ids : seats[j] # f.pax[i].seat
        BY <1>3, <3>2
      <3> QED
        BY <1>2, <3>1, <3>2, <3>3 DEF Holder
    <2>4. ASSUME NEW i \in DOMAIN g.pax, Flying(g.pax[i]) PROVE g.occ[g.pax[i].seat] = i
      BY <1>2, <2>2, <2>3, <2>4
    <2>5. ASSUME NEW s \in Seats, g.occ[s] # 0
          PROVE  g.occ[s] \in DOMAIN g.pax /\ Flying(g.pax[g.occ[s]]) /\ g.pax[g.occ[s]].seat = s
      <3>1. CASE \E i \in ids : seats[i] = s
        <4>1. PICK i \in ids : seats[i] = s
          BY <3>1
        <4> QED
          BY <1>2, <2>2, <4>1
      <3>2. CASE ~\E i \in ids : seats[i] = s
        <4>1. g.occ[s] = f.occ[s]
          BY <1>2, <3>2 DEF Holder
        <4>2. f.occ[s] \in DOMAIN f.pax /\ Flying(f.pax[f.occ[s]]) /\ f.pax[f.occ[s]].seat = s
          BY <2>1, <2>5, <4>1 DEF Agree
        <4>3. f.occ[s] \notin ids
          BY <4>2
        <4> QED
          BY <1>2, <4>1, <4>2, <4>3
      <3> QED
        BY <3>1, <3>2
    <2> QED
      BY <2>4, <2>5 DEF Agree
  <1> QED
    BY <1>2, <1>4, <1>5 DEF Fine

(* Nobody's seat changes: whoever flies flew before, in the seat they had, *)
(* and new passengers do not fly.                                          *)
SeatsStay(f, g) ==
    /\ g \in Flight /\ g.type = f.type /\ g.occ = f.occ
    /\ DOMAIN f.pax \subseteq DOMAIN g.pax
    /\ \A i \in DOMAIN f.pax : /\ Flying(g.pax[i]) <=> Flying(f.pax[i])
                               /\ Flying(f.pax[i]) => g.pax[i].seat = f.pax[i].seat
    /\ \A i \in DOMAIN g.pax \ DOMAIN f.pax : ~Flying(g.pax[i])

(* A flight stays in order when nobody's seat changes and nobody new       *)
(* flies.                                                                  *)
LEMMA SeatsStayFine ==
    ASSUME NEW f, NEW g, NEW ok, Fine(f, ok), SeatsStay(f, g)
    PROVE  Fine(g, ok)
  <1>1. Seated(g)
    BY DEF Fine, SeatsStay, Seated
  <1>2. ok => Agree(g)
    BY DEF Fine, SeatsStay, Agree
  <1> QED
    BY <1>1, <1>2 DEF Fine, SeatsStay

(* What offload does. *)
OffloadedAs(f, ids, g) ==
    /\ g \in Flight /\ g.type = f.type /\ g.state = f.state /\ g.closure = f.closure
    /\ DOMAIN g.pax = DOMAIN f.pax /\ Len(g.pax) = Len(f.pax)
    /\ \A i \in DOMAIN f.pax \ ids : g.pax[i] = f.pax[i]
    /\ \A i \in ids : g.pax[i].status = "offloaded"
    /\ \A s \in Seats : g.occ[s] = IF \E i \in ids : f.pax[i].seat = s THEN 0 ELSE f.occ[s]

(* offload frees the seats of those it names and leaves everybody else     *)
(* alone.                                                                  *)
LEMMA OffloadedIs ==
    ASSUME NEW f \in Flight, NEW ids \in SUBSET DOMAIN f.pax, NEW g, g = Offloaded(f, ids)
    PROVE  OffloadedAs(f, ids, g)
  <1>1. ASSUME NEW p \in Passenger
        PROVE  OffloadedPax(p) \in Passenger /\ OffloadedPax(p).status = "offloaded"
    <2>1. PICK bs : bs = {[b EXCEPT !.off = TRUE] : b \in p.bags}
      OBVIOUS
    <2>2. bs \in SUBSET Bag
      <3>1. \A b \in Bag : [b EXCEPT !.off = TRUE] \in Bag
        BY DEF Bag
      <3>2. p.bags \in SUBSET Bag
        BY DEF Passenger
      <3> QED
        BY <2>1, <3>1, <3>2
    <2>3. OffloadedPax(p) = [p EXCEPT !.status = "offloaded", !.bags = bs]
      BY <2>1 DEF OffloadedPax
    <2> QED
      BY <2>2, <2>3 DEF Passenger, Statuses
  <1>2. PICK pax : pax = [i \in DOMAIN f.pax |-> IF i \in ids THEN OffloadedPax(f.pax[i]) ELSE f.pax[i]]
    OBVIOUS
  <1>3. \A i \in DOMAIN f.pax : f.pax[i] \in Passenger
    BY FlightIs
  <1>4. pax \in [DOMAIN f.pax -> Passenger]
    BY <1>1, <1>2, <1>3
  <1>5. pax \in Seq(Passenger) /\ DOMAIN pax = DOMAIN f.pax /\ Len(pax) = Len(f.pax)
    BY <1>4, PaxLike
  <1>6. PICK occ : occ = [s \in Seats |-> IF \E i \in ids : f.pax[i].seat = s THEN 0 ELSE f.occ[s]]
    OBVIOUS
  <1>7. occ \in [Seats -> Nat]
    <2>1. f.occ \in [Seats -> Nat]
      BY FlightIs
    <2> QED
      BY <1>6, <2>1
  <1>8. g = [f EXCEPT !.occ = occ, !.pax = pax]
    BY <1>2, <1>6 DEF Offloaded
  <1>9. /\ g \in Flight /\ g.type = f.type /\ g.state = f.state /\ g.closure = f.closure
        /\ g.pax = pax /\ g.occ = occ
    BY <1>5, <1>7, <1>8 DEF Flight
  <1> QED
    BY <1>1, <1>2, <1>3, <1>5, <1>6, <1>9 DEF OffloadedAs

(* Offloading those who are flying leaves the flight in order. *)
LEMMA OffloadedFine ==
    ASSUME NEW f, NEW ok, Fine(f, ok), NEW ids \in SUBSET DOMAIN f.pax,
           \A i \in ids : Flying(f.pax[i]), NEW g, g = Offloaded(f, ids)
    PROVE  Fine(g, ok)
  <1>1. f \in Flight /\ Seated(f)
    BY DEF Fine
  <1>2. OffloadedAs(f, ids, g)
    BY <1>1, OffloadedIs, Zenon
  <1>3. Seated(g)
    BY <1>1, <1>2 DEF Seated, OffloadedAs, Flying
  <1>4. ASSUME ok PROVE Agree(g)
    <2>1. Agree(f)
      BY <1>4 DEF Fine
    <2>2. ASSUME NEW i \in DOMAIN g.pax, Flying(g.pax[i]) PROVE g.occ[g.pax[i].seat] = i
      <3>1. i \in DOMAIN f.pax \ ids /\ g.pax[i] = f.pax[i]
        BY <1>2, <2>2 DEF OffloadedAs, Flying
      <3>2. f.pax[i].seat \in Seats
        <4>1. f.type \in Types /\ Has(f.type, f.pax[i].seat)
          BY <1>1, <2>2, <3>1, FlightIs DEF Seated
        <4> QED
          BY <4>1, PlaceIs
      <3>3. f.occ[f.pax[i].seat] = i /\ \A j \in ids : f.pax[j].seat # f.pax[i].seat
        BY <2>1, <2>2, <3>1 DEF Agree
      <3> QED
        BY <1>2, <3>1, <3>2, <3>3 DEF OffloadedAs
    <2>3. ASSUME NEW s \in Seats, g.occ[s] # 0
          PROVE  g.occ[s] \in DOMAIN g.pax /\ Flying(g.pax[g.occ[s]]) /\ g.pax[g.occ[s]].seat = s
      <3>1. g.occ[s] = f.occ[s] /\ ~\E i \in ids : f.pax[i].seat = s
        BY <1>2, <2>3 DEF OffloadedAs
      <3>2. f.occ[s] \in DOMAIN f.pax /\ Flying(f.pax[f.occ[s]]) /\ f.pax[f.occ[s]].seat = s
        BY <2>1, <2>3, <3>1 DEF Agree
      <3>3. f.occ[s] \in DOMAIN f.pax \ ids
        BY <3>1, <3>2
      <3> QED
        BY <1>2, <3>1, <3>2, <3>3 DEF OffloadedAs
    <2> QED
      BY <2>2, <2>3 DEF Agree
  <1> QED
    BY <1>2, <1>3, <1>4 DEF Fine, OffloadedAs

-----------------------------------------------------------------------------
(* The name list. *)

(* What amendments do: nobody's seat, nor the state of the flight. *)
NamesAs(f, g) ==
    /\ SeatsStay(f, g) /\ g.state = f.state /\ g.closure = f.closure
    /\ Len(f.pax) <= Len(g.pax)

(* The flight g is f with the passengers p. *)
Rewritten(f, p, g) == g = [f EXCEPT !.pax = p]

(* The flight is one with those passengers and its other fields as they    *)
(* were.                                                                   *)
LEMMA RewrittenIs ==
    ASSUME NEW f \in Flight, NEW p \in Seq(Passenger), NEW g, Rewritten(f, p, g)
    PROVE  /\ g \in Flight /\ g.type = f.type /\ g.state = f.state /\ g.closure = f.closure
           /\ g.occ = f.occ /\ g.pax = p
  BY DEF Rewritten, Flight

(* Passengers added or changed who neither fly nor flew, or keep their     *)
(* seats.                                                                  *)
LEMMA RewrittenNames ==
    ASSUME NEW f \in Flight, NEW p \in Seq(Passenger), NEW g, Rewritten(f, p, g),
           DOMAIN f.pax \subseteq DOMAIN p, Len(f.pax) <= Len(p),
           \A i \in DOMAIN f.pax : /\ Flying(p[i]) <=> Flying(f.pax[i])
                                   /\ Flying(f.pax[i]) => p[i].seat = f.pax[i].seat,
           \A i \in DOMAIN p \ DOMAIN f.pax : ~Flying(p[i])
    PROVE  NamesAs(f, g)
  BY RewrittenIs DEF NamesAs, SeatsStay

(* Two amendments in a row amend. *)
LEMMA NamesThen ==
    ASSUME NEW f \in Flight, NEW g, NEW h, NamesAs(f, g), NamesAs(g, h)
    PROVE  NamesAs(f, h)
  <1>1. g \in Flight /\ h \in Flight
    BY DEF NamesAs, SeatsStay
  <1>2. Len(f.pax) \in Nat /\ Len(g.pax) \in Nat /\ Len(h.pax) \in Nat
    BY <1>1, FlightIs
  <1>3. SeatsStay(f, h)
    BY DEF NamesAs, SeatsStay
  <1> QED
    BY <1>2, <1>3 DEF NamesAs

(* An amendment may change nothing (a repeated addition). *)
LEMMA NamesSelf ==
    ASSUME NEW f \in Flight
    PROVE  NamesAs(f, f)
  BY FlightIs DEF NamesAs, SeatsStay

(* deleteNames takes nobody's seat: whoever flies is marked and goes on    *)
(* flying.                                                                 *)
LEMMA DeleteIs ==
    ASSUME NEW f \in Flight, NEW n
    PROVE  NamesAs(f, deleteNames(f, n))
  <1> DEFINE new(i) == CASE i \in party(f, n.key) /\ f.pax[i].status \in {"listed", "standby"} ->
                              [f.pax[i] EXCEPT !.status = "deleted"]
                         [] i \in party(f, n.key) /\ Flying(f.pax[i]) -> [f.pax[i] EXCEPT !.dropped = TRUE]
                         [] OTHER -> f.pax[i]
  <1>1. PICK p : p = [i \in DOMAIN f.pax |-> new(i)]
    OBVIOUS
  <1>2. ASSUME NEW i \in DOMAIN f.pax
        PROVE  /\ new(i) \in Passenger /\ (Flying(new(i)) <=> Flying(f.pax[i]))
               /\ new(i).seat = f.pax[i].seat
    <2>1. PICK q \in Passenger : q = f.pax[i]
      BY FlightIs
    <2>2. \/ new(i) = [q EXCEPT !.status = "deleted"] /\ q.status \in {"listed", "standby"}
          \/ new(i) = [q EXCEPT !.dropped = TRUE]
          \/ new(i) = q
      BY <2>1
    <2> HIDE DEF new
    <2> QED
      BY <2>1, <2>2 DEF Passenger, Flying, Statuses
  <1> HIDE DEF new
  <1>3. p \in [DOMAIN f.pax -> Passenger]
    BY <1>1, <1>2
  <1>4. p \in Seq(Passenger) /\ DOMAIN p = DOMAIN f.pax /\ Len(p) = Len(f.pax)
    BY <1>3, PaxLike
  <1>5. Rewritten(f, p, deleteNames(f, n))
    BY <1>1 DEF Rewritten, deleteNames, new
  <1>6. Len(f.pax) <= Len(p)
    BY <1>4, FlightIs
  <1>7. \A i \in DOMAIN f.pax : /\ Flying(p[i]) <=> Flying(f.pax[i])
                                /\ Flying(f.pax[i]) => p[i].seat = f.pax[i].seat
    BY <1>1, <1>2
  <1>8. DOMAIN f.pax \subseteq DOMAIN p /\ \A i \in DOMAIN p \ DOMAIN f.pax : ~Flying(p[i])
    BY <1>4
  <1> QED
    BY <1>4, <1>5, <1>6, <1>7, <1>8, RewrittenNames, Zenon

(* addNames adds and reinstates passengers who do not fly yet. *)
LEMMA AddIs ==
    ASSUME NEW f \in Flight, NEW n \in Name
    PROVE  NamesAs(f, addNames(f, n))
  <1>1. n.key \in Parties /\ n.party \in Nat /\ n.class \in Comps
    BY DEF Name
  <1>2. PICK comp \in Comps : comp = CompartmentFor(f.type, n.class)
    BY <1>1, FlightIs, CompartmentIs
  <1>3. CASE party(f, n.key) # {}
    BY <1>3, NamesSelf DEF addNames
  <1>4. CASE party(f, n.key) = {} /\ gone(f, n.key) # {}
    <2>1. gone(f, n.key) \in SUBSET DOMAIN f.pax /\ DOMAIN f.pax \in SUBSET Nat
      BY FlightIs DEF gone
    <2>2. PICK m : m = Min(gone(f, n.key))
      OBVIOUS
    <2>3. m \in gone(f, n.key)
      BY <1>4, <2>1, <2>2, MinIn
    <2>4. m \in DOMAIN f.pax /\ f.pax[m].status = "deleted"
      BY <2>3 DEF gone
    <2>5. PICK q \in Passenger : q = f.pax[m]
      BY <2>4, FlightIs
    <2>6. PICK r : r = [q EXCEPT !.status = "listed", !.comp = comp]
      OBVIOUS
    <2>7. r \in Passenger /\ ~Flying(r) /\ ~Flying(q)
      BY <2>4, <2>5, <2>6 DEF Passenger, Statuses, Flying
    <2>8. PICK p : p = [f.pax EXCEPT ![m] = r]
      OBVIOUS
    <2>9. \A i \in DOMAIN f.pax : f.pax[i] \in Passenger
      BY FlightIs
    <2>10. p \in [DOMAIN f.pax -> Passenger] /\ p[m] = r /\ \A i \in DOMAIN f.pax : i # m => p[i] = f.pax[i]
      <3>1. f.pax \in Seq(Passenger)
        BY FlightIs
      <3> QED
        BY <2>4, <2>7, <2>8, <2>9, <3>1
    <2>11. p \in Seq(Passenger) /\ DOMAIN p = DOMAIN f.pax /\ Len(p) = Len(f.pax)
      BY <2>10, PaxLike
    <2>12. Rewritten(f, p, addNames(f, n))
      BY <1>2, <1>4, <2>2, <2>5, <2>6, <2>8 DEF Rewritten, addNames
    <2>13. Len(f.pax) <= Len(p)
      BY <2>11, FlightIs
    <2>14. \A i \in DOMAIN f.pax : /\ Flying(p[i]) <=> Flying(f.pax[i])
                                   /\ Flying(f.pax[i]) => p[i].seat = f.pax[i].seat
      BY <2>5, <2>7, <2>10
    <2>15. DOMAIN f.pax \subseteq DOMAIN p /\ \A i \in DOMAIN p \ DOMAIN f.pax : ~Flying(p[i])
      BY <2>11
    <2> QED
      BY <2>11, <2>12, <2>13, <2>14, <2>15, RewrittenNames, Zenon
  <1>5. CASE party(f, n.key) = {} /\ ~(gone(f, n.key) # {})
    <2>1. PICK a : a = [k \in 1..n.party |->
                   [party |-> n.key, nth |-> k, comp |-> comp, status |-> "listed",
                    cat |-> "list", seat |-> NoSeat, seq |-> 0, dropped |-> FALSE, bags |-> {}]]
      OBVIOUS
    <2>2. ASSUME NEW k \in 1..n.party PROVE a[k] \in Passenger /\ ~Flying(a[k])
      BY <1>1, <2>1 DEF Passenger, Statuses, Categories, Flying
    <2>3. a \in [1..n.party -> Passenger]
      BY <2>1, <2>2
    <2>4. a \in Seq(Passenger) /\ Len(a) = n.party
      BY <1>1, <2>3
    <2>5. PICK old \in Seq(Passenger) : old = f.pax
      BY FlightIs
    <2>6. PICK p : p = old \o a
      OBVIOUS
    <2>7. /\ p \in Seq(Passenger) /\ Len(p) = Len(old) + n.party
          /\ DOMAIN p = 1..(Len(old) + n.party) /\ DOMAIN old = 1..Len(old)
          /\ \A i \in DOMAIN p : p[i] = IF i <= Len(old) THEN old[i] ELSE a[i - Len(old)]
      <3>1. p \in Seq(Passenger) /\ Len(p) = Len(old) + Len(a)
        BY <2>4, <2>6
      <3>2. DOMAIN p = 1..Len(p) /\ DOMAIN old = 1..Len(old) /\ Len(old) \in Nat
        BY <3>1
      <3>3. \A i \in 1..(Len(old) + Len(a)) : p[i] = IF i <= Len(old) THEN old[i] ELSE a[i - Len(old)]
        BY <2>4, <2>6
      <3> QED
        BY <2>4, <3>1, <3>2, <3>3
    <2>8. Rewritten(f, p, addNames(f, n))
      BY <1>2, <1>5, <2>1, <2>5, <2>6 DEF Rewritten, addNames
    <2>9. Len(old) \in Nat /\ Len(f.pax) <= Len(p) /\ DOMAIN f.pax \subseteq DOMAIN p
      BY <1>1, <2>5, <2>7
    <2>10. \A i \in DOMAIN f.pax : p[i] = f.pax[i]
      BY <2>5, <2>7, <2>9
    <2>11. ASSUME NEW i \in DOMAIN p \ DOMAIN f.pax PROVE ~Flying(p[i])
      <3>1. i - Len(old) \in 1..n.party /\ p[i] = a[i - Len(old)]
        BY <1>1, <2>5, <2>7, <2>9
      <3> QED
        BY <2>2, <3>1
    <2>12. \A i \in DOMAIN f.pax : /\ Flying(p[i]) <=> Flying(f.pax[i])
                                   /\ Flying(f.pax[i]) => p[i].seat = f.pax[i].seat
      BY <2>10
    <2> QED
      BY <2>7, <2>8, <2>9, <2>11, <2>12, RewrittenNames
  <1> QED
    BY <1>3, <1>4, <1>5

(* changeNames moves only those who are listed to another compartment. *)
LEMMA ChangeIs ==
    ASSUME NEW f \in Flight, NEW n \in Name
    PROVE  NamesAs(f, changeNames(f, n))
  <1>1. PICK comp \in Comps : comp = CompartmentFor(f.type, n.class)
    <2>1. n.class \in Comps
      BY DEF Name
    <2> QED
      BY <2>1, FlightIs, CompartmentIs
  <1>2. CASE party(f, n.key) = {}
    BY <1>2, AddIs DEF changeNames
  <1>3. CASE party(f, n.key) # {}
    <2>1. PICK p : p = [i \in DOMAIN f.pax |-> IF i \in party(f, n.key) /\ f.pax[i].status = "listed"
                                               THEN [f.pax[i] EXCEPT !.comp = comp] ELSE f.pax[i]]
      OBVIOUS
    <2>2. ASSUME NEW i \in DOMAIN f.pax
          PROVE  p[i] \in Passenger /\ p[i].status = f.pax[i].status /\ p[i].seat = f.pax[i].seat
      <3>1. PICK q \in Passenger : q = f.pax[i]
        BY FlightIs
      <3>2. p[i] = q \/ p[i] = [q EXCEPT !.comp = comp]
        BY <2>1, <3>1
      <3> QED
        BY <3>1, <3>2 DEF Passenger
    <2>3. p \in [DOMAIN f.pax -> Passenger]
      BY <2>1, <2>2
    <2>4. p \in Seq(Passenger) /\ DOMAIN p = DOMAIN f.pax /\ Len(p) = Len(f.pax)
      BY <2>3, PaxLike
    <2>5. Rewritten(f, p, changeNames(f, n))
      BY <1>1, <1>3, <2>1 DEF Rewritten, changeNames
    <2>6. Len(f.pax) <= Len(p)
      BY <2>4, FlightIs
    <2>7. \A i \in DOMAIN f.pax : /\ Flying(p[i]) <=> Flying(f.pax[i])
                                  /\ Flying(f.pax[i]) => p[i].seat = f.pax[i].seat
      BY <2>2 DEF Flying
    <2>8. DOMAIN f.pax \subseteq DOMAIN p /\ \A i \in DOMAIN p \ DOMAIN f.pax : ~Flying(p[i])
      BY <2>4
    <2> QED
      BY <2>4, <2>5, <2>6, <2>7, <2>8, RewrittenNames, Zenon
  <1> QED
    BY <1>2, <1>3

(* The flight after each of the first n name items. *)
AmendedBy(f, items, n, h) == h = [k \in 0..n |-> IF k = 0 THEN f ELSE amend(h[k - 1], items[k])]

(* There is the recursive function that amendAll is defined by. *)
LEMMA AmendedExists ==
    ASSUME NEW f, NEW items, NEW n \in Nat
    PROVE  \E h : AmendedBy(f, items, n, h)
  <1> DEFINE Is(h, m) == AmendedBy(f, items, m, h)
             Bad == {m \in Nat : ~\E h : Is(h, m)}
  <1> SUFFICES ASSUME Bad # {} PROVE FALSE
    OBVIOUS
  <1>0. Bad \in SUBSET Nat
    OBVIOUS
  <1>1. PICK m \in Bad : \A k \in Bad : m <= k
    <2> HIDE DEF Bad
    <2> QED
      BY <1>0, MinIn
  <1>2. m \in Nat /\ ~\E h : Is(h, m)
    OBVIOUS
  <1>3. CASE m = 0
    <2>1. Is([k \in 0..0 |-> f], 0)
      BY DEF AmendedBy
    <2> HIDE DEF Is
    <2> QED
      BY <1>2, <1>3, <2>1
  <1>4. CASE m # 0
    <2>1. m - 1 \in Nat /\ m - 1 \notin Bad
      <3> HIDE DEF Bad
      <3> QED
        BY <1>1, <1>2, <1>4
    <2>2. PICK h : Is(h, m - 1)
      <3> HIDE DEF Is
      <3> QED
        BY <2>1
    <2> DEFINE g == [k \in 0..m |-> IF k = m THEN amend(h[m - 1], items[k]) ELSE h[k]]
    <2>3. ASSUME NEW k \in 0..m
          PROVE  g[k] = IF k = 0 THEN f ELSE amend(g[k - 1], items[k])
      <3>1. CASE k = 0
        <4>1. k \in 0..(m - 1) /\ k # m
          BY <1>2, <1>4, <3>1
        <4> QED
          BY <2>2, <3>1, <4>1 DEF AmendedBy
      <3>2. CASE k # 0
        <4>1. k - 1 \in 0..m /\ k - 1 \in 0..(m - 1) /\ k - 1 # m
          BY <1>2, <3>2
        <4>2. g[k - 1] = h[k - 1]
          BY <4>1
        <4>3. CASE k = m
          BY <3>2, <4>1, <4>2, <4>3
        <4>4. CASE k # m
          <5>1. k \in 0..(m - 1)
            BY <1>2, <4>4
          <5>2. h[k] = amend(h[k - 1], items[k])
            BY <2>2, <3>2, <5>1 DEF AmendedBy
          <5> QED
            BY <3>2, <4>1, <4>2, <4>4, <5>2
        <4> QED
          BY <4>3, <4>4
      <3> QED
        BY <3>1, <3>2
    <2>4. Is(g, m)
      BY <2>3 DEF AmendedBy
    <2> HIDE DEF Is, g
    <2> QED
      BY <1>2, <2>4
  <1> QED
    BY <1>3, <1>4

(* A name item to act on. *)
Amendment == [want : {"DEL", "ADD", "CHG"}, name : Name]

(* Each kind of name item leaves the seats of those who fly as they are. *)
LEMMA AmendIs ==
    ASSUME NEW f \in Flight, NEW a \in Amendment
    PROVE  NamesAs(f, amend(f, a))
  <1>1. a.want \in {"DEL", "ADD", "CHG"} /\ a.name \in Name
    BY DEF Amendment
  <1>2. CASE a.want = "DEL"
    BY <1>2, DeleteIs DEF amend
  <1>3. CASE a.want = "ADD"
    BY <1>1, <1>3, AddIs DEF amend
  <1>4. CASE a.want = "CHG"
    BY <1>1, <1>4, ChangeIs DEF amend
  <1> QED
    BY <1>1, <1>2, <1>3, <1>4

(* Any number of name items, one after the other. *)
LEMMA AmendSteps ==
    ASSUME NEW f \in Flight, NEW items, NEW n \in Nat, \A k \in 1..n : items[k] \in Amendment,
           NEW after, AmendedBy(f, items, n, after)
    PROVE  NamesAs(f, after[n])
  <1> DEFINE Bad == {k \in 0..n : ~NamesAs(f, after[k])}
  <1>4. Bad = {}
    <2> SUFFICES ASSUME Bad # {} PROVE FALSE
      OBVIOUS
    <2>0. Bad \in SUBSET Nat
      OBVIOUS
    <2>1. PICK k \in Bad : \A j \in Bad : k <= j
      <3> HIDE DEF Bad
      <3> QED
        BY <2>0, MinIn
    <2>2. k \in 0..n /\ ~NamesAs(f, after[k])
      OBVIOUS
    <2>3. CASE k = 0
      BY <2>2, <2>3, NamesSelf DEF AmendedBy
    <2>4. CASE k # 0
      <3>1. k - 1 \in 0..n /\ k - 1 \notin Bad /\ k \in 1..n
        <4>1. k \in 1..n /\ k - 1 \in 0..n /\ ~(k <= k - 1)
          BY <2>2, <2>4
        <4> HIDE DEF Bad
        <4> QED
          BY <2>1, <4>1
      <3>2. NamesAs(f, after[k - 1]) /\ after[k] = amend(after[k - 1], items[k])
        BY <2>2, <2>4, <3>1 DEF AmendedBy
      <3>3. PICK g : g = after[k - 1]
        OBVIOUS
      <3>4. g \in Flight
        BY <3>2, <3>3 DEF NamesAs, SeatsStay
      <3>5. NamesAs(g, amend(g, items[k]))
        BY <3>1, <3>4, AmendIs
      <3> HIDE DEF Bad
      <3> QED
        BY <2>2, <3>2, <3>3, <3>5, NamesThen
    <2> HIDE DEF Bad
    <2> QED
      BY <2>3, <2>4
  <1>5. n \in 0..n
    OBVIOUS
  <1> QED
    BY <1>4, <1>5

(* So does a sequence of n name items. *)
LEMMA AmendAllSteps ==
    ASSUME NEW f \in Flight, NEW items, NEW n \in Nat, \A k \in 1..n : items[k] \in Amendment
    PROVE  NamesAs(f, (CHOOSE h : AmendedBy(f, items, n, h))[n])
  <1>1. PICK after : after = (CHOOSE h : AmendedBy(f, items, n, h)) /\ AmendedBy(f, items, n, after)
    BY AmendedExists, Zenon
  <1>2. NamesAs(f, after[n])
    BY <1>1, AmendSteps, Zenon
  <1> QED
    BY <1>1, <1>2, Zenon

(* So does a whole name list. *)
LEMMA AmendAllIs ==
    ASSUME NEW f \in Flight, NEW items \in Seq(Amendment)
    PROVE  NamesAs(f, amendAll(f, items))
  <1>1. Len(items) \in Nat /\ \A k \in 1..Len(items) : items[k] \in Amendment
    <2>1. Len(items) \in Nat /\ DOMAIN items = 1..Len(items) /\ \A k \in DOMAIN items : items[k] \in Amendment
      BY SeqIs
    <2> QED
      BY <2>1
  <1>2. NamesAs(f, (CHOOSE h : AmendedBy(f, items, Len(items), h))[Len(items)])
    BY <1>1, AmendAllSteps, Zenon
  <1> QED
    BY <1>2, Zenon DEF amendAll, AmendedBy

(* The names of a section are items to act on. *)
LEMMA WantedIs ==
    ASSUME NEW want \in {"DEL", "ADD", "CHG"}, NEW names \in Seq(Name)
    PROVE  Wanted(want, names) \in Seq(Amendment)
  <1>1. PICK n \in Nat : DOMAIN names = 1..n
    OBVIOUS
  <1>2. \A k \in 1..n : [want |-> want, name |-> names[k]] \in Amendment
    BY <1>1 DEF Amendment
  <1>3. Wanted(want, names) \in [1..n -> Amendment]
    BY <1>1, <1>2 DEF Wanted
  <1> QED
    BY <1>3

(* A name list, a part or an amendment. *)
LEMMA NameListIs ==
    ASSUME NEW f \in Flight, NEW m \in NameLists
    PROVE  NamesAs(f, applyPNL(f, m)) /\ NamesAs(f, applyADL(f, m))
  <1>1. /\ m.part \in Nat /\ m.final \in BOOLEAN /\ m.names \in Seq(Name)
        /\ m.del \in Seq(Name) /\ m.add \in Seq(Name) /\ m.chg \in Seq(Name)
    BY GroundAssumption
  <1>2. NamesAs(f, applyADL(f, m))
    <2>1. PICK d \in Seq(Amendment) : d = Wanted("DEL", m.del)
      BY <1>1, WantedIs
    <2>2. PICK a \in Seq(Amendment) : a = Wanted("ADD", m.add)
      BY <1>1, WantedIs
    <2>3. PICK c \in Seq(Amendment) : c = Wanted("CHG", m.chg)
      BY <1>1, WantedIs
    <2>4. d \o a \o c \in Seq(Amendment)
      OBVIOUS
    <2>5. NamesAs(f, amendAll(f, d \o a \o c))
      BY <2>4, AmendAllIs
    <2> QED
      BY <2>1, <2>2, <2>3, <2>5 DEF applyADL
  <1>3. CASE m.part \in f.seen \/ f.complete
    BY <1>2, <1>3, NamesSelf DEF applyPNL
  <1>4. CASE ~(m.part \in f.seen \/ f.complete)
    <2>1. PICK g : g = amendAll(f, Wanted("ADD", m.names))
      OBVIOUS
    <2>2. Wanted("ADD", m.names) \in Seq(Amendment)
      BY <1>1, WantedIs
    <2>3. NamesAs(f, g) /\ g \in Flight
      BY <2>1, <2>2, AmendAllIs DEF NamesAs, SeatsStay
    <2>4. PICK h : h = [g EXCEPT !.seen = @ \cup {m.part}, !.complete = m.final]
      OBVIOUS
    <2>5. /\ h \in Flight /\ h.type = g.type /\ h.occ = g.occ /\ h.pax = g.pax /\ h.state = g.state
          /\ h.closure = g.closure
      BY <1>1, <2>3, <2>4 DEF Flight
    <2>6. NamesAs(f, h)
      BY <2>3, <2>5 DEF NamesAs, SeatsStay
    <2>7. applyPNL(f, m) = h
      BY <1>4, <2>1, <2>4 DEF applyPNL
    <2> QED
      BY <1>2, <2>6, <2>7
  <1> QED
    BY <1>3, <1>4

(* A flight just opened is in order. *)
LEMMA OpenFine ==
    ASSUME NEW t \in Types, NEW ok
    PROVE  Fine(open(t), ok) /\ open(t).closure = None /\ Len(open(t).pax) = 0
  <1>1. PICK f : f = open(t)
    OBVIOUS
  <1>2. /\ f.type = t /\ f.state = "open" /\ f.pax = <<>> /\ f.occ = [s \in Seats |-> 0] /\ f.closure = None
    BY <1>1 DEF open
  <1>3. f \in Flight
    BY <1>1 DEF open, Flight
  <1>4. DOMAIN f.pax = {} /\ Len(f.pax) = 0
    BY <1>2
  <1> QED
    BY <1>1, <1>2, <1>3, <1>4 DEF Fine, Seated, Agree

-----------------------------------------------------------------------------
(* Closing. *)

(* The flight g is as fine as f was, its manifest as long, and it is where *)
(* f was in its life.                                                      *)
FineAs(f, ok, g) ==
    Fine(g, ok) /\ g.state = f.state /\ g.closure = f.closure /\ Len(g.pax) = Len(f.pax)

(* The flight, and those left to look at, after each of n steps. *)
ClearedBy(x, n, h) == h = [k \in 0..n |-> IF k = 0 THEN x ELSE Clear(h[k - 1])]

(* There is such a function, the one that ClearAll is defined by. *)
LEMMA ClearedExists ==
    ASSUME NEW x, NEW n \in Nat
    PROVE  \E h : ClearedBy(x, n, h)
  <1> DEFINE Is(h, m) == ClearedBy(x, m, h)
             Bad == {m \in Nat : ~\E h : Is(h, m)}
  <1> SUFFICES ASSUME Bad # {} PROVE FALSE
    OBVIOUS
  <1>0. Bad \in SUBSET Nat
    OBVIOUS
  <1>1. PICK m \in Bad : \A k \in Bad : m <= k
    <2> HIDE DEF Bad
    <2> QED
      BY <1>0, MinIn
  <1>2. m \in Nat /\ ~\E h : Is(h, m)
    OBVIOUS
  <1>3. CASE m = 0
    <2>1. Is([k \in 0..0 |-> x], 0)
      BY DEF ClearedBy
    <2> HIDE DEF Is
    <2> QED
      BY <1>2, <1>3, <2>1
  <1>4. CASE m # 0
    <2>1. m - 1 \in Nat /\ m - 1 \notin Bad
      <3> HIDE DEF Bad
      <3> QED
        BY <1>1, <1>2, <1>4
    <2>2. PICK h : Is(h, m - 1)
      <3> HIDE DEF Is
      <3> QED
        BY <2>1
    <2> DEFINE g == [k \in 0..m |-> IF k = m THEN Clear(h[m - 1]) ELSE h[k]]
    <2>3. ASSUME NEW k \in 0..m
          PROVE  g[k] = IF k = 0 THEN x ELSE Clear(g[k - 1])
      <3>1. CASE k = 0
        <4>1. k \in 0..(m - 1) /\ k # m
          BY <1>2, <1>4, <3>1
        <4> QED
          BY <2>2, <3>1, <4>1 DEF ClearedBy
      <3>2. CASE k # 0
        <4>1. k - 1 \in 0..m /\ k - 1 \in 0..(m - 1) /\ k - 1 # m
          BY <1>2, <3>2
        <4>2. g[k - 1] = h[k - 1]
          BY <4>1
        <4>3. CASE k = m
          BY <3>2, <4>1, <4>2, <4>3
        <4>4. CASE k # m
          <5>1. k \in 0..(m - 1)
            BY <1>2, <4>4
          <5>2. h[k] = Clear(h[k - 1])
            BY <2>2, <3>2, <5>1 DEF ClearedBy
          <5> QED
            BY <3>2, <4>1, <4>2, <4>4, <5>2
        <4> QED
          BY <4>3, <4>4
      <3> QED
        BY <3>1, <3>2
    <2>4. Is(g, m)
      BY <2>3 DEF ClearedBy
    <2> HIDE DEF Is, g
    <2> QED
      BY <1>2, <2>4
  <1> QED
    BY <1>3, <1>4

(* Those left wait for a seat, and there are n of them. *)
Clearing(f, ok, x, n) ==
    /\ FineAs(f, ok, x.f)
    /\ x.left \subseteq StandBys(x.f) /\ IsFiniteSet(x.left) /\ Cardinality(x.left) = n

(* The next standby to clear is one of those left. *)
LEMMA NextStandByIs ==
    ASSUME NEW f \in Flight, NEW left, left \subseteq StandBys(f), left # {}
    PROVE  NextStandBy(f, left) \in left
  <1> DEFINE revenue == {i \in left : f.pax[i].cat # "staff"}
  <1>1. left \in SUBSET Nat /\ revenue \in SUBSET Nat /\ revenue \in SUBSET left
    BY FlightIs DEF StandBys
  <1>2. NextStandBy(f, left) = Min(IF revenue # {} THEN revenue ELSE left)
    BY DEF NextStandBy
  <1> HIDE DEF revenue
  <1> QED
    BY <1>1, <1>2, MinIn

(* Clearing one standby leaves one fewer, and the flight in order. *)
LEMMA ClearIs ==
    ASSUME NEW f, NEW ok, NEW x, NEW n \in Nat, Clearing(f, ok, x, n), n # 0
    PROVE  Clearing(f, ok, Clear(x), n - 1)
  <1>1. PICK g \in Flight : g = x.f
    BY DEF Clearing, FineAs, Fine
  <1>2. PICK left : left = x.left
    OBVIOUS
  <1>3. FineAs(f, ok, g) /\ left \subseteq StandBys(g) /\ IsFiniteSet(left) /\ Cardinality(left) = n
    BY <1>1, <1>2 DEF Clearing
  <1>4. left # {}
    BY <1>3, FS_EmptySet
  <1>5. PICK i : i = NextStandBy(g, left)
    OBVIOUS
  <1>6. i \in left
    BY <1>3, <1>4, <1>5, NextStandByIs
  <1>7. i \in DOMAIN g.pax /\ i \in Nat /\ ~Flying(g.pax[i]) /\ g.pax[i].comp \in Comps
    <2>1. i \in DOMAIN g.pax /\ g.pax[i].status = "standby"
      BY <1>3, <1>6 DEF StandBys
    <2>2. g.pax[i] \in Passenger /\ i \in Nat
      BY <2>1, FlightIs
    <2> QED
      BY <2>1, <2>2 DEF Flying, Passenger
  <1>8. PICK seats : seats = SeatsFor(g, {i}, NoSeat)
    OBVIOUS
  <1>9. PICK h : h = IF seats = None THEN g ELSE Accepted(g, {i}, seats, {})
    OBVIOUS
  <1>10. Clear(x) = [f |-> h, left |-> left \ {i}]
    BY <1>1, <1>2, <1>5, <1>8, <1>9 DEF Clear
  <1>11. IsFiniteSet(left \ {i}) /\ Cardinality(left \ {i}) = n - 1
    BY <1>3, <1>6, FS_RemoveElement
  <1>12. FineAs(f, ok, h) /\ left \ {i} \subseteq StandBys(h)
    <2>1. CASE seats = None
      BY <1>3, <1>9, <2>1
    <2>2. CASE seats # None
      <3>1. h = Accepted(g, {i}, seats, {})
        BY <1>9, <2>2
      <3>2. SeatsFit(g, {i}, seats)
        <4>1. g.type \in Types /\ {i} \in SUBSET Nat /\ IsFiniteSet({i})
          BY <1>7, FlightIs, FS_Singleton
        <4>2. \A j \in {i} : g.pax[j].comp \in Comps
          BY <1>7
        <4> QED
          BY <1>8, <2>2, <4>1, <4>2, SeatsForFit
      <3>3. {i} \in SUBSET DOMAIN g.pax /\ {} \in SUBSET Bag /\ \A j \in {i} : ~Flying(g.pax[j])
        BY <1>7
      <3>4. AcceptedAs(g, {i}, seats, h)
        BY <3>1, <3>2, <3>3, AcceptedIs, Zenon
      <3>5. Fine(g, ok)
        BY <1>3 DEF FineAs
      <3>6. Fine(h, ok)
        BY <3>1, <3>2, <3>3, <3>5, AcceptedFine, Zenon
      <3>7. FineAs(f, ok, h)
        BY <1>3, <3>4, <3>6 DEF FineAs, AcceptedAs
      <3>8. left \ {i} \subseteq StandBys(h)
        BY <1>3, <3>4 DEF AcceptedAs, StandBys
      <3> QED
        BY <3>7, <3>8
    <2> QED
      BY <2>1, <2>2
  <1> QED
    BY <1>10, <1>11, <1>12 DEF Clearing

(* After n of them none is left: the first to fail would contradict        *)
(* ClearIs.                                                                *)
LEMMA ClearSteps ==
    ASSUME NEW f, NEW ok, NEW x, NEW n \in Nat, Clearing(f, ok, x, n), NEW after, ClearedBy(x, n, after)
    PROVE  FineAs(f, ok, after[n].f)
  <1> DEFINE Bad == {k \in 0..n : ~Clearing(f, ok, after[k], n - k)}
  <1>1. Bad = {}
    <2> SUFFICES ASSUME Bad # {} PROVE FALSE
      OBVIOUS
    <2>0. Bad \in SUBSET Nat
      OBVIOUS
    <2>1. PICK k \in Bad : \A j \in Bad : k <= j
      <3> HIDE DEF Bad
      <3> QED
        BY <2>0, MinIn
    <2>2. k \in 0..n /\ ~Clearing(f, ok, after[k], n - k)
      OBVIOUS
    <2>3. CASE k = 0
      <3>1. after[k] = x /\ n - k = n
        BY <2>2, <2>3 DEF ClearedBy
      <3> QED
        BY <2>2, <3>1
    <2>4. CASE k # 0
      <3>1. k - 1 \in 0..n /\ k - 1 \notin Bad
        <4>1. k - 1 \in 0..n /\ ~(k <= k - 1)
          BY <2>2, <2>4
        <4> HIDE DEF Bad
        <4> QED
          BY <2>1, <4>1
      <3>2. Clearing(f, ok, after[k - 1], n - (k - 1))
        BY <3>1
      <3>3. after[k] = Clear(after[k - 1])
        BY <2>2, <2>4 DEF ClearedBy
      <3>4. PICK m \in Nat : m = n - (k - 1) /\ m # 0 /\ m - 1 = n - k
        BY <2>2, <2>4
      <3>5. Clearing(f, ok, Clear(after[k - 1]), m - 1)
        BY <3>2, <3>4, ClearIs
      <3> HIDE DEF Bad
      <3> QED
        BY <2>2, <3>3, <3>4, <3>5
    <2> HIDE DEF Bad
    <2> QED
      BY <2>3, <2>4
  <1>2. n \in 0..n
    OBVIOUS
  <1>3. Clearing(f, ok, after[n], n - n)
    BY <1>1, <1>2
  <1> QED
    BY <1>3 DEF Clearing

(* Clearing the standby list. *)
LEMMA ClearAllIs ==
    ASSUME NEW f, NEW ok, Fine(f, ok)
    PROVE  FineAs(f, ok, ClearAll(f))
  <1>1. PICK x : x = [f |-> f, left |-> StandBys(f)]
    OBVIOUS
  <1>2. f \in Flight /\ x.f = f /\ x.left = StandBys(f)
    BY <1>1 DEF Fine
  <1>3. PICK n \in Nat : n = Cardinality(StandBys(f)) /\ IsFiniteSet(StandBys(f))
    <2>1. StandBys(f) \in SUBSET DOMAIN f.pax /\ IsFiniteSet(DOMAIN f.pax)
      BY <1>2, FlightIs DEF StandBys
    <2> QED
      BY <2>1, FS_Subset, FS_CardinalityType
  <1>4. Clearing(f, ok, x, n)
    BY <1>2, <1>3 DEF Clearing, FineAs
  <1>5. PICK after : after = (CHOOSE h : ClearedBy(x, n, h)) /\ ClearedBy(x, n, after)
    BY ClearedExists, Zenon
  <1>6. FineAs(f, ok, after[n].f)
    BY <1>4, <1>5, ClearSteps, Zenon
  <1>7. ClearAll(f) = (CHOOSE h : ClearedBy(x, n, h))[n].f
    BY <1>1, <1>3, Zenon DEF ClearAll, ClearedBy
  <1> QED
    BY <1>5, <1>6, <1>7, Zenon

(* Closing check-in. *)
LEMMA CloseCheckInIs ==
    ASSUME NEW f, NEW ok, Fine(f, ok)
    PROVE  /\ Fine(closeCheckIn(f), ok) /\ closeCheckIn(f).closure = f.closure
           /\ Len(closeCheckIn(f).pax) = Len(f.pax)
           /\ f.state # "closed" => closeCheckIn(f).state # "closed"
  <1>1. f \in Flight
    BY DEF Fine
  <1>2. CASE f.state # "open"
    BY <1>2 DEF closeCheckIn
  <1>3. CASE f.state = "open"
    <2>1. PICK g : g = [f EXCEPT !.state = "checkin_closed"]
      OBVIOUS
    <2>2. /\ g \in Flight /\ g.type = f.type /\ g.occ = f.occ /\ g.pax = f.pax /\ g.closure = f.closure
          /\ g.state = "checkin_closed"
      BY <1>1, <2>1 DEF Flight
    <2>3. Fine(g, ok)
      BY <2>2 DEF Fine, Seated, Agree
    <2>4. FineAs(g, ok, ClearAll(g))
      BY <2>3, ClearAllIs
    <2>5. closeCheckIn(f) = ClearAll(g)
      BY <1>3, <2>1 DEF closeCheckIn
    <2> QED
      BY <2>2, <2>4, <2>5 DEF FineAs
  <1> QED
    BY <1>2, <1>3

(* Everyone's place on the flight once it is settled. *)
SettledAs(f, ok, g) ==
    FineAs(f, ok, g) /\ \A i \in DOMAIN g.pax : g.pax[i].status \notin {"listed", "accepted"}

(* CloseFlight leaves nobody listed, and nobody accepted who did not       *)
(* board.                                                                  *)
LEMMA SettledIs ==
    ASSUME NEW f, NEW ok, Fine(f, ok)
    PROVE  SettledAs(f, ok, Settled(f))
  <1>1. f \in Flight
    BY DEF Fine
  <1>2. PICK ids : ids = {i \in DOMAIN f.pax : f.pax[i].status = "accepted"}
    OBVIOUS
  <1>3. ids \in SUBSET DOMAIN f.pax /\ \A i \in ids : Flying(f.pax[i])
    BY <1>2 DEF Flying
  <1>4. PICK g : g = Offloaded(f, ids)
    OBVIOUS
  <1>5. OffloadedAs(f, ids, g) /\ Fine(g, ok)
    BY <1>1, <1>3, <1>4, OffloadedIs, OffloadedFine, Zenon
  <1>6. /\ g \in Flight /\ g.state = f.state /\ g.closure = f.closure /\ Len(g.pax) = Len(f.pax)
        /\ \A i \in DOMAIN g.pax : g.pax[i].status # "accepted"
    BY <1>2, <1>5 DEF OffloadedAs
  <1>7. PICK p : p = [i \in DOMAIN g.pax |->
                        IF g.pax[i].status = "listed" THEN [g.pax[i] EXCEPT !.status = "noshow"] ELSE g.pax[i]]
    OBVIOUS
  <1>8. ASSUME NEW i \in DOMAIN g.pax
        PROVE  /\ p[i] \in Passenger /\ p[i].status \notin {"listed", "accepted"}
               /\ p[i].seat = g.pax[i].seat /\ (Flying(p[i]) <=> Flying(g.pax[i]))
    <2>1. PICK q \in Passenger : q = g.pax[i]
      BY <1>6, FlightIs
    <2>2. \/ p[i] = [q EXCEPT !.status = "noshow"] /\ q.status = "listed"
          \/ p[i] = q /\ q.status # "listed"
      BY <1>7, <2>1
    <2>3. q.status # "accepted"
      BY <1>6, <2>1
    <2> QED
      BY <2>1, <2>2, <2>3 DEF Passenger, Statuses, Flying
  <1>9. p \in [DOMAIN g.pax -> Passenger]
    BY <1>7, <1>8
  <1>10. p \in Seq(Passenger) /\ DOMAIN p = DOMAIN g.pax /\ Len(p) = Len(g.pax)
    BY <1>6, <1>9, PaxLike
  <1>11. PICK h : h = Settled(f)
    OBVIOUS
  <1>12. Rewritten(g, p, h)
    BY <1>2, <1>4, <1>7, <1>11 DEF Rewritten, Settled
  <1>13. /\ h \in Flight /\ h.type = g.type /\ h.state = g.state /\ h.closure = g.closure
         /\ h.occ = g.occ /\ h.pax = p
    BY <1>6, <1>10, <1>12, RewrittenIs
  <1>14. SeatsStay(g, h)
    BY <1>8, <1>10, <1>13 DEF SeatsStay
  <1>15. Fine(h, ok)
    BY <1>5, <1>14, SeatsStayFine
  <1> QED
    BY <1>6, <1>8, <1>10, <1>11, <1>13, <1>15 DEF SettledAs, FineAs

(* What a flight that has reported says of itself. *)
AddsUp(f) ==
    /\ f.closure.etl = {i \in DOMAIN f.pax : f.pax[i].status = "boarded"}
    /\ \A h \in f.closure.hold : h[1] \in f.closure.etl
    /\ \A i \in DOMAIN f.pax \ f.closure.etl :
          f.pax[i].status \in {"standby", "deleted"} \/ \E c \in f.closure.pfs : c[1] = i

(* A flight in order, whose reports add up if it has made any. *)
Sound(f, ok) ==
    Fine(f, ok) /\ (f.closure # None => f.state = "closed" /\ AddsUp(f))

(* Pulling bags changes neither statuses nor seats. *)
LEMMA PulledIs ==
    ASSUME NEW f \in Flight
    PROVE  /\ Pulled(f) \in Flight /\ Pulled(f).type = f.type /\ Pulled(f).occ = f.occ
           /\ DOMAIN Pulled(f).pax = DOMAIN f.pax /\ Len(Pulled(f).pax) = Len(f.pax)
           /\ \A i \in DOMAIN f.pax : /\ Pulled(f).pax[i].status = f.pax[i].status
                                      /\ Pulled(f).pax[i].seat = f.pax[i].seat
  <1> DEFINE bag(b) == IF b.loaded THEN [b EXCEPT !.loaded = FALSE, !.off = TRUE] ELSE b
  <1>1. PICK p : p = [i \in DOMAIN f.pax |-> PulledPax(f.pax[i])]
    OBVIOUS
  <1>2. ASSUME NEW q \in Passenger
        PROVE  PulledPax(q) \in Passenger /\ PulledPax(q).status = q.status /\ PulledPax(q).seat = q.seat
    <2>1. PICK bs : bs = {bag(b) : b \in q.bags}
      OBVIOUS
    <2>2. bs \in SUBSET Bag
      <3>1. \A b \in Bag : bag(b) \in Bag
        BY DEF Bag
      <3>2. q.bags \in SUBSET Bag
        BY DEF Passenger
      <3> QED
        BY <2>1, <3>1, <3>2
    <2>3. PulledPax(q) = q \/ PulledPax(q) = [q EXCEPT !.bags = bs]
      BY <2>1 DEF PulledPax
    <2> QED
      BY <2>2, <2>3 DEF Passenger
  <1>3. Rewritten(f, p, Pulled(f))
    BY <1>1 DEF Rewritten, Pulled
  <1>4. \A i \in DOMAIN f.pax : f.pax[i] \in Passenger
    BY FlightIs
  <1>5. /\ p \in [DOMAIN f.pax -> Passenger]
        /\ \A i \in DOMAIN f.pax : p[i].status = f.pax[i].status /\ p[i].seat = f.pax[i].seat
    BY <1>1, <1>2, <1>4
  <1>6. p \in Seq(Passenger) /\ DOMAIN p = DOMAIN f.pax /\ Len(p) = Len(f.pax)
    BY <1>5, PaxLike
  <1> QED
    BY <1>3, <1>5, <1>6, RewrittenIs

(* The reports of a settled flight add up. *)
LEMMA ClosedSound ==
    ASSUME NEW f, NEW ok, Fine(f, ok), \A i \in DOMAIN f.pax : f.pax[i].status \notin {"listed", "accepted"}
    PROVE  Sound(Closed(f), ok) /\ Len(Closed(f).pax) = Len(f.pax)
  <1>1. f \in Flight
    BY DEF Fine
  <1>2. PICK g : g = Pulled(f)
    OBVIOUS
  <1>3. /\ g \in Flight /\ g.type = f.type /\ g.occ = f.occ
        /\ DOMAIN g.pax = DOMAIN f.pax /\ Len(g.pax) = Len(f.pax)
        /\ \A i \in DOMAIN f.pax : g.pax[i].status = f.pax[i].status /\ g.pax[i].seat = f.pax[i].seat
    BY <1>1, <1>2, PulledIs
  <1>4. PICK etl : etl = BuildETL(f)
    OBVIOUS
  <1>5. PICK pfs : pfs = BuildPFS(f)
    OBVIOUS
  <1>6. PICK hold : hold = Hold(g)
    OBVIOUS
  <1>7. PICK h : h = Closed(f)
    OBVIOUS
  <1>8. PICK cl : cl = [etl |-> etl, pfs |-> pfs, hold |-> hold]
    OBVIOUS
  <1>9. h = [g EXCEPT !.state = "closed", !.closure = cl]
    BY <1>2, <1>4, <1>5, <1>6, <1>7, <1>8 DEF Closed
  <1>10. DOMAIN f.pax \in SUBSET Nat /\ \A i \in DOMAIN f.pax : f.pax[i] \in Passenger /\ g.pax[i] \in Passenger
    BY <1>1, <1>3, FlightIs
  <1>11. etl \in SUBSET Nat /\ etl = {i \in DOMAIN f.pax : f.pax[i].status = "boarded"} /\ BuildETL(g) = etl
    BY <1>3, <1>4, <1>10 DEF BuildETL
  <1>12. \A q : pfsCategory(q) # "" => pfsCategory(q) \in Reports
    BY DEF pfsCategory, Reports
  <1>13. pfs \in SUBSET (Nat \X Reports)
    <2>1. ASSUME NEW x \in pfs PROVE x \in Nat \X Reports
      <3>1. PICK i \in DOMAIN f.pax : pfsCategory(f.pax[i]) # "" /\ x = <<i, pfsCategory(f.pax[i])>>
        BY <1>5, <2>1 DEF BuildPFS
      <3> QED
        BY <1>10, <1>12, <3>1
    <2> QED
      BY <2>1
  <1>14. ASSUME NEW x \in hold PROVE x \in Nat \X Nat /\ x[1] \in etl
    <2>1. PICK i \in etl : x \in {<<i, b.tag>> : b \in {c \in g.pax[i].bags : ~c.off}}
      BY <1>6, <1>11, <1>14 DEF Hold
    <2>2. PICK b \in g.pax[i].bags : x = <<i, b.tag>>
      BY <2>1
    <2>3. i \in DOMAIN f.pax /\ i \in Nat
      BY <1>10, <1>11
    <2>4. b.tag \in Nat
      BY <1>10, <2>2, <2>3 DEF Passenger, Bag
    <2> QED
      BY <2>2, <2>3, <2>4
  <1>15. hold \in SUBSET (Nat \X Nat)
    BY <1>14
  <1>16. cl \in Closures /\ cl.etl = etl /\ cl.pfs = pfs /\ cl.hold = hold
    BY <1>8, <1>11, <1>13, <1>15 DEF Closures
  <1>17. /\ h \in Flight /\ h.type = f.type /\ h.occ = f.occ /\ h.pax = g.pax
         /\ h.state = "closed" /\ h.closure = cl
    BY <1>3, <1>9, <1>16 DEF Flight
  <1>18. Fine(h, ok)
    <2>1. SeatsStay(f, h)
      BY <1>3, <1>17 DEF SeatsStay, Flying
    <2> QED
      BY <2>1, SeatsStayFine
  <1>19. ASSUME NEW i \in DOMAIN f.pax \ etl
         PROVE  f.pax[i].status \in {"standby", "deleted"} \/ \E c \in pfs : c[1] = i
    <2>1. f.pax[i].status \in {"standby", "deleted", "noshow", "offloaded"}
      BY <1>10, <1>11 DEF Passenger, Statuses
    <2>2. CASE f.pax[i].status \in {"noshow", "offloaded"}
      <3>1. pfsCategory(f.pax[i]) # ""
        BY <2>2 DEF pfsCategory, Flying
      <3>2. <<i, pfsCategory(f.pax[i])>> \in pfs
        BY <1>5, <3>1 DEF BuildPFS
      <3> QED
        BY <3>2
    <2> QED
      BY <2>1, <2>2
  <1>20. AddsUp(h)
    BY <1>3, <1>11, <1>14, <1>16, <1>17, <1>19 DEF AddsUp
  <1> QED
    BY <1>3, <1>7, <1>17, <1>18, <1>20 DEF Sound

(* One passenger changed. *)
LEMMA OneIs ==
    ASSUME NEW f \in Flight, NEW i \in DOMAIN f.pax, NEW q \in Passenger
    PROVE  /\ [f.pax EXCEPT ![i] = q] \in Seq(Passenger)
           /\ DOMAIN [f.pax EXCEPT ![i] = q] = DOMAIN f.pax /\ Len([f.pax EXCEPT ![i] = q]) = Len(f.pax)
           /\ [f.pax EXCEPT ![i] = q][i] = q
           /\ \A j \in DOMAIN f.pax : j # i => [f.pax EXCEPT ![i] = q][j] = f.pax[j]
  <1>1. PICK p \in Seq(Passenger) : p = f.pax
    BY FlightIs
  <1>2. \A j \in DOMAIN p : p[j] \in Passenger
    BY <1>1, SeqIs
  <1>3. [p EXCEPT ![i] = q] \in [DOMAIN p -> Passenger]
    BY <1>1, <1>2
  <1>4. /\ [f.pax EXCEPT ![i] = q] \in Seq(Passenger)
        /\ DOMAIN [f.pax EXCEPT ![i] = q] = DOMAIN f.pax /\ Len([f.pax EXCEPT ![i] = q]) = Len(f.pax)
    BY <1>1, <1>3, PaxLike
  <1> QED
    BY <1>1, <1>4

(* Boarding. *)
BoardedTo(f, i, g) == g = [f EXCEPT !.pax[i].status = "boarded"]

(* Board leaves the passenger in the seat. *)
LEMMA BoardedIs ==
    ASSUME NEW f, NEW ok, Fine(f, ok), NEW i \in DOMAIN f.pax, f.pax[i].status = "accepted",
           NEW g, BoardedTo(f, i, g)
    PROVE  FineAs(f, ok, g)
  <1>1. f \in Flight
    BY DEF Fine
  <1>2. PICK q \in Passenger : q = f.pax[i]
    BY <1>1, FlightIs
  <1>3. PICK r : r = [q EXCEPT !.status = "boarded"]
    OBVIOUS
  <1>4. r \in Passenger /\ r.seat = q.seat /\ Flying(r) /\ Flying(q)
    BY <1>2, <1>3 DEF Passenger, Statuses, Flying
  <1>5. PICK p : p = [f.pax EXCEPT ![i] = r]
    OBVIOUS
  <1>6. /\ p \in Seq(Passenger) /\ DOMAIN p = DOMAIN f.pax /\ Len(p) = Len(f.pax)
        /\ p[i] = r /\ \A j \in DOMAIN f.pax : j # i => p[j] = f.pax[j]
    BY <1>1, <1>4, <1>5, OneIs
  <1>7. Rewritten(f, p, g)
    BY <1>2, <1>3, <1>5 DEF Rewritten, BoardedTo
  <1>8. /\ g \in Flight /\ g.type = f.type /\ g.state = f.state /\ g.closure = f.closure
        /\ g.occ = f.occ /\ g.pax = p
    BY <1>1, <1>6, <1>7, RewrittenIs, Zenon
  <1>9. SeatsStay(f, g)
    BY <1>2, <1>4, <1>6, <1>8 DEF SeatsStay
  <1> QED
    BY <1>6, <1>8, <1>9, SeatsStayFine DEF FineAs

(* A bag report changes a bag, of a closed flight too. *)
LoadedTo(f, i, tag, g) ==
    g = [f EXCEPT !.pax[i].bags = {IF b.tag = tag THEN [b EXCEPT !.loaded = TRUE] ELSE b : b \in @}]

(* A bag report changes neither statuses nor what a closure reported. *)
LEMMA BagReportSound ==
    ASSUME NEW f, NEW ok, Sound(f, ok), NEW i \in DOMAIN f.pax, NEW tag,
           NEW g, LoadedTo(f, i, tag, g)
    PROVE  Sound(g, ok) /\ Len(g.pax) = Len(f.pax)
  <1>1. f \in Flight /\ Fine(f, ok)
    BY DEF Sound, Fine
  <1>2. PICK q \in Passenger : q = f.pax[i]
    BY <1>1, FlightIs
  <1> DEFINE bag(b) == IF b.tag = tag THEN [b EXCEPT !.loaded = TRUE] ELSE b
  <1>3. PICK bs : bs = {bag(b) : b \in q.bags}
    OBVIOUS
  <1>4. bs \in SUBSET Bag
    <2>1. \A b \in Bag : bag(b) \in Bag
      BY DEF Bag
    <2>2. q.bags \in SUBSET Bag
      BY DEF Passenger
    <2> QED
      BY <1>3, <2>1, <2>2
  <1>5. PICK r : r = [q EXCEPT !.bags = bs]
    OBVIOUS
  <1>6. r \in Passenger /\ r.seat = q.seat /\ r.status = q.status
    BY <1>4, <1>5 DEF Passenger
  <1>7. PICK p : p = [f.pax EXCEPT ![i] = r]
    OBVIOUS
  <1>8. /\ p \in Seq(Passenger) /\ DOMAIN p = DOMAIN f.pax /\ Len(p) = Len(f.pax)
        /\ p[i] = r /\ \A j \in DOMAIN f.pax : j # i => p[j] = f.pax[j]
    BY <1>1, <1>6, <1>7, OneIs
  <1>9. Rewritten(f, p, g)
    BY <1>2, <1>3, <1>5, <1>7 DEF Rewritten, LoadedTo
  <1>10. /\ g \in Flight /\ g.type = f.type /\ g.state = f.state /\ g.closure = f.closure
         /\ g.occ = f.occ /\ g.pax = p
    BY <1>1, <1>8, <1>9, RewrittenIs, Zenon
  <1>11. \A j \in DOMAIN f.pax : p[j].status = f.pax[j].status /\ p[j].seat = f.pax[j].seat
    BY <1>2, <1>6, <1>8
  <1>12. SeatsStay(f, g)
    BY <1>8, <1>10, <1>11 DEF SeatsStay, Flying
  <1>13. Fine(g, ok)
    BY <1>1, <1>12, SeatsStayFine
  <1>14. AddsUp(f) => AddsUp(g)
    BY <1>8, <1>10, <1>11 DEF AddsUp
  <1> QED
    BY <1>8, <1>10, <1>13, <1>14 DEF Sound

-----------------------------------------------------------------------------
(* The equipment change. *)

(* The flight, and those left to sit, after each of n steps. *)
ReseatedBy(old, x, n, h) == h = [k \in 0..n |-> IF k = 0 THEN x ELSE Reseat(old, h[k - 1])]

(* There is such a function, the one that Reequipped is defined by. *)
LEMMA ReseatingExists ==
    ASSUME NEW old, NEW x, NEW n \in Nat
    PROVE  \E h : ReseatedBy(old, x, n, h)
  <1> DEFINE Is(h, m) == ReseatedBy(old, x, m, h)
             Bad == {m \in Nat : ~\E h : Is(h, m)}
  <1> SUFFICES ASSUME Bad # {} PROVE FALSE
    OBVIOUS
  <1>0. Bad \in SUBSET Nat
    OBVIOUS
  <1>1. PICK m \in Bad : \A k \in Bad : m <= k
    <2> HIDE DEF Bad
    <2> QED
      BY <1>0, MinIn
  <1>2. m \in Nat /\ ~\E h : Is(h, m)
    OBVIOUS
  <1>3. CASE m = 0
    <2>1. Is([k \in 0..0 |-> x], 0)
      BY DEF ReseatedBy
    <2> HIDE DEF Is
    <2> QED
      BY <1>2, <1>3, <2>1
  <1>4. CASE m # 0
    <2>1. m - 1 \in Nat /\ m - 1 \notin Bad
      <3> HIDE DEF Bad
      <3> QED
        BY <1>1, <1>2, <1>4
    <2>2. PICK h : Is(h, m - 1)
      <3> HIDE DEF Is
      <3> QED
        BY <2>1
    <2> DEFINE g == [k \in 0..m |-> IF k = m THEN Reseat(old, h[m - 1]) ELSE h[k]]
    <2>3. ASSUME NEW k \in 0..m
          PROVE  g[k] = IF k = 0 THEN x ELSE Reseat(old, g[k - 1])
      <3>1. CASE k = 0
        <4>1. k \in 0..(m - 1) /\ k # m
          BY <1>2, <1>4, <3>1
        <4> QED
          BY <2>2, <3>1, <4>1 DEF ReseatedBy
      <3>2. CASE k # 0
        <4>1. k - 1 \in 0..m /\ k - 1 \in 0..(m - 1) /\ k - 1 # m
          BY <1>2, <3>2
        <4>2. g[k - 1] = h[k - 1]
          BY <4>1
        <4>3. CASE k = m
          BY <3>2, <4>1, <4>2, <4>3
        <4>4. CASE k # m
          <5>1. k \in 0..(m - 1)
            BY <1>2, <4>4
          <5>2. h[k] = Reseat(old, h[k - 1])
            BY <2>2, <3>2, <5>1 DEF ReseatedBy
          <5> QED
            BY <3>2, <4>1, <4>2, <4>4, <5>2
        <4> QED
          BY <4>3, <4>4
      <3> QED
        BY <3>1, <3>2
    <2>4. Is(g, m)
      BY <2>3 DEF ReseatedBy
    <2> HIDE DEF Is, g
    <2> QED
      BY <1>2, <2>4
  <1> QED
    BY <1>3, <1>4

(* In the new aircraft, those left still have their old seats; everyone    *)
(* else who flies has a seat of it, and the seat map names only them.      *)
Reseating(f, t, x, n) ==
    /\ x.f \in Flight /\ x.f.type = t /\ x.f.state = f.state /\ x.f.closure = f.closure
    /\ Len(x.f.pax) = Len(f.pax)
    /\ x.left \subseteq DOMAIN x.f.pax /\ IsFiniteSet(x.left) /\ Cardinality(x.left) = n
    /\ \A i \in x.left : Flying(x.f.pax[i])
    /\ \A i \in DOMAIN x.f.pax \ x.left : Flying(x.f.pax[i]) => Has(t, x.f.pax[i].seat)
    /\ \A s \in Seats : x.f.occ[s] # 0 =>
          /\ x.f.occ[s] \in DOMAIN x.f.pax \ x.left
          /\ Flying(x.f.pax[x.f.occ[s]]) /\ x.f.pax[x.f.occ[s]].seat = s

(* The next holder to seat is one of those left. *)
LEMMA NextHolderIs ==
    ASSUME NEW f \in Flight, NEW left \in SUBSET DOMAIN f.pax, left # {}
    PROVE  NextHolder(f, left) \in left
  <1> DEFINE boarded == {i \in left : f.pax[i].status = "boarded"}
  <1>1. PICK first : first = IF boarded # {} THEN boarded ELSE left
    OBVIOUS
  <1>2. first \in SUBSET left /\ first # {}
    BY <1>1
  <1>3. PICK low : low = {i \in first : \A j \in first : f.pax[i].seq <= f.pax[j].seq}
    OBVIOUS
  <1>4. NextHolder(f, left) = Min(low)
    BY <1>1, <1>3 DEF NextHolder
  <1>5. \A i \in first : i \in Nat /\ f.pax[i].seq \in Nat
    <2>1. \A i \in DOMAIN f.pax : i \in Nat /\ f.pax[i] \in Passenger
      BY FlightIs
    <2> QED
      BY <1>2, <2>1 DEF Passenger
  <1>6. PICK seqs : seqs = {f.pax[i].seq : i \in first}
    OBVIOUS
  <1>7. seqs \in SUBSET Nat /\ seqs # {}
    BY <1>2, <1>5, <1>6
  <1>8. PICK m \in seqs : \A y \in seqs : m <= y
    BY <1>7, MinIn
  <1>9. PICK i \in first : m = f.pax[i].seq
    BY <1>6, <1>8
  <1>10. i \in low
    BY <1>3, <1>6, <1>8, <1>9
  <1>11. low \in SUBSET Nat /\ low \in SUBSET left
    BY <1>2, <1>3, <1>5
  <1>12. Min(low) \in low
    BY <1>10, <1>11, MinIn
  <1> QED
    BY <1>4, <1>11, <1>12

(* Where a passenger may be sat is a free seat of the aircraft. *)
LEMMA AnyFreeIs ==
    ASSUME NEW f \in Flight, NEW want, AnyFree(f, want) # {}
    PROVE  /\ Min(AnyFree(f, want)) \in DOMAIN Layouts[f.type]
           /\ Layouts[f.type][Min(AnyFree(f, want))].seat \in Seats
           /\ Has(f.type, Layouts[f.type][Min(AnyFree(f, want))].seat)
  <1>1. f.type \in Types
    BY FlightIs
  <1>2. \E c : AnyFree(f, want) = FreeSeats(f, c)
    BY DEF AnyFree
  <1>3. AnyFree(f, want) \in SUBSET DOMAIN Layouts[f.type] /\ AnyFree(f, want) \in SUBSET Nat
    BY <1>1, <1>2, AssignIn
  <1>4. PICK k : k = Min(AnyFree(f, want))
    OBVIOUS
  <1>5. k \in DOMAIN Layouts[f.type]
    BY <1>3, <1>4, MinIn
  <1>6. Layouts[f.type][k].seat \in Seats /\ Has(f.type, Layouts[f.type][k].seat)
    BY <1>1, <1>5, Cabin, PlaceIs
  <1> QED
    BY <1>4, <1>5, <1>6

(* One passenger sat, or left to stand by. *)
ReseatedAs(g, i, h) ==
    /\ h \in Flight /\ h.type = g.type /\ h.state = g.state /\ h.closure = g.closure
    /\ DOMAIN h.pax = DOMAIN g.pax /\ Len(h.pax) = Len(g.pax)
    /\ \A j \in DOMAIN g.pax : j # i => h.pax[j] = g.pax[j]
    /\ Flying(h.pax[i]) => Has(g.type, h.pax[i].seat)
    /\ \A s \in Seats : \/ h.occ[s] = g.occ[s]
                        \/ h.occ[s] = i /\ Flying(h.pax[i]) /\ h.pax[i].seat = s

(* h is what seating holder i makes of g. *)
ReseatedTo(old, g, i, h) == h = Reseated(old, g, i)

(* Seating one holder touches no one else's seat in the map or on the      *)
(* manifest.                                                               *)
LEMMA ReseatedIs ==
    ASSUME NEW g \in Flight, NEW i \in DOMAIN g.pax, Flying(g.pax[i]),
           NEW old, NEW h, ReseatedTo(old, g, i, h)
    PROVE  ReseatedAs(g, i, h)
  <1>1. PICK q \in Passenger : q = g.pax[i]
    BY FlightIs
  <1>2. PICK seat : seat = q.seat
    OBVIOUS
  <1>3. PICK want : want = CompOf(old, seat)
    OBVIOUS
  <1>4. PICK any : any = AnyFree(g, want)
    OBVIOUS
  <1>5. g.type \in Types /\ g.occ \in [Seats -> Nat] /\ i \in Nat
    BY FlightIs
  <1> DEFINE keeps == Has(g.type, seat) /\ CompOf(g.type, seat) = want /\ g.occ[seat] = 0
  <1>6. CASE keeps
    <2>1. seat \in Seats
      BY <1>5, <1>6, PlaceIs
    <2>2. PICK occ : occ = [g.occ EXCEPT ![seat] = i]
      OBVIOUS
    <2>3. occ \in [Seats -> Nat] /\ occ[seat] = i /\ \A s \in Seats : s # seat => occ[s] = g.occ[s]
      BY <1>5, <2>1, <2>2
    <2>4. h = [g EXCEPT !.occ = occ]
      <3>1. h = [g EXCEPT !.occ[seat] = i]
        BY <1>1, <1>2, <1>3, <1>6 DEF Reseated, ReseatedTo
      <3> QED
        BY <2>2, <3>1
    <2>5. /\ h \in Flight /\ h.type = g.type /\ h.state = g.state /\ h.closure = g.closure
          /\ h.pax = g.pax /\ h.occ = occ
      <3> QED
        BY <2>3, <2>4 DEF Flight
    <2> QED
      BY <1>1, <1>2, <1>6, <2>3, <2>5 DEF ReseatedAs
  <1>7. CASE ~keeps /\ any = {}
    <2>1. PICK r : r = [q EXCEPT !.seat = NoSeat, !.status = "standby"]
      OBVIOUS
    <2>2. r \in Passenger /\ ~Flying(r)
      BY <2>1 DEF Passenger, Statuses, Flying
    <2>3. PICK p : p = [g.pax EXCEPT ![i] = r]
      OBVIOUS
    <2>4. /\ p \in Seq(Passenger) /\ DOMAIN p = DOMAIN g.pax /\ Len(p) = Len(g.pax)
          /\ p[i] = r /\ \A j \in DOMAIN g.pax : j # i => p[j] = g.pax[j]
      BY <2>2, <2>3, OneIs
    <2>5. Rewritten(g, p, h)
      <3>1. h = [g EXCEPT !.pax[i] = [@ EXCEPT !.seat = NoSeat, !.status = "standby"]]
        BY <1>1, <1>2, <1>3, <1>4, <1>7 DEF Reseated, ReseatedTo
      <3> QED
        BY <1>1, <2>1, <2>3, <3>1 DEF Rewritten
    <2>6. /\ h \in Flight /\ h.type = g.type /\ h.state = g.state /\ h.closure = g.closure
          /\ h.occ = g.occ /\ h.pax = p
      <3> QED
        BY <2>4, <2>5, RewrittenIs
    <2> QED
      BY <2>2, <2>4, <2>6 DEF ReseatedAs
  <1>8. CASE ~keeps /\ any # {}
    <2>1. PICK s : s = Layouts[g.type][Min(any)].seat
      OBVIOUS
    <2>2. s \in Seats /\ Has(g.type, s)
      BY <1>4, <1>8, <2>1, AnyFreeIs
    <2>3. PICK r : r = [q EXCEPT !.seat = s]
      OBVIOUS
    <2>4. r \in Passenger /\ r.seat = s
      BY <2>2, <2>3 DEF Passenger
    <2>5. PICK p : p = [g.pax EXCEPT ![i] = r]
      OBVIOUS
    <2>6. /\ p \in Seq(Passenger) /\ DOMAIN p = DOMAIN g.pax /\ Len(p) = Len(g.pax)
          /\ p[i] = r /\ \A j \in DOMAIN g.pax : j # i => p[j] = g.pax[j]
      BY <2>4, <2>5, OneIs
    <2>7. Rewritten(g, p, h)
      <3>1. h = [g EXCEPT !.pax[i].seat = Layouts[g.type][Min(any)].seat]
        BY <1>1, <1>2, <1>3, <1>4, <1>8 DEF Reseated, ReseatedTo
      <3> QED
        BY <1>1, <2>1, <2>3, <2>5, <3>1 DEF Rewritten
    <2>8. /\ h \in Flight /\ h.type = g.type /\ h.state = g.state /\ h.closure = g.closure
          /\ h.occ = g.occ /\ h.pax = p
      <3> QED
        BY <2>6, <2>7, RewrittenIs
    <2> QED
      BY <2>2, <2>4, <2>6, <2>8 DEF ReseatedAs
  <1> QED
    BY <1>6, <1>7, <1>8

(* Seating one holder leaves one fewer to seat. *)
LEMMA ReseatIs ==
    ASSUME NEW f, NEW t, NEW old, NEW x, NEW n \in Nat, Reseating(f, t, x, n), n # 0
    PROVE  Reseating(f, t, Reseat(old, x), n - 1)
  <1>1. PICK g \in Flight : g = x.f
    BY DEF Reseating
  <1>2. PICK left : left = x.left
    OBVIOUS
  <1>3. /\ g.type = t /\ g.state = f.state /\ g.closure = f.closure /\ Len(g.pax) = Len(f.pax)
        /\ left \in SUBSET DOMAIN g.pax /\ IsFiniteSet(left) /\ Cardinality(left) = n
        /\ \A i \in left : Flying(g.pax[i])
        /\ \A i \in DOMAIN g.pax \ left : Flying(g.pax[i]) => Has(t, g.pax[i].seat)
        /\ \A s \in Seats : g.occ[s] # 0 =>
              g.occ[s] \in DOMAIN g.pax \ left /\ Flying(g.pax[g.occ[s]]) /\ g.pax[g.occ[s]].seat = s
    BY <1>1, <1>2 DEF Reseating
  <1>4. left # {}
    BY <1>3, FS_EmptySet
  <1>5. PICK i : i = NextHolder(g, left)
    OBVIOUS
  <1>6. i \in left /\ i \in DOMAIN g.pax /\ Flying(g.pax[i])
    BY <1>3, <1>4, <1>5, NextHolderIs
  <1>7. PICK h : h = Reseated(old, g, i)
    OBVIOUS
  <1>8. Reseat(old, x) = [f |-> h, left |-> left \ {i}]
    BY <1>1, <1>2, <1>5, <1>7 DEF Reseat
  <1>9. ReseatedAs(g, i, h)
    BY <1>6, <1>7, ReseatedIs, Zenon DEF ReseatedTo
  <1>10. IsFiniteSet(left \ {i}) /\ Cardinality(left \ {i}) = n - 1
    BY <1>3, <1>6, FS_RemoveElement
  <1>11. /\ h \in Flight /\ h.type = t /\ h.state = f.state /\ h.closure = f.closure /\ Len(h.pax) = Len(f.pax)
         /\ DOMAIN h.pax = DOMAIN g.pax
    BY <1>3, <1>9 DEF ReseatedAs
  <1>12. /\ left \ {i} \subseteq DOMAIN h.pax /\ \A j \in left \ {i} : Flying(h.pax[j])
         /\ \A j \in DOMAIN h.pax \ (left \ {i}) : Flying(h.pax[j]) => Has(t, h.pax[j].seat)
    BY <1>3, <1>6, <1>9 DEF ReseatedAs
  <1>13. ASSUME NEW s \in Seats, h.occ[s] # 0
         PROVE  h.occ[s] \in DOMAIN h.pax \ (left \ {i}) /\ Flying(h.pax[h.occ[s]]) /\ h.pax[h.occ[s]].seat = s
    <2>1. CASE h.occ[s] = i /\ Flying(h.pax[i]) /\ h.pax[i].seat = s
      BY <1>6, <1>11, <2>1
    <2>2. CASE h.occ[s] = g.occ[s]
      <3>1. g.occ[s] \in DOMAIN g.pax \ left /\ Flying(g.pax[g.occ[s]]) /\ g.pax[g.occ[s]].seat = s
        BY <1>3, <1>13, <2>2
      <3>2. h.pax[g.occ[s]] = g.pax[g.occ[s]]
        BY <1>6, <1>9, <3>1 DEF ReseatedAs
      <3> QED
        BY <1>11, <2>2, <3>1, <3>2
    <2> QED
      BY <1>9, <2>1, <2>2 DEF ReseatedAs
  <1> QED
    BY <1>8, <1>10, <1>11, <1>12, <1>13 DEF Reseating

(* After n of them everybody has been seated, or stands by. *)
LEMMA ReseatSteps ==
    ASSUME NEW f, NEW t, NEW old, NEW x, NEW n \in Nat, Reseating(f, t, x, n),
           NEW after, ReseatedBy(old, x, n, after)
    PROVE  Reseating(f, t, after[n], 0)
  <1> DEFINE Bad == {k \in 0..n : ~Reseating(f, t, after[k], n - k)}
  <1>1. Bad = {}
    <2> SUFFICES ASSUME Bad # {} PROVE FALSE
      OBVIOUS
    <2>0. Bad \in SUBSET Nat
      OBVIOUS
    <2>1. PICK k \in Bad : \A j \in Bad : k <= j
      <3> HIDE DEF Bad
      <3> QED
        BY <2>0, MinIn
    <2>2. k \in 0..n /\ ~Reseating(f, t, after[k], n - k)
      OBVIOUS
    <2>3. CASE k = 0
      <3>1. after[k] = x /\ n - k = n
        BY <2>2, <2>3 DEF ReseatedBy
      <3> QED
        BY <2>2, <3>1
    <2>4. CASE k # 0
      <3>1. k - 1 \in 0..n /\ k - 1 \notin Bad
        <4>1. k - 1 \in 0..n /\ ~(k <= k - 1)
          BY <2>2, <2>4
        <4> HIDE DEF Bad
        <4> QED
          BY <2>1, <4>1
      <3>2. Reseating(f, t, after[k - 1], n - (k - 1))
        BY <3>1
      <3>3. after[k] = Reseat(old, after[k - 1])
        BY <2>2, <2>4 DEF ReseatedBy
      <3>4. PICK m \in Nat : m = n - (k - 1) /\ m # 0 /\ m - 1 = n - k
        BY <2>2, <2>4
      <3>5. Reseating(f, t, Reseat(old, after[k - 1]), m - 1)
        BY <3>2, <3>4, ReseatIs
      <3> HIDE DEF Bad
      <3> QED
        BY <2>2, <3>3, <3>4, <3>5
    <2> HIDE DEF Bad
    <2> QED
      BY <2>3, <2>4
  <1>2. n \in 0..n /\ n - n = 0
    OBVIOUS
  <1>3. Reseating(f, t, after[n], n - n)
    BY <1>1, <1>2
  <1> QED
    BY <1>2, <1>3

(* g is the flight f after the change to type t. *)
ReequippedTo(f, t, g) == g = Reequipped(f, t)

(* Everyone has a seat of the new aircraft or stands by; and where the     *)
(* seat map has everyone in their seat, it agrees with the passengers.     *)
LEMMA ReequippedIs ==
    ASSUME NEW f, Fine(f, FALSE), NEW t \in Types, NEW ok, NEW g, ReequippedTo(f, t, g),
           ok => \A i \in DOMAIN g.pax : Flying(g.pax[i]) => g.occ[g.pax[i].seat] = i
    PROVE  FineAs(f, ok, g)
  <1>1. f \in Flight /\ Seated(f)
    BY DEF Fine
  <1>2. PICK bare : bare = [f EXCEPT !.type = t, !.occ = [s \in Seats |-> 0]]
    OBVIOUS
  <1>3. /\ bare \in Flight /\ bare.type = t /\ bare.state = f.state /\ bare.closure = f.closure
        /\ bare.pax = f.pax /\ bare.occ = [s \in Seats |-> 0]
    <2> QED
      BY <1>1, <1>2 DEF Flight
  <1>4. PICK x : x = [f |-> bare, left |-> Holders(f)]
    OBVIOUS
  <1>5. x.f = bare /\ x.left = Holders(f)
    BY <1>4
  <1>6. PICK n \in Nat : n = Cardinality(Holders(f)) /\ IsFiniteSet(Holders(f))
    <2>1. Holders(f) \in SUBSET DOMAIN f.pax /\ IsFiniteSet(DOMAIN f.pax)
      BY <1>1, FlightIs DEF Holders
    <2> QED
      BY <2>1, FS_Subset, FS_CardinalityType
  <1>7. \A i \in DOMAIN f.pax : Flying(f.pax[i]) <=> i \in Holders(f)
    <2>1. f.type \in Types
      BY <1>1, FlightIs
    <2>2. \A i \in DOMAIN f.pax : Flying(f.pax[i]) => f.pax[i].seat \in Seats
      BY <1>1, <2>1, PlaceIs DEF Seated
    <2>3. NoSeat \notin Seats
      BY GroundAssumption
    <2> QED
      BY <2>2, <2>3 DEF Holders
  <1>8. Holders(f) \subseteq DOMAIN f.pax
    BY DEF Holders
  <1>9. Reseating(f, t, x, n)
    BY <1>3, <1>5, <1>6, <1>7, <1>8 DEF Reseating
  <1>10. PICK after : /\ after = (CHOOSE h : ReseatedBy(f.type, x, n, h))
                      /\ ReseatedBy(f.type, x, n, after)
    BY ReseatingExists, Zenon
  <1>11. Reseating(f, t, after[n], 0)
    BY <1>9, <1>10, ReseatSteps, Zenon
  <1>12. Reequipped(f, t) = (CHOOSE h : ReseatedBy(f.type, x, n, h))[n].f
    BY <1>2, <1>4, <1>6, Zenon DEF Reequipped, ReseatedBy
  <1>13. g = after[n].f
    BY <1>10, <1>12, Zenon DEF ReequippedTo
  <1>14. PICK left : left = after[n].left
    OBVIOUS
  <1>15. left = {}
    BY <1>11, <1>14, FS_EmptySet DEF Reseating
  <1>16. /\ g \in Flight /\ g.type = t /\ g.state = f.state /\ g.closure = f.closure /\ Len(g.pax) = Len(f.pax)
         /\ \A i \in DOMAIN g.pax \ left : Flying(g.pax[i]) => Has(t, g.pax[i].seat)
         /\ \A s \in Seats : g.occ[s] # 0 =>
              g.occ[s] \in DOMAIN g.pax \ left /\ Flying(g.pax[g.occ[s]]) /\ g.pax[g.occ[s]].seat = s
    <2> QED
      BY <1>11, <1>13, <1>14 DEF Reseating
  <1>17. Seated(g) /\ (ok => Agree(g))
    BY <1>15, <1>16 DEF Seated, Agree
  <1> QED
    BY <1>16, <1>17 DEF FineAs, Fine

-----------------------------------------------------------------------------
(* Stopping and restoring. *)

(* The seat map rebuilt from the passengers is the one they agree with. *)
LEMMA RestoredSound ==
    ASSUME NEW d, NEW ok, Sound(d, ok)
    PROVE  Sound(Restored(d), ok) /\ Len(Restored(d).pax) = Len(d.pax)
  <1>1. d \in Flight /\ Seated(d) /\ (ok => Agree(d))
    BY DEF Sound, Fine
  <1>2. DOMAIN d.pax \in SUBSET Nat /\ 0 \notin DOMAIN d.pax /\ IsFiniteSet(DOMAIN d.pax)
    BY <1>1, FlightIs
  <1>3. \A i \in DOMAIN d.pax : d.pax[i].seq \in Nat
    <2>1. \A i \in DOMAIN d.pax : d.pax[i] \in Passenger
      BY <1>1, FlightIs
    <2> QED
      BY <2>1 DEF Passenger
  <1>4. PICK n \in Nat \ {0} : n = Max({d.pax[i].seq : i \in DOMAIN d.pax} \cup {0}) + 1
    <2>1. PICK seqs : seqs = {d.pax[i].seq : i \in DOMAIN d.pax}
      OBVIOUS
    <2>2. seqs \in SUBSET Nat
      BY <1>3, <2>1
    <2>3. IsFiniteSet(seqs)
      <3>1. PICK seq : seq = [i \in DOMAIN d.pax |-> d.pax[i].seq]
        OBVIOUS
      <3>2. seq \in Surjection(DOMAIN d.pax, seqs)
        BY <2>1, <3>1 DEF Surjection
      <3> QED
        BY <1>2, <3>2, FS_Surjection
    <2>4. IsFiniteSet(seqs \cup {0}) /\ seqs \cup {0} \in SUBSET Nat /\ seqs \cup {0} # {}
      BY <2>2, <2>3, FS_AddElement
    <2>5. PICK all : all = seqs \cup {0}
      OBVIOUS
    <2>6. Max(all) \in Nat
      BY <2>4, <2>5, MaxIn
    <2>7. Max(all) = Max({d.pax[i].seq : i \in DOMAIN d.pax} \cup {0})
      BY <2>1, <2>5, Zenon
    <2>8. PICK m \in Nat : m = Max({d.pax[i].seq : i \in DOMAIN d.pax} \cup {0})
      BY <2>6, <2>7, Zenon
    <2>9. m + 1 \in Nat \ {0} /\ m + 1 = Max({d.pax[i].seq : i \in DOMAIN d.pax} \cup {0}) + 1
      <3>1. m + 1 \in Nat \ {0}
        OBVIOUS
      <3> QED
        BY <2>8, <3>1, Zenon
    <2> QED
      BY <2>9, Zenon
  <1> DEFINE in(s) == {i \in DOMAIN d.pax : Flying(d.pax[i]) /\ d.pax[i].seat = s}
  <1>5. ASSUME NEW s PROVE Max(in(s) \cup {0}) \in in(s) \cup {0} /\ \A i \in in(s) : i <= Max(in(s) \cup {0})
    <2>1. in(s) \in SUBSET DOMAIN d.pax
      OBVIOUS
    <2>2. IsFiniteSet(in(s)) /\ in(s) \in SUBSET Nat
      BY <1>2, <2>1, FS_Subset
    <2>3. PICK all : all = in(s) \cup {0}
      OBVIOUS
    <2>4. IsFiniteSet(all) /\ all \in SUBSET Nat /\ all # {}
      BY <2>2, <2>3, FS_AddElement
    <2>5. Max(all) \in all /\ \A i \in all : i <= Max(all)
      BY <2>4, MaxIn
    <2> QED
      BY <2>3, <2>5
  <1>6. PICK occ : occ = [s \in Seats |-> Max(in(s) \cup {0})]
    OBVIOUS
  <1>7. PICK g : g = Restored(d)
    OBVIOUS
  <1>8. g = [d EXCEPT !.nextSeq = n, !.occ = occ]
    BY <1>4, <1>6, <1>7 DEF Restored
  <1> HIDE DEF in
  <1>9. occ \in [Seats -> Nat]
    <2>1. \A s \in Seats : in(s) \in SUBSET Nat
      BY <1>2 DEF in
    <2>2. \A s \in Seats : Max(in(s) \cup {0}) \in Nat
      BY <1>5, <2>1
    <2> QED
      BY <1>6, <2>2
  <1>10. /\ g \in Flight /\ g.type = d.type /\ g.state = d.state /\ g.closure = d.closure
         /\ g.pax = d.pax /\ g.occ = occ
    BY <1>1, <1>8, <1>9 DEF Flight
  <1>11. ASSUME ok PROVE Agree(g)
    <2>1. \A i \in DOMAIN d.pax : Flying(d.pax[i]) => d.pax[i].seat \in Seats
      <3>1. d.type \in Types
        BY <1>1, FlightIs
      <3> QED
        BY <1>1, <3>1, PlaceIs DEF Seated
    <2>2. ASSUME NEW i \in DOMAIN d.pax, Flying(d.pax[i]) PROVE occ[d.pax[i].seat] = i
      <3>1. PICK s \in Seats : s = d.pax[i].seat
        BY <2>1, <2>2
      <3>2. i \in in(s) /\ i \in Nat /\ i > 0
        BY <1>2, <2>2, <3>1 DEF in
      <3>3. \A j \in in(s) : j = i
        BY <1>1, <1>11, <2>2, <3>1 DEF Agree, in
      <3>4. occ[s] \in in(s) \cup {0} /\ i <= occ[s]
        BY <1>5, <1>6, <3>2
      <3> QED
        BY <3>1, <3>2, <3>3, <3>4
    <2>3. ASSUME NEW s \in Seats, occ[s] # 0
          PROVE  occ[s] \in DOMAIN d.pax /\ Flying(d.pax[occ[s]]) /\ d.pax[occ[s]].seat = s
      <3>1. occ[s] \in in(s)
        BY <1>5, <1>6, <2>3
      <3> QED
        BY <3>1 DEF in
    <2> QED
      BY <1>10, <2>2, <2>3 DEF Agree
  <1>12. Seated(g)
    BY <1>1, <1>10 DEF Seated
  <1>13. AddsUp(d) => AddsUp(g)
    BY <1>10 DEF AddsUp
  <1> QED
    BY <1>7, <1>10, <1>11, <1>12, <1>13 DEF Sound, Fine

-----------------------------------------------------------------------------
(* The station. *)

(* The flight and what was saved of it are sound; the one saved is not     *)
(* ahead of the other.                                                     *)
Flights ==
    /\ fl \in Flight \cup {None} /\ doc \in Flight \cup {None}
    /\ fl # None => Sound(fl, ~moved)
    /\ doc # None => Sound(doc, ~moved) /\ fl # None /\ Len(doc.pax) <= Len(fl.pax)

(* The rest, and a through check-in under way has somebody to accept. *)
Desk ==
    /\ tagSeq \in 0..MaxBags /\ moved \in BOOLEAN /\ events \in 0..MaxEvents
    /\ thr \in [pc : {"idle", "ask", "any"}, todo : Seq(Asked)]
    /\ thr.pc # "idle" => thr.todo # <<>>

GroundInv == Flights /\ Desk

(* Before the first name list there is no flight. *)
LEMMA InitGround == Init => GroundInv
  <1> SUFFICES ASSUME Init PROVE GroundInv
    OBVIOUS
  <1>1. Flights
    BY DEF Init, Flights
  <1>2. MaxBags \in Nat /\ MaxEvents \in Nat
    BY GroundAssumption
  <1>3. thr.pc = "idle" /\ thr \in [pc : {"idle", "ask", "any"}, todo : Seq(Asked)]
    <2>1. <<>> \in Seq(Asked)
      OBVIOUS
    <2>2. thr = [pc |-> "idle", todo |-> <<>>]
      BY DEF Init, Idle
    <2>3. PICK e \in Seq(Asked) : e = <<>>
      BY <2>1
    <2>4. [pc |-> "idle", todo |-> e] \in [pc : {"idle", "ask", "any"}, todo : Seq(Asked)]
      OBVIOUS
    <2> QED
      BY <2>2, <2>3, <2>4
  <1>4. Desk
    <2>1. tagSeq \in 0..MaxBags /\ moved \in BOOLEAN /\ events \in 0..MaxEvents
      <3>1. tagSeq = 0 /\ moved = FALSE /\ events = 0
        BY DEF Init
      <3>2. 0 \in 0..MaxBags /\ 0 \in 0..MaxEvents
        BY <1>2
      <3> QED
        BY <3>1, <3>2
    <2> QED
      BY <1>3, <2>1, Zenon DEF Desk
  <1> QED
    BY <1>1, <1>4 DEF GroundInv

(* A flight is not None. *)
LEMMA FlightNotNone ==
    ASSUME NEW f, NEW ok, Sound(f, ok)
    PROVE  f \in Flight /\ f # None
  BY NoneAssumption DEF Sound, Fine

(* A sound flight is one when less is asked of its seat map. *)
LEMMA SoundLess ==
    ASSUME NEW f, NEW ok, NEW less, Sound(f, ok), less => ok
    PROVE  Sound(f, less)
  BY DEF Sound, Fine

(* A flight not closed has made no reports. *)
LEMMA NotClosed ==
    ASSUME NEW f, NEW ok, Sound(f, ok), f.state # "closed"
    PROVE  f.closure = None
  BY DEF Sound

(* A flight that has reported nothing has nothing to add up. *)
LEMMA FineSound ==
    ASSUME NEW f, NEW ok, Fine(f, ok), f.closure = None
    PROVE  Sound(f, ok)
  BY DEF Sound

(* What an operation that leaves a sound flight behind does to both. *)
LEMMA FlightsStep ==
    ASSUME Flights, NEW g, Sound(g, ~moved'), fl # None => Len(fl.pax) <= Len(g.pax),
           fl' = g, doc' \in {g, doc}, moved \in BOOLEAN, moved' \in BOOLEAN, moved => moved'
    PROVE  Flights'
  <1>1. g \in Flight /\ g # None
    BY FlightNotNone
  <1>2. fl' \in Flight \cup {None} /\ doc' \in Flight \cup {None}
    BY <1>1 DEF Flights
  <1>3. Len(g.pax) \in Nat
    BY <1>1, FlightIs
  <1>4. CASE doc' = g
    BY <1>1, <1>2, <1>3, <1>4 DEF Flights
  <1>5. CASE doc' = doc
    <2>1. ASSUME doc # None PROVE Sound(doc, ~moved') /\ Len(doc.pax) <= Len(g.pax)
      <3>1. Sound(doc, ~moved) /\ fl # None /\ Len(doc.pax) <= Len(fl.pax) /\ Len(fl.pax) <= Len(g.pax)
        BY <2>1 DEF Flights
      <3>2. Sound(doc, ~moved')
        BY <3>1, SoundLess
      <3>3. Sound(fl, ~moved)
        BY <3>1 DEF Flights
      <3>4. Len(doc.pax) \in Nat /\ Len(fl.pax) \in Nat
        BY <3>1, <3>3, FlightIs DEF Sound, Fine
      <3> QED
        BY <1>3, <3>1, <3>2, <3>4
    <2> QED
      BY <1>1, <1>2, <1>5, <2>1 DEF Flights
  <1> QED
    BY <1>4, <1>5

(* Save, or its failure. *)
LEMMA SaveIs ==
    ASSUME Desk, NEW g, Save(g)
    PROVE  fl' = g /\ doc' \in {g, doc} /\ events' \in 0..MaxEvents
  <1>1. MaxEvents \in Nat
    BY GroundAssumption
  <1> QED
    BY <1>1 DEF Save, Event, Desk

(* An operation on the flight in memory, saved or not, that adds nobody. *)
LEMMA OperationStep ==
    ASSUME GroundInv, fl # None, NEW g, Sound(g, ~moved), Len(g.pax) = Len(fl.pax), Save(g),
           UNCHANGED <<tagSeq, thr, moved>>
    PROVE  GroundInv'
  <1>1. fl' = g /\ doc' \in {g, doc} /\ events' \in 0..MaxEvents
    BY SaveIs DEF GroundInv
  <1>2. fl \in Flight /\ g \in Flight /\ Len(fl.pax) \in Nat
    BY FlightIs DEF GroundInv, Flights, Sound, Fine
  <1>3. moved' = moved /\ moved \in BOOLEAN
    BY DEF GroundInv, Desk
  <1>4. Flights'
    <2>1. Sound(g, ~moved') /\ (fl # None => Len(fl.pax) <= Len(g.pax))
      BY <1>2, <1>3
    <2> QED
      BY <1>1, <1>3, <2>1, FlightsStep DEF GroundInv
  <1>5. Desk'
    BY <1>1 DEF GroundInv, Desk
  <1> QED
    BY <1>4, <1>5 DEF GroundInv

(* The flight in memory. *)
LEMMA InMemory ==
    ASSUME GroundInv, fl # None
    PROVE  Sound(fl, ~moved) /\ Fine(fl, ~moved) /\ fl \in Flight
  BY DEF GroundInv, Flights, Sound, Fine

(* A name list and its amendments. *)
LEMMA NameListStep ==
    ASSUME GroundInv, NEW m \in NameLists, ApplyNameList(m)
    PROVE  GroundInv'
  <1>1. PICK f : f = IF fl = None THEN open(Equipment) ELSE fl
    OBVIOUS
  <1>2. PICK g : g = IF m.kind = "PNL" THEN applyPNL(f, m) ELSE applyADL(f, m)
    OBVIOUS
  <1>3. /\ Event /\ f.state # "closed" /\ fl' = g /\ doc' \in {g, doc}
        /\ UNCHANGED <<tagSeq, thr, moved>>
    BY <1>1, <1>2 DEF ApplyNameList
  <1>4. Fine(f, ~moved) /\ f.closure = None /\ Len(f.pax) \in Nat /\ (fl # None => f = fl)
    <2>1. CASE fl = None
      <3>1. Equipment \in Types
        BY GroundAssumption
      <3> QED
        BY <1>1, <2>1, <3>1, OpenFine
    <2>2. CASE fl # None
      <3>1. Sound(fl, ~moved) /\ Fine(fl, ~moved) /\ f = fl /\ fl \in Flight
        BY <1>1, <2>2, InMemory
      <3>2. fl.closure = None
        BY <1>3, <3>1, NotClosed
      <3> QED
        BY <3>1, <3>2, FlightIs
    <2> QED
      BY <2>1, <2>2
  <1>5. NamesAs(f, g)
    BY <1>2, <1>4, NameListIs DEF Fine
  <1>6. SeatsStay(f, g) /\ g.closure = None /\ Len(f.pax) <= Len(g.pax)
    BY <1>4, <1>5 DEF NamesAs
  <1>7. Fine(g, ~moved)
    BY <1>4, <1>6, SeatsStayFine
  <1>8. Sound(g, ~moved)
    BY <1>6, <1>7, FineSound
  <1>9. moved' = moved /\ moved \in BOOLEAN
    BY <1>3 DEF GroundInv, Desk
  <1>10. Flights'
    <2>1. Sound(g, ~moved') /\ (fl # None => Len(fl.pax) <= Len(g.pax))
      BY <1>4, <1>6, <1>8, <1>9
    <2> QED
      BY <1>3, <1>9, <2>1, FlightsStep DEF GroundInv
  <1>11. Desk'
    <2>1. MaxEvents \in Nat
      BY GroundAssumption
    <2> QED
      BY <1>3, <2>1 DEF GroundInv, Desk, Event
  <1> QED
    BY <1>10, <1>11 DEF GroundInv

(* Seats for passengers who wait. *)
LEMMA TakeFits ==
    ASSUME NEW f \in Flight, NEW ids \in SUBSET DOMAIN f.pax, NEW wish,
           wish # NoSeat => \A i, j \in ids : i = j,
           SeatsFor(f, ids, wish) # None
    PROVE  SeatsFit(f, ids, SeatsFor(f, ids, wish))
  <1>1. f.type \in Types /\ DOMAIN f.pax \in SUBSET Nat /\ IsFiniteSet(DOMAIN f.pax)
    BY FlightIs
  <1>2. ids \in SUBSET Nat /\ IsFiniteSet(ids)
    BY <1>1, FS_Subset
  <1>3. \A i \in ids : f.pax[i].comp \in Comps
    <2>1. \A i \in DOMAIN f.pax : f.pax[i] \in Passenger
      BY FlightIs
    <2> QED
      BY <2>1 DEF Passenger
  <1> QED
    BY <1>1, <1>2, <1>3, SeatsForFit

(* The body of every acceptance. *)
LEMMA TakeIs ==
    ASSUME GroundInv, fl # None, NEW ids \in SUBSET DOMAIN fl.pax, \A i \in ids : ~Flying(fl.pax[i]),
           NEW wish, wish # NoSeat => \A i, j \in ids : i = j, NEW n \in Nat, NEW force,
           Take(ids, wish, n, force), UNCHANGED moved
    PROVE  Flights' /\ tagSeq' \in 0..MaxBags /\ events' \in 0..MaxEvents
  <1>1. PICK seats : seats = SeatsFor(fl, ids, wish)
    OBVIOUS
  <1>2. PICK bags : bags = NewBags(n)
    OBVIOUS
  <1>3. PICK g : g = Accepted(fl, ids, seats, bags)
    OBVIOUS
  <1>4. /\ fl.state # "closed" /\ tagSeq + n <= MaxBags /\ seats # None
        /\ Save(g) /\ tagSeq' = tagSeq + n
    BY <1>1, <1>2, <1>3 DEF Take, MayAccept
  <1>5. Sound(fl, ~moved) /\ Fine(fl, ~moved) /\ fl \in Flight /\ fl.closure = None
    BY <1>4, InMemory, NotClosed
  <1>6. SeatsFit(fl, ids, seats)
    BY <1>1, <1>4, <1>5, TakeFits
  <1>7. tagSeq \in Nat /\ MaxBags \in Nat
    BY GroundAssumption DEF GroundInv, Desk
  <1>8. bags \in SUBSET Bag
    <2>1. ASSUME NEW b \in bags PROVE b \in Bag
      <3>1. PICK k \in 1..n : b = [tag |-> tagSeq + k, loaded |-> FALSE, off |-> FALSE]
        BY <1>2 DEF NewBags
      <3>2. PICK t \in Nat : t = tagSeq + k
        BY <1>7
      <3>3. [tag |-> t, loaded |-> FALSE, off |-> FALSE] \in Bag
        BY DEF Bag
      <3> QED
        BY <3>1, <3>2, <3>3
    <2> QED
      BY <2>1
  <1>9. AcceptedAs(fl, ids, seats, g)
    BY <1>3, <1>5, <1>6, <1>8, AcceptedIs, Zenon
  <1>10. Fine(g, ~moved)
    BY <1>3, <1>5, <1>6, <1>8, AcceptedFine, Zenon
  <1>11. g \in Flight /\ g.closure = None /\ Len(g.pax) = Len(fl.pax) /\ Len(fl.pax) \in Nat
    BY <1>5, <1>9, FlightIs DEF AcceptedAs
  <1>12. Sound(g, ~moved)
    BY <1>10, <1>11, FineSound
  <1>13. fl' = g /\ doc' \in {g, doc} /\ events' \in 0..MaxEvents
    BY <1>4, SaveIs DEF GroundInv
  <1>14. moved' = moved /\ moved \in BOOLEAN
    BY DEF GroundInv, Desk
  <1>15. Flights'
    <2>1. Sound(g, ~moved') /\ (fl # None => Len(fl.pax) <= Len(g.pax))
      BY <1>11, <1>12, <1>14
    <2> QED
      BY <1>13, <1>14, <2>1, FlightsStep DEF GroundInv
  <1>17. tagSeq' \in 0..MaxBags
    BY <1>4, <1>7
  <1> QED
    BY <1>13, <1>15, <1>17

(* Accept of a party. *)
LEMMA AcceptPartyStep ==
    ASSUME GroundInv, NEW key, NEW n \in Nat, NEW force, AcceptParty(key, n, force)
    PROVE  GroundInv'
  <1>1. /\ fl # None /\ Take(Resolve(fl, key), NoSeat, n, force) /\ UNCHANGED <<thr, moved>>
    BY DEF AcceptParty
  <1>2. PICK ids : ids = Resolve(fl, key)
    OBVIOUS
  <1>3. ids \in SUBSET DOMAIN fl.pax /\ \A i \in ids : ~Flying(fl.pax[i])
    BY <1>2 DEF Resolve, Flying
  <1>4. Take(ids, NoSeat, n, force) /\ UNCHANGED moved /\ (NoSeat # NoSeat => \A i, j \in ids : i = j)
    BY <1>1, <1>2
  <1>5. Flights' /\ tagSeq' \in 0..MaxBags /\ events' \in 0..MaxEvents
    BY <1>1, <1>3, <1>4, TakeIs, Zenon
  <1>6. Desk'
    BY <1>1, <1>5 DEF GroundInv, Desk
  <1> QED
    BY <1>5, <1>6 DEF GroundInv

(* One passenger, in any seat or in the one asked for. *)
LEMMA TakeOneIs ==
    ASSUME GroundInv, fl # None, NEW i, Waiting(i), NEW wish, NEW n \in Nat, NEW force,
           Take({i}, wish, n, force), UNCHANGED moved
    PROVE  Flights' /\ tagSeq' \in 0..MaxBags /\ events' \in 0..MaxEvents
  <1>1. PICK ids : ids = {i}
    OBVIOUS
  <1>2. ids \in SUBSET DOMAIN fl.pax /\ \A j \in ids : ~Flying(fl.pax[j])
    BY <1>1 DEF Waiting, Flying
  <1>3. Take(ids, wish, n, force) /\ (wish # NoSeat => \A j, k \in ids : j = k)
    BY <1>1
  <1> QED
    BY <1>2, <1>3, TakeIs, Zenon

(* Accept of one passenger, in a seat asked for or any. *)
LEMMA AcceptOneStep ==
    ASSUME GroundInv, NEW i, NEW wish, NEW force, AcceptOne(i, wish, force)
    PROVE  GroundInv'
  <1>1. fl # None /\ Waiting(i) /\ 0 \in Nat /\ Take({i}, wish, 0, force) /\ UNCHANGED thr /\ UNCHANGED moved
    BY DEF AcceptOne
  <1>2. Flights' /\ tagSeq' \in 0..MaxBags /\ events' \in 0..MaxEvents
    BY <1>1, TakeOneIs, Zenon
  <1>3. Desk'
    BY <1>1, <1>2 DEF GroundInv, Desk
  <1> QED
    BY <1>2, <1>3 DEF GroundInv

(* Board. *)
LEMMA BoardStep ==
    ASSUME GroundInv, NEW i, Board(i)
    PROVE  GroundInv'
  <1>1. PICK g : BoardedTo(fl, i, g)
    BY DEF BoardedTo
  <1>2. /\ fl # None /\ fl.state # "closed" /\ i \in DOMAIN fl.pax /\ fl.pax[i].status = "accepted"
        /\ Save(g) /\ UNCHANGED <<tagSeq, thr, moved>>
    BY <1>1 DEF Board, BoardedTo
  <1>3. Fine(fl, ~moved) /\ fl.closure = None
    BY <1>2, InMemory, NotClosed
  <1>4. FineAs(fl, ~moved, g)
    BY <1>1, <1>2, <1>3, BoardedIs, Zenon
  <1>5. Sound(g, ~moved) /\ Len(g.pax) = Len(fl.pax)
    BY <1>3, <1>4, FineSound DEF FineAs
  <1> QED
    BY <1>2, <1>5, OperationStep

(* Offload. *)
LEMMA OffloadStep ==
    ASSUME GroundInv, NEW i, Offload(i)
    PROVE  GroundInv'
  <1>1. PICK g : g = Offloaded(fl, {i})
    OBVIOUS
  <1>2. /\ fl # None /\ fl.state # "closed" /\ i \in DOMAIN fl.pax /\ Flying(fl.pax[i])
        /\ Save(g) /\ UNCHANGED <<tagSeq, thr, moved>>
    BY <1>1 DEF Offload
  <1>3. Fine(fl, ~moved) /\ fl \in Flight /\ fl.closure = None
    BY <1>2, InMemory, NotClosed
  <1>4. {i} \in SUBSET DOMAIN fl.pax /\ \A j \in {i} : Flying(fl.pax[j])
    BY <1>2
  <1>5. OffloadedAs(fl, {i}, g) /\ Fine(g, ~moved)
    BY <1>1, <1>3, <1>4, OffloadedIs, OffloadedFine, Zenon
  <1>6. g.closure = None /\ Len(g.pax) = Len(fl.pax)
    BY <1>3, <1>5 DEF OffloadedAs
  <1>7. Sound(g, ~moved)
    BY <1>5, <1>6, FineSound
  <1> QED
    BY <1>2, <1>6, <1>7, OperationStep

(* CloseCheckIn, with the standbys it clears. *)
LEMMA CloseCheckInStep ==
    ASSUME GroundInv, CloseCheckIn
    PROVE  GroundInv'
  <1>1. PICK g : g = closeCheckIn(fl)
    OBVIOUS
  <1>2. fl # None /\ fl.state # "closed" /\ Save(g) /\ UNCHANGED <<tagSeq, thr, moved>>
    BY <1>1 DEF CloseCheckIn
  <1>3. Fine(fl, ~moved) /\ fl.closure = None
    BY <1>2, InMemory, NotClosed
  <1>4. Fine(g, ~moved) /\ g.closure = None /\ Len(g.pax) = Len(fl.pax)
    BY <1>1, <1>3, CloseCheckInIs
  <1>5. Sound(g, ~moved)
    BY <1>4, FineSound
  <1> QED
    BY <1>2, <1>4, <1>5, OperationStep

(* CloseFlight: refused over unaccompanied bags, done, or closed and not   *)
(* reported because the save failed.                                       *)
LEMMA CloseFlightStep ==
    ASSUME GroundInv, NEW force, NEW reconciled, CloseFlight(force, reconciled)
    PROVE  GroundInv'
  <1>1. PICK c : c = closeCheckIn(fl)
    OBVIOUS
  <1>2. PICK f : f = Settled(c)
    OBVIOUS
  <1>3. /\ fl # None /\ fl.state # "closed" /\ UNCHANGED <<tagSeq, thr, moved>>
        /\ \/ fl' = f /\ UNCHANGED <<doc, events>>
           \/ Save(Closed(f))
           \/ Save([Closed(f) EXCEPT !.closure = None])
    BY <1>1, <1>2 DEF CloseFlight, Save
  <1>4. Fine(fl, ~moved) /\ fl.closure = None
    BY <1>3, InMemory, NotClosed
  <1>5. Fine(c, ~moved) /\ c.closure = None /\ Len(c.pax) = Len(fl.pax)
    BY <1>1, <1>4, CloseCheckInIs
  <1>6. SettledAs(c, ~moved, f)
    BY <1>2, <1>5, SettledIs
  <1>7. /\ Fine(f, ~moved) /\ f.closure = None /\ Len(f.pax) = Len(fl.pax)
        /\ \A i \in DOMAIN f.pax : f.pax[i].status \notin {"listed", "accepted"}
    BY <1>5, <1>6 DEF SettledAs, FineAs
  <1>8. CASE Save(Closed(f))
    <2>1. PICK g : g = Closed(f)
      OBVIOUS
    <2>2. Sound(g, ~moved) /\ Len(g.pax) = Len(fl.pax)
      BY <1>7, <2>1, ClosedSound
    <2> QED
      BY <1>3, <1>8, <2>1, <2>2, OperationStep
  <1>10. CASE Save([Closed(f) EXCEPT !.closure = None])
    <2>1. PICK h : h = Closed(f)
      OBVIOUS
    <2>2. Fine(h, ~moved) /\ Len(h.pax) = Len(fl.pax)
      BY <1>7, <2>1, ClosedSound DEF Sound
    <2>3. PICK g : g = [h EXCEPT !.closure = None]
      OBVIOUS
    <2>4. g \in Flight /\ g.type = h.type /\ g.occ = h.occ /\ g.pax = h.pax /\ g.closure = None
      BY <2>2, <2>3 DEF Fine, Flight
    <2>5. Fine(g, ~moved)
      BY <2>2, <2>4 DEF Fine, Seated, Agree
    <2>6. Sound(g, ~moved) /\ Len(g.pax) = Len(fl.pax)
      BY <2>2, <2>4, <2>5, FineSound
    <2> QED
      BY <1>3, <1>10, <2>1, <2>3, <2>6, OperationStep
  <1>9. CASE fl' = f /\ UNCHANGED <<doc, events>>
    <2>1. Sound(f, ~moved)
      BY <1>7, FineSound
    <2>2. moved' = moved /\ moved \in BOOLEAN
      BY <1>3 DEF GroundInv, Desk
    <2>3. fl \in Flight /\ f \in Flight /\ Len(fl.pax) \in Nat
      BY <1>4, <1>7, FlightIs DEF Fine
    <2>4. Flights'
      <3>1. Sound(f, ~moved') /\ (fl # None => Len(fl.pax) <= Len(f.pax)) /\ doc' \in {f, doc}
        BY <1>7, <1>9, <2>1, <2>2, <2>3
      <3> QED
        BY <1>9, <2>2, <3>1, FlightsStep DEF GroundInv
    <2>5. Desk'
      BY <1>3, <1>9 DEF GroundInv, Desk
    <2> QED
      BY <2>4, <2>5 DEF GroundInv
  <1> QED
    BY <1>3, <1>8, <1>9, <1>10

(* CancelFlight: a closed flight without a closure. *)
LEMMA CancelStep ==
    ASSUME GroundInv, CancelFlight
    PROVE  GroundInv'
  <1>1. PICK ids : ids = {i \in DOMAIN fl.pax : Flying(fl.pax[i])}
    OBVIOUS
  <1>2. PICK f : f = Offloaded(fl, ids)
    OBVIOUS
  <1>3. PICK g : g = [f EXCEPT !.state = "closed", !.cancelled = TRUE]
    OBVIOUS
  <1>4. fl # None /\ fl.state # "closed" /\ Save(g) /\ UNCHANGED <<tagSeq, thr, moved>>
    BY <1>1, <1>2, <1>3 DEF CancelFlight
  <1>5. Fine(fl, ~moved) /\ fl \in Flight /\ fl.closure = None
    BY <1>4, InMemory, NotClosed
  <1>6. ids \in SUBSET DOMAIN fl.pax /\ \A i \in ids : Flying(fl.pax[i])
    BY <1>1
  <1>7. OffloadedAs(fl, ids, f) /\ Fine(f, ~moved)
    BY <1>2, <1>5, <1>6, OffloadedIs, OffloadedFine, Zenon
  <1>8. f \in Flight /\ f.closure = None /\ Len(f.pax) = Len(fl.pax)
    BY <1>5, <1>7 DEF OffloadedAs
  <1>9. g \in Flight /\ g.type = f.type /\ g.occ = f.occ /\ g.pax = f.pax /\ g.closure = f.closure
    BY <1>3, <1>8 DEF Flight
  <1>10. Fine(g, ~moved)
    BY <1>7, <1>9 DEF Fine, Seated, Agree
  <1>11. Sound(g, ~moved) /\ Len(g.pax) = Len(fl.pax)
    BY <1>8, <1>9, <1>10, FineSound
  <1> QED
    BY <1>4, <1>11, OperationStep

(* ApplyBagReport, of a closed flight too. *)
LEMMA BagReportStep ==
    ASSUME GroundInv, NEW tag, ApplyBagReport(tag)
    PROVE  GroundInv'
  <1>1. PICK with : with = {i \in DOMAIN fl.pax : \E b \in fl.pax[i].bags : b.tag = tag}
    OBVIOUS
  <1>2. PICK i : i = Min(with)
    OBVIOUS
  <1>3. PICK g : LoadedTo(fl, i, tag, g)
    BY DEF LoadedTo
  <1>4. fl # None /\ with # {} /\ Save(g) /\ UNCHANGED <<tagSeq, thr, moved>>
    BY <1>1, <1>2, <1>3 DEF ApplyBagReport, LoadedTo
  <1>5. Sound(fl, ~moved) /\ fl \in Flight
    BY <1>4, InMemory
  <1>6. with \in SUBSET DOMAIN fl.pax /\ DOMAIN fl.pax \in SUBSET Nat
    BY <1>1, <1>5, FlightIs
  <1>7. i \in DOMAIN fl.pax
    BY <1>2, <1>4, <1>6, MinIn
  <1>8. Sound(g, ~moved) /\ Len(g.pax) = Len(fl.pax)
    BY <1>3, <1>5, <1>7, BagReportSound, Zenon
  <1> QED
    BY <1>4, <1>8, OperationStep

(* ChangeEquipment: either somebody moved, or the map agrees again. *)
LEMMA EquipmentStep ==
    ASSUME GroundInv, NEW t \in Types, ChangeEquipment(t)
    PROVE  GroundInv'
  <1>1. PICK g : g = Reequipped(fl, t)
    OBVIOUS
  <1>2. /\ fl # None /\ fl.state # "closed" /\ Event /\ fl' = g /\ doc' \in {g, doc}
        /\ moved' = (moved \/ \E i \in DOMAIN g.pax : Flying(g.pax[i]) /\ g.occ[g.pax[i].seat] # i)
        /\ UNCHANGED <<tagSeq, thr>>
    BY <1>1 DEF ChangeEquipment
  <1>3. Fine(fl, ~moved) /\ fl \in Flight /\ fl.closure = None
    BY <1>2, InMemory, NotClosed
  <1>4. Fine(fl, FALSE)
    BY <1>3 DEF Fine
  <1>5. moved \in BOOLEAN /\ moved' \in BOOLEAN /\ (moved => moved')
    BY <1>2 DEF GroundInv, Desk
  <1>6. ~moved' => \A i \in DOMAIN g.pax : Flying(g.pax[i]) => g.occ[g.pax[i].seat] = i
    BY <1>2
  <1>7. FineAs(fl, ~moved', g)
    BY <1>1, <1>4, <1>6, ReequippedIs DEF ReequippedTo
  <1>8. Sound(g, ~moved') /\ Len(g.pax) = Len(fl.pax) /\ g \in Flight /\ Len(fl.pax) \in Nat
    BY <1>3, <1>7, FineSound, FlightIs DEF FineAs, Fine
  <1>9. Flights'
    <2>1. fl # None => Len(fl.pax) <= Len(g.pax)
      BY <1>8
    <2> QED
      BY <1>2, <1>5, <1>8, <2>1, FlightsStep DEF GroundInv
  <1>10. Desk'
    <2>1. MaxEvents \in Nat
      BY GroundAssumption
    <2> QED
      BY <1>2, <1>5, <2>1 DEF GroundInv, Desk, Event
  <1> QED
    BY <1>9, <1>10 DEF GroundInv

(* A go-show joins the manifest, to stand by. *)
Joined(f, comp, cat) ==
    [f EXCEPT !.pax = Append(@,
        [party |-> "GOSHOW", nth |-> Len(f.pax) + 1, comp |-> comp, status |-> "standby",
         cat |-> cat, seat |-> NoSeat, seq |-> 0, dropped |-> FALSE, bags |-> {}])]

JoinedAs(f, comp, g) ==
    /\ NamesAs(f, g) /\ Len(g.pax) = Len(f.pax) + 1
    /\ ~Flying(g.pax[Len(f.pax) + 1]) /\ g.pax[Len(f.pax) + 1].comp = comp

(* A go-show joins the manifest's end without a seat. *)
LEMMA JoinedIs ==
    ASSUME NEW f \in Flight, NEW comp \in Comps, NEW cat \in Categories, NEW g, g = Joined(f, comp, cat)
    PROVE  JoinedAs(f, comp, g)
  <1>1. PICK old \in Seq(Passenger) : old = f.pax
    BY FlightIs
  <1>2. PICK n \in Nat : n = Len(old) /\ DOMAIN old = 1..n
    OBVIOUS
  <1>3. PICK q : q = [party |-> "GOSHOW", nth |-> n + 1, comp |-> comp, status |-> "standby",
                      cat |-> cat, seat |-> NoSeat, seq |-> 0, dropped |-> FALSE, bags |-> {}]
    OBVIOUS
  <1>4. q \in Passenger /\ ~Flying(q) /\ q.comp = comp
    <2>1. "GOSHOW" \in Parties
      BY DEF Parties
    <2>2. PICK m \in Nat : m = n + 1
      OBVIOUS
    <2> QED
      BY <1>3, <2>1, <2>2 DEF Passenger, Statuses, Flying
  <1>5. PICK p : p = Append(old, q)
    OBVIOUS
  <1>6. /\ p \in Seq(Passenger) /\ Len(p) = n + 1 /\ DOMAIN p = 1..(n + 1)
        /\ p[n + 1] = q /\ \A i \in 1..n : p[i] = old[i]
    BY <1>2, <1>4, <1>5
  <1>7. Rewritten(f, p, g)
    BY <1>1, <1>2, <1>3, <1>5 DEF Rewritten, Joined
  <1>8. DOMAIN f.pax \subseteq DOMAIN p /\ Len(f.pax) <= Len(p)
    BY <1>1, <1>2, <1>6
  <1>9. \A i \in DOMAIN f.pax : /\ Flying(p[i]) <=> Flying(f.pax[i])
                                /\ Flying(f.pax[i]) => p[i].seat = f.pax[i].seat
    BY <1>1, <1>2, <1>6
  <1>10. \A i \in DOMAIN p \ DOMAIN f.pax : ~Flying(p[i])
    <2>1. ASSUME NEW i \in DOMAIN p \ DOMAIN f.pax PROVE i = n + 1
      BY <1>1, <1>2, <1>6
    <2> QED
      BY <1>4, <1>6, <2>1
  <1>11. NamesAs(f, g)
    BY <1>6, <1>7, <1>8, <1>9, <1>10, RewrittenNames, Zenon
  <1>12. g.pax = p
    BY <1>6, <1>7, RewrittenIs, Zenon
  <1> QED
    BY <1>1, <1>2, <1>4, <1>6, <1>11, <1>12 DEF JoinedAs

(* AcceptGoShow, accepted at once or standing by. *)
LEMMA GoShowStep ==
    ASSUME GroundInv, NEW g \in GoShows, AcceptGoShow(g)
    PROVE  GroundInv'
  <1>0. fl # None /\ fl.state = "open"
    BY DEF AcceptGoShow
  <1>1. Fine(fl, ~moved) /\ fl \in Flight /\ fl.closure = None
    BY <1>0, InMemory, NotClosed
  <1>2. fl.type \in Types /\ Len(fl.pax) \in Nat /\ DOMAIN fl.pax = 1..Len(fl.pax)
    BY <1>1, FlightIs
  <1>3. g.class \in Comps /\ g.cat \in Categories
    BY GroundAssumption
  <1>4. PICK comp \in Comps : comp = CompartmentFor(fl.type, g.class)
    BY <1>2, <1>3, CompartmentIs
  <1>5. PICK n \in Nat : n = Len(fl.pax) + 1
    BY <1>2
  <1>6. PICK f : f = Joined(fl, comp, g.cat)
    OBVIOUS
  <1>7. PICK seats : seats = SeatsFor(f, {n}, g.seat)
    OBVIOUS
  <1>8. PICK waits : waits = (g.standby \/ g.cat = "staff" \/ spare(f, comp) <= 0)
    OBVIOUS
  <1>9. PICK h : h = IF waits \/ seats = None THEN f ELSE Accepted(f, {n}, seats, {})
    OBVIOUS
  <1>10. Save(h) /\ UNCHANGED <<tagSeq, thr, moved>>
    BY <1>4, <1>5, <1>6, <1>7, <1>8, <1>9 DEF AcceptGoShow, Joined
  <1>11. JoinedAs(fl, comp, f)
    BY <1>1, <1>3, <1>6, JoinedIs
  <1>12. /\ SeatsStay(fl, f) /\ f \in Flight /\ f.closure = None /\ Len(f.pax) = n /\ f.type = fl.type
         /\ ~Flying(f.pax[n]) /\ f.pax[n].comp = comp
    BY <1>1, <1>5, <1>11 DEF JoinedAs, NamesAs, SeatsStay
  <1>13. Fine(f, ~moved)
    BY <1>1, <1>12, SeatsStayFine
  <1>14. n \in DOMAIN f.pax /\ DOMAIN f.pax = 1..n
    BY <1>2, <1>5, <1>12, FlightIs
  <1>15. ASSUME ~(waits \/ seats = None)
         PROVE  /\ SeatsFit(f, {n}, seats) /\ AcceptedAs(f, {n}, seats, h) /\ Fine(h, ~moved)
    <2>1. h = Accepted(f, {n}, seats, {}) /\ seats # None
      BY <1>9, <1>15
    <2>2. {n} \in SUBSET DOMAIN f.pax /\ {} \in SUBSET Bag /\ \A i \in {n} : ~Flying(f.pax[i])
      BY <1>12, <1>14
    <2>3. SeatsFit(f, {n}, seats)
      <3>1. {n} \in SUBSET Nat /\ IsFiniteSet({n}) /\ f.type \in Types
        BY <1>2, <1>12, FS_Singleton
      <3>2. \A i \in {n} : f.pax[i].comp \in Comps
        BY <1>12
      <3>3. /\ SeatsFit(f, {n}, SeatsFor(f, {n}, g.seat))
            /\ g.seat = NoSeat => \A i \in {n} : CompOf(f.type, SeatsFor(f, {n}, g.seat)[i]) = f.pax[i].comp
        <4>1. g.seat # NoSeat => \A i, j \in {n} : i = j
          OBVIOUS
        <4> QED
          BY <1>7, <2>1, <3>1, <3>2, <4>1, SeatsForFit, Zenon
      <3> QED
        BY <1>7, <1>12, <3>3
    <2>5. AcceptedAs(f, {n}, seats, h)
      BY <1>12, <2>1, <2>2, <2>3, AcceptedIs, Zenon
    <2>6. Fine(h, ~moved)
      BY <1>13, <2>1, <2>2, <2>3, AcceptedFine, Zenon
    <2> QED
      BY <2>3, <2>5, <2>6
  <1>16. Fine(h, ~moved) /\ h.closure = None /\ Len(h.pax) = n
    <2>1. CASE waits \/ seats = None
      BY <1>9, <1>12, <1>13, <2>1
    <2>2. CASE ~(waits \/ seats = None)
      BY <1>12, <1>15, <2>2 DEF AcceptedAs
    <2> QED
      BY <2>1, <2>2
  <1>17. Sound(h, ~moved)
    BY <1>16, FineSound
  <1>18. fl' = h /\ doc' \in {h, doc} /\ events' \in 0..MaxEvents
    BY <1>10, SaveIs DEF GroundInv
  <1>19. moved' = moved /\ moved \in BOOLEAN
    BY <1>10 DEF GroundInv, Desk
  <1>20. Flights'
    <2>1. Sound(h, ~moved') /\ (fl # None => Len(fl.pax) <= Len(h.pax))
      BY <1>2, <1>5, <1>16, <1>17, <1>19
    <2> QED
      BY <1>18, <1>19, <2>1, FlightsStep DEF GroundInv
  <1>21. Desk'
    BY <1>10, <1>18 DEF GroundInv, Desk
  <1> QED
    BY <1>20, <1>21 DEF GroundInv

(* A through check-in under way. *)
Through == [pc : {"idle", "ask", "any"}, todo : Seq(Asked)]

(* What a through check-in is made of. *)
LEMMA ThroughIs ==
    ASSUME NEW pc \in {"idle", "ask", "any"}, NEW todo \in Seq(Asked)
    PROVE  [pc |-> pc, todo |-> todo] \in Through
  BY DEF Through

(* None under way. *)
LEMMA IdleIs == Idle \in Through /\ Idle.pc = "idle"
  <1>0. <<>> \in Seq(Asked)
    OBVIOUS
  <1>1. PICK e \in Seq(Asked) : e = <<>>
    BY <1>0, Zenon
  <1>2. [pc |-> "idle", todo |-> e] \in Through
    BY ThroughIs
  <1>3. Idle = [pc |-> "idle", todo |-> e]
    BY <1>1 DEF Idle
  <1> QED
    BY <1>2, <1>3

(* The next passenger asked for, or the end. *)
LEMMA ThroughNextIs ==
    ASSUME Desk, thr.pc # "idle", ThroughNext
    PROVE  thr' \in Through /\ (thr'.pc # "idle" => thr'.todo # <<>>)
  <1>1. PICK todo \in Seq(Asked) : todo = thr.todo /\ todo # <<>>
    BY DEF Desk
  <1>2. CASE Len(todo) > 1
    <2>1. PICK rest : rest = Tail(todo)
      OBVIOUS
    <2>2. rest \in Seq(Asked) /\ rest # <<>>
      <3>1. Len(todo) \in Nat /\ todo # <<>>
        BY <1>1
      <3>2. rest \in Seq(Asked) /\ Len(rest) = Len(todo) - 1
        BY <2>1, <3>1
      <3>3. Len(rest) # 0
        BY <1>2, <3>1, <3>2
      <3> QED
        BY <3>2, <3>3
    <2>3. thr' = [pc |-> "ask", todo |-> rest]
      BY <1>1, <1>2, <2>1 DEF ThroughNext
    <2>4. thr' \in Through
      BY <2>2, <2>3, ThroughIs
    <2> QED
      BY <2>2, <2>3, <2>4
  <1>3. CASE ~(Len(todo) > 1)
    <2>1. thr' = Idle
      BY <1>1, <1>3 DEF ThroughNext
    <2> QED
      BY <2>1, IdleIs
  <1> QED
    BY <1>2, <1>3

(* Nothing happens to the flight. *)
LEMMA FlightStays ==
    ASSUME GroundInv, UNCHANGED <<fl, doc, moved>>
    PROVE  Flights'
  BY DEF GroundInv, Flights

(* ThroughCheckIn looks everybody up and changes no flight. *)
LEMMA ThroughCheckInStep ==
    ASSUME GroundInv, NEW call \in ThroughCalls, ThroughCheckIn(call)
    PROVE  GroundInv'
  <1>1. Event /\ fl # None /\ UNCHANGED <<fl, doc, tagSeq, moved>>
    BY DEF ThroughCheckIn
  <1>2. fl \in Flight
    BY <1>1, InMemory
  <1>3. call \in Seq([party : STRING, nth : Nat, seat : Seats \cup {NoSeat}, bags : Nat]) /\ call # <<>>
    BY GroundAssumption
  <1>4. PICK n \in Nat : n # 0 /\ DOMAIN call = 1..n /\ \A k \in 1..n : call[k].seat \in Seats \cup {NoSeat} /\ call[k].bags \in Nat
    <2>1. /\ Len(call) \in Nat /\ DOMAIN call = 1..Len(call)
          /\ \A k \in DOMAIN call : call[k] \in [party : STRING, nth : Nat, seat : Seats \cup {NoSeat}, bags : Nat]
      BY <1>3, SeqIs
    <2>2. Len(call) # 0
      BY <1>3
    <2>3. \A k \in DOMAIN call : call[k].seat \in Seats \cup {NoSeat} /\ call[k].bags \in Nat
      BY <2>1
    <2> QED
      BY <2>1, <2>2, <2>3
  <1> DEFINE id(k) == IF findListed(fl, call[k]) = {} THEN 0 ELSE Min(findListed(fl, call[k]))
  <1>5. ASSUME NEW k PROVE id(k) \in Nat
    <2>1. findListed(fl, call[k]) \in SUBSET DOMAIN fl.pax /\ DOMAIN fl.pax \in SUBSET Nat
      BY <1>2, FlightIs DEF findListed
    <2>2. PICK S : S = findListed(fl, call[k])
      OBVIOUS
    <2>3. S # {} => Min(S) \in Nat
      BY <2>1, <2>2, MinIn
    <2> QED
      BY <2>2, <2>3
  <1>6. PICK todo : todo = [k \in DOMAIN call |-> [id |-> id(k), seat |-> call[k].seat, bags |-> call[k].bags]]
    OBVIOUS
  <1>7. thr' = [pc |-> "ask", todo |-> todo]
    BY <1>6 DEF ThroughCheckIn
  <1> HIDE DEF id
  <1>8. todo \in [1..n -> Asked]
    BY <1>4, <1>5, <1>6 DEF Asked
  <1>9. todo \in Seq(Asked) /\ todo # <<>>
    <2>1. todo \in Seq(Asked) /\ Len(todo) = n
      BY <1>8
    <2> QED
      BY <1>4, <2>1
  <1>10. thr' \in Through /\ thr'.todo # <<>>
    BY <1>7, <1>9, ThroughIs
  <1>11. events' \in 0..MaxEvents
    <2>1. MaxEvents \in Nat
      BY GroundAssumption
    <2> QED
      BY <1>1, <2>1 DEF GroundInv, Desk, Event
  <1>12. Desk'
    <2>1. tagSeq' \in 0..MaxBags /\ moved' \in BOOLEAN
      BY <1>1 DEF GroundInv, Desk
    <2> QED
      BY <1>10, <1>11, <2>1 DEF Desk, Through
  <1>13. Flights'
    BY <1>1, FlightStays
  <1> QED
    BY <1>12, <1>13 DEF GroundInv

(* Its Accept calls, though the flight has changed since. *)
LEMMA ThroughAcceptStep ==
    ASSUME GroundInv, ThroughAccept
    PROVE  GroundInv'
  <1>1. PICK i : i = Head(thr.todo).id
    OBVIOUS
  <1>2. PICK wish : wish = IF thr.pc = "any" THEN NoSeat ELSE Head(thr.todo).seat
    OBVIOUS
  <1>8. PICK n : n = Head(thr.todo).bags
    OBVIOUS
  <1>3. /\ thr.pc # "idle" /\ UNCHANGED moved
        /\ \/ MayAccept(fl, FALSE) /\ Waiting(i) /\ Take({i}, wish, n, FALSE) /\ ThroughNext
           \/ thr' = [thr EXCEPT !.pc = "any"] /\ UNCHANGED <<fl, doc, tagSeq, events>>
           \/ ThroughNext /\ UNCHANGED <<fl, doc, tagSeq, events>>
    BY <1>1, <1>2, <1>8 DEF ThroughAccept
  <1>4. Desk /\ moved' \in BOOLEAN
    BY <1>3 DEF GroundInv, Desk
  <1>5. CASE MayAccept(fl, FALSE) /\ Waiting(i) /\ Take({i}, wish, n, FALSE) /\ ThroughNext
    <2>1. fl # None
      BY <1>5 DEF MayAccept
    <2>4. n \in Nat
      <3>1. PICK todo \in Seq(Asked) : todo = thr.todo /\ todo # <<>>
        BY <1>3, <1>4 DEF Desk
      <3>2. Head(todo) \in Asked
        BY <3>1
      <3> QED
        BY <1>8, <3>1, <3>2 DEF Asked
    <2>2. Flights' /\ tagSeq' \in 0..MaxBags /\ events' \in 0..MaxEvents
      BY <1>3, <1>5, <2>1, <2>4, TakeOneIs, Zenon
    <2>3. thr' \in Through /\ (thr'.pc # "idle" => thr'.todo # <<>>)
      BY <1>3, <1>4, <1>5, ThroughNextIs
    <2> QED
      BY <1>4, <2>2, <2>3 DEF GroundInv, Desk, Through
  <1>6. CASE thr' = [thr EXCEPT !.pc = "any"] /\ UNCHANGED <<fl, doc, tagSeq, events>>
    <2>1. thr' \in Through /\ thr'.todo # <<>>
      BY <1>3, <1>4, <1>6 DEF Desk, Through
    <2>2. Flights'
      BY <1>3, <1>6, FlightStays
    <2>3. tagSeq' \in 0..MaxBags /\ events' \in 0..MaxEvents
      BY <1>4, <1>6 DEF Desk
    <2> QED
      BY <1>4, <2>1, <2>2, <2>3 DEF GroundInv, Desk, Through
  <1>7. CASE ThroughNext /\ UNCHANGED <<fl, doc, tagSeq, events>>
    <2>1. thr' \in Through /\ (thr'.pc # "idle" => thr'.todo # <<>>)
      BY <1>3, <1>4, <1>7, ThroughNextIs
    <2>2. Flights'
      BY <1>3, <1>7, FlightStays
    <2>3. tagSeq' \in 0..MaxBags /\ events' \in 0..MaxEvents
      BY <1>4, <1>7 DEF Desk
    <2> QED
      BY <1>4, <2>1, <2>2, <2>3 DEF GroundInv, Desk, Through
  <1> QED
    BY <1>3, <1>5, <1>6, <1>7

(* Restore: the seat map is rebuilt from the passengers of the saved       *)
(* flight.                                                                 *)
LEMMA RestoreStep ==
    ASSUME GroundInv, Restore
    PROVE  GroundInv'
  <1>1. /\ Event /\ doc' = doc /\ moved' = moved /\ tagSeq' = 0 /\ thr' = Idle
        /\ fl' = IF doc = None THEN None ELSE Restored(doc)
    BY DEF Restore
  <1>2. CASE doc = None
    <2>1. fl' = None /\ doc' = None
      BY <1>1, <1>2
    <2> QED
      <3>1. Flights'
        BY <2>1 DEF Flights
      <3>2. Desk'
        <4>1. MaxBags \in Nat /\ MaxEvents \in Nat
          BY GroundAssumption
        <4>2. tagSeq' \in 0..MaxBags /\ events' \in 0..MaxEvents /\ moved' \in BOOLEAN
          BY <1>1, <4>1 DEF GroundInv, Desk, Event
        <4> QED
          BY <1>1, <4>2, IdleIs DEF Desk, Through
      <3> QED
        BY <3>1, <3>2 DEF GroundInv
  <1>3. CASE doc # None
    <2>1. PICK g : g = Restored(doc)
      OBVIOUS
    <2>2. Sound(doc, ~moved) /\ fl # None /\ Len(doc.pax) <= Len(fl.pax) /\ Sound(fl, ~moved)
      BY <1>3 DEF GroundInv, Flights
    <2>3. Sound(g, ~moved) /\ Len(g.pax) = Len(doc.pax)
      BY <2>1, <2>2, RestoredSound
    <2>4. g \in Flight /\ g # None /\ doc \in Flight /\ fl \in Flight /\ fl' = g
      BY <1>1, <1>3, <2>1, <2>2, <2>3, FlightNotNone
    <2>5. Len(doc.pax) \in Nat
      BY <2>4, FlightIs
    <2>6. Flights'
      BY <1>1, <2>2, <2>3, <2>4, <2>5 DEF Flights
    <2>8. Desk'
      <3>1. MaxBags \in Nat /\ MaxEvents \in Nat
        BY GroundAssumption
      <3>2. tagSeq' \in 0..MaxBags /\ events' \in 0..MaxEvents /\ moved' \in BOOLEAN
        BY <1>1, <3>1 DEF GroundInv, Desk, Event
      <3> QED
        BY <1>1, <3>2, IdleIs DEF Desk, Through
    <2> QED
      BY <2>6, <2>8 DEF GroundInv
  <1> QED
    BY <1>2, <1>3

(* Any step. *)
LEMMA GroundStep ==
    ASSUME GroundInv, [Next]_vars
    PROVE  GroundInv'
  <1>1. ASSUME NEW m \in NameLists, ApplyNameList(m) PROVE GroundInv'
    BY <1>1, NameListStep
  <1>2. ASSUME NEW k \in Parties, NEW n \in 0..1, NEW force \in BOOLEAN, AcceptParty(k, n, force)
        PROVE  GroundInv'
    <2>1. n \in Nat
      OBVIOUS
    <2> QED
      BY <1>2, <2>1, AcceptPartyStep
  <1>3. ASSUME NEW i \in 1..MaxPax, NEW w \in SeatWishes, NEW force \in BOOLEAN, AcceptOne(i, w, force)
        PROVE  GroundInv'
    BY <1>3, AcceptOneStep
  <1>4. ASSUME NEW g \in GoShows, AcceptGoShow(g) PROVE GroundInv'
    BY <1>4, GoShowStep
  <1>5. ASSUME NEW i \in 1..MaxPax, Board(i) \/ Offload(i) PROVE GroundInv'
    BY <1>5, BoardStep, OffloadStep
  <1>6. CASE CloseCheckIn
    BY <1>6, CloseCheckInStep
  <1>7. ASSUME NEW force \in BOOLEAN, NEW reconciled \in BOOLEAN, CloseFlight(force, reconciled)
        PROVE  GroundInv'
    BY <1>7, CloseFlightStep
  <1>8. CASE CancelFlight
    BY <1>8, CancelStep
  <1>9. ASSUME NEW tag \in 1..MaxBags, ApplyBagReport(tag) PROVE GroundInv'
    BY <1>9, BagReportStep
  <1>10. ASSUME NEW t \in Types, ChangeEquipment(t) PROVE GroundInv'
    BY <1>10, EquipmentStep
  <1>11. ASSUME NEW call \in ThroughCalls, ThroughCheckIn(call) PROVE GroundInv'
    BY <1>11, ThroughCheckInStep
  <1>12. CASE ThroughAccept
    BY <1>12, ThroughAcceptStep
  <1>13. CASE Restore
    BY <1>13, RestoreStep
  <1>14. CASE UNCHANGED vars
    <2>1. UNCHANGED <<fl, doc, moved>> /\ UNCHANGED <<tagSeq, thr, events>>
      BY <1>14 DEF vars
    <2>2. Flights'
      BY <2>1, FlightStays
    <2>3. Desk'
      BY <2>1 DEF GroundInv, Desk
    <2> QED
      BY <2>2, <2>3 DEF GroundInv
  <1> QED
    BY <1>1, <1>2, <1>3, <1>4, <1>5, <1>6, <1>7, <1>8, <1>9, <1>10, <1>11, <1>12, <1>13, <1>14, Zenon DEF Next

(* The invariant holds. *)
LEMMA GroundInvAlways == Spec => []GroundInv
  <1>1. Init => GroundInv
    BY InitGround
  <1>2. GroundInv /\ [Next]_vars => GroundInv'
    BY GroundStep
  <1> QED
    BY <1>1, <1>2, PTL DEF Spec

-----------------------------------------------------------------------------
(* Theorems. *)

(* Every operation of the station leaves a flight, in memory and in the    *)
(* store, whose fields are of their types (dcs.go, checkin.go, seatmap.go, *)
(* equipment.go).                                                          *)
THEOREM TypeCorrect == Spec => []TypeOK
  <1>1. GroundInv => TypeOK
    BY DEF GroundInv, Flights, Desk, TypeOK
  <1> QED
    BY <1>1, GroundInvAlways, PTL

(* The seat map and the passengers agree until an equipment change re-seats *)
(* somebody (checkin.go:accept and offload, store.go:LoadFlight): on any    *)
(* aircraft, after any number of name lists, acceptances, through check-ins *)
(* and restarts, and although every save may fail.                          *)
THEOREM SeatsAgreeAlways == Spec => []SeatsAgree
  <1>1. GroundInv => SeatsAgree
    <2> SUFFICES ASSUME GroundInv, fl # None, ~moved
                 PROVE  /\ \A i \in DOMAIN fl.pax : Flying(fl.pax[i]) =>
                              Has(fl.type, fl.pax[i].seat) /\ fl.occ[fl.pax[i].seat] = i
                        /\ \A s \in Seats : fl.occ[s] # 0 =>
                              Flying(fl.pax[fl.occ[s]]) /\ fl.pax[fl.occ[s]].seat = s
      BY DEF SeatsAgree
    <2>1. Seated(fl) /\ Agree(fl)
      BY InMemory DEF Fine
    <2> QED
      BY <2>1 DEF Seated, Agree
  <1> QED
    BY <1>1, GroundInvAlways, PTL

(* What a closed flight reported adds up ever after (checkin.go:           *)
(* CloseFlight): the ticket list is those on board, the hold has bags of   *)
(* theirs alone, and whoever was expected and stayed was reported, whatever *)
(* bag reports and restarts come later.                                    *)
THEOREM ClosureAddsUpAlways == Spec => []ClosureAddsUp
  <1>1. GroundInv => ClosureAddsUp
    <2> SUFFICES ASSUME GroundInv, fl # None, fl.closure # None
                 PROVE  AddsUp(fl)
      BY DEF ClosureAddsUp, AddsUp
    <2> QED
      BY InMemory DEF Sound
  <1> QED
    BY <1>1, GroundInvAlways, PTL

=============================================================================
