--------------------------- MODULE TicketingProofs ---------------------------
(***************************************************************************)
(* For any itinerary, any number of passengers, agents, links and calls:   *)
(* no passenger gets two live coupons over one segment but by exchange,    *)
(* value coupons end with the flight coupon they are stapled to, and every *)
(* carrier hears of every document or a divergence is raised.              *)
(***************************************************************************)
EXTENDS Ticketing, FiniteSetTheorems, WellFoundedInduction, NaturalsInduction, TLAPS

-----------------------------------------------------------------------------
(* Numbers in order. *)

(* A set of naturals has a least element. *)
LEMMA LeastElement ==
    ASSUME NEW S \in SUBSET Nat, S # {}
    PROVE  \E x \in S : \A y \in S : x <= y
  <1> DEFINE R == OpToRel(<, Nat)
  <1>1. IsWellFoundedOn(R, Nat)
    BY NatLessThanWellFounded
  <1>2. \A x, y \in Nat : <<x, y>> \in R <=> x < y
    BY DEF OpToRel
  <1> HIDE DEF R
  <1>3. PICK x \in S : \A y \in S : ~(<<y, x>> \in R)
    BY <1>1, WFMin
  <1>4. ASSUME NEW y \in S PROVE x <= y
    <2>1. x \in Nat /\ y \in Nat /\ ~(<<y, x>> \in R)
      BY <1>3
    <2>2. ~(y < x)
      BY <1>2, <2>1, Zenon
    <2> QED
      BY <2>1, <2>2
  <1> QED
    BY <1>4

(* A bounded set of naturals that has an element has a greatest one: the   *)
(* one least far from the bound.                                           *)
LEMMA GreatestElement ==
    ASSUME NEW S \in SUBSET Nat, S # {}, NEW n \in Nat, \A x \in S : x <= n
    PROVE  \E x \in S : \A y \in S : y <= x
  <1> DEFINE D == {n - x : x \in S}
  <1>1. \A x \in S : x \in Nat /\ n - x \in Nat
    OBVIOUS
  <1>2. D \in SUBSET Nat /\ D # {}
    BY <1>1
  <1>3. PICK d \in D : \A e \in D : d <= e
    <2> HIDE DEF D
    <2> QED
      BY <1>2, LeastElement
  <1>4. PICK x \in S : d = n - x
    OBVIOUS
  <1>5. ASSUME NEW y \in S PROVE y <= x
    <2>1. n - x <= n - y
      BY <1>3, <1>4
    <2> QED
      BY <1>1, <2>1
  <1> QED
    BY <1>5

(* The members of a finite set of naturals can be put in order: the n-th   *)
(* is the one with n members up to it.                                     *)
LEMMA AscendingFacts ==
    ASSUME NEW S \in SUBSET Nat, IsFiniteSet(S)
    PROVE  /\ Cardinality(S) \in Nat
           /\ Ascending(S) \in [1..Cardinality(S) -> S]
           /\ \A i, j \in 1..Cardinality(S) : i < j => Ascending(S)[i] < Ascending(S)[j]
  <1> DEFINE n == Cardinality(S)
             upto(x) == {y \in S : y <= x}
             rank == [x \in S |-> Cardinality(upto(x))]
  <1>1. n \in Nat
    BY FS_CardinalityType
  <1>2. ASSUME NEW x \in S
        PROVE  rank[x] \in 1..n /\ IsFiniteSet(upto(x))
    <2>1. IsFiniteSet(upto(x)) /\ Cardinality(upto(x)) <= n /\ upto(x) # {}
      BY FS_Subset
    <2>2. Cardinality(upto(x)) \in Nat /\ Cardinality(upto(x)) # 0
      BY <2>1, FS_CardinalityType, FS_EmptySet
    <2> QED
      BY <1>1, <2>1, <2>2
  <1>3. ASSUME NEW x \in S, NEW y \in S, x < y
        PROVE  rank[x] < rank[y]
    <2>1. \A z \in Nat : z <= x => z <= y
      BY <1>3
    <2>2. upto(x) \in SUBSET upto(y)
      BY <2>1
    <2>3. y \in upto(y) /\ y \notin upto(x)
      BY <1>3
    <2>4. IsFiniteSet(upto(x)) /\ IsFiniteSet(upto(y))
      BY <1>2
    <2>5. Cardinality(upto(x)) <= Cardinality(upto(y)) /\ Cardinality(upto(x)) # Cardinality(upto(y))
      BY <2>2, <2>3, <2>4, FS_Subset
    <2>6. Cardinality(upto(x)) \in Nat /\ Cardinality(upto(y)) \in Nat
      BY <2>4, FS_CardinalityType
    <2> QED
      BY <2>5, <2>6
  <1>4. \A x, y \in S : x # y => rank[x] # rank[y]
    <2> SUFFICES ASSUME NEW x \in S, NEW y \in S, x # y PROVE rank[x] # rank[y]
      OBVIOUS
    <2>1. rank[x] \in Nat /\ rank[y] \in Nat
      BY <1>1, <1>2
    <2>2. x < y \/ y < x
      OBVIOUS
    <2> QED
      BY <1>3, <2>1, <2>2
  <1>5. rank \in Injection(S, 1..n)
    BY <1>2, <1>4 DEF Injection, IsInjective
  <1>6. IsFiniteSet(1..n) /\ Cardinality(1..n) = n
    BY <1>1, FS_Interval
  <1>7. \A i \in 1..n : \E x \in S : rank[x] = i
    <2>1. rank \in Surjection(S, 1..n)
      BY <1>5, <1>6, FS_Injection
    <2> HIDE DEF rank
    <2> QED
      BY <2>1 DEF Surjection
  <1> HIDE DEF rank, upto
  <1> DEFINE f == [i \in 1..n |-> CHOOSE x \in S : rank[x] = i]
  <1>8. f \in [1..n -> S] /\ \A i \in 1..n : rank[f[i]] = i
    BY <1>7
  <1>9. \A i, j \in 1..n : i < j => f[i] < f[j]
    <2> SUFFICES ASSUME NEW i \in 1..n, NEW j \in 1..n, i < j PROVE f[i] < f[j]
      OBVIOUS
    <2> HIDE DEF f
    <2>1. f[i] \in S /\ f[j] \in S /\ rank[f[i]] = i /\ rank[f[j]] = j
      BY <1>8
    <2>2. f[j] < f[i] => j < i
      BY <1>3, <2>1
    <2>3. f[i] # f[j]
      BY <2>1
    <2>4. f[i] \in Nat /\ f[j] \in Nat
      BY <2>1
    <2> QED
      BY <1>1, <2>2, <2>3, <2>4
  <1> HIDE DEF f
  <1> QED
    BY <1>1, <1>8, <1>9 DEF Ascending

-----------------------------------------------------------------------------
(* New tickets. *)

(* The segments a document is for. *)
Segs(t) == {t.coupons[n].seg : n \in DOMAIN t.coupons}

(* A flight ticket of the passenger over some of the segments, with        *)
(* nothing stapled to anything.                                            *)
NewTicket(t, segs, p, from) ==
    /\ t \in Document /\ t.type = "T" /\ t.pax = p /\ t.from = from
    /\ Segs(t) \subseteq segs
    /\ \A n \in DOMAIN t.coupons : t.coupons[n].assoc = Unstapled

(* The segments of a record are among those there are. *)
Itinerary(r) == Booked <= Len(r.segs) /\ Len(r.segs) <= Len(Operator)

(* The live segments, in order, each once. *)
LEMMA TicketableFacts ==
    ASSUME NEW r \in Record, Itinerary(r)
    PROVE  /\ Live(r) \subseteq 1..Len(Operator)
           /\ Cardinality(Live(r)) \in Nat
           /\ TicketableSegments(r) \in [1..Cardinality(Live(r)) -> Live(r)]
           /\ \A i, j \in 1..Cardinality(Live(r)) : i # j => TicketableSegments(r)[i] # TicketableSegments(r)[j]
  <1>1. Len(r.segs) \in Nat /\ Len(Operator) \in Nat /\ Len(r.segs) <= Len(Operator)
    BY TicketingAssumption DEF Record, Itinerary
  <1>2. Live(r) \subseteq 1..Len(r.segs)
    BY DEF Live, Record
  <1>3. IsFiniteSet(Live(r)) /\ Live(r) \in SUBSET Nat /\ Live(r) \subseteq 1..Len(Operator)
    <2>1. Live(r) \in SUBSET Nat /\ \A x \in Live(r) : x <= Len(r.segs)
      BY <1>1, <1>2
    <2>2. IsFiniteSet(Live(r))
      BY <1>1, <2>1, FS_BoundedSetOfNaturals
    <2>3. 1..Len(r.segs) \subseteq 1..Len(Operator)
      BY <1>1
    <2> QED
      BY <1>2, <2>1, <2>2, <2>3
  <1> DEFINE S == Live(r)
             s == Ascending(S)
  <1>4. Cardinality(S) \in Nat /\ s \in [1..Cardinality(S) -> S]
        /\ \A i, j \in 1..Cardinality(S) : i < j => s[i] < s[j]
    BY <1>3, AscendingFacts
  <1>5. ASSUME NEW i \in 1..Cardinality(S), NEW j \in 1..Cardinality(S), i # j
        PROVE  s[i] # s[j]
    <2> HIDE DEF s, S
    <2>1. i \in Nat /\ j \in Nat /\ s[i] \in Nat /\ s[j] \in Nat
      BY <1>3, <1>4 DEF S
    <2>2. i < j \/ j < i
      BY <1>5, <2>1
    <2>3. s[i] < s[j] \/ s[j] < s[i]
      BY <1>4, <2>2
    <2> QED
      BY <2>1, <2>3
  <1> QED
    BY <1>3, <1>4, <1>5 DEF TicketableSegments

(* A function on the first numbers is a sequence. *)
LEMMA SeqFromFunction ==
    ASSUME NEW T, NEW n \in Int, NEW f, f \in [1..n -> T]
    PROVE  f \in Seq(T) /\ DOMAIN f = 1..n
  <1>1. CASE n >= 0
    BY <1>1
  <1>2. CASE n < 0
    <2>1. 1..n = 1..0
      BY <1>2
    <2>2. f \in [1..0 -> T]
      BY <2>1
    <2> QED
      BY <2>1, <2>2
  <1> QED
    BY <1>1, <1>2

(* The chunks of a conjunction set are apart: the last coupon of one comes *)
(* before the first of any later one.                                      *)
LEMMA ChunksApart ==
    ASSUME NEW k \in Nat, NEW l \in Nat, k < l, NEW M \in Nat
    PROVE  k * M <= (l - 1) * M
  <1>1. PICK c \in Nat : l - 1 = k + c
    <2>1. l - 1 - k \in Nat /\ l - 1 = k + (l - 1 - k)
      OBVIOUS
    <2> QED
      BY <2>1
  <1>2. (k + c) * M = k * M + c * M
    OBVIOUS
  <1>3. c * M \in Nat /\ k * M \in Nat
    OBVIOUS
  <1> QED
    BY <1>1, <1>2, <1>3

(* issueFor: a conjunction set is flight tickets of the passenger over     *)
(* live segments, and no two of them over the same one.                    *)
LEMMA IssueForFacts ==
    ASSUME NEW r \in Record, Itinerary(r), NEW p \in 1..Passengers, NEW from \in Nat
    PROVE  /\ IssueFor(r, p, from) \in Seq(Document)
           /\ \A k \in DOMAIN IssueFor(r, p, from) :
                 NewTicket(IssueFor(r, p, from)[k], Live(r), p, from)
           /\ \A k, l \in DOMAIN IssueFor(r, p, from) :
                 k # l => Segs(IssueFor(r, p, from)[k]) \cap Segs(IssueFor(r, p, from)[l]) = {}
  <1> DEFINE L == Live(r)
             N == Cardinality(L)
             M == MaxCoupons
             segs == TicketableSegments(r)
             size == (Len(segs) + M - 1) \div M
             last(k) == IF k * M < Len(segs) THEN k * M ELSE Len(segs)
             cs(k) == [n \in 1..(last(k) - (k - 1) * M) |->
                          [seg |-> segs[(k - 1) * M + n], status |-> "O", assoc |-> Unstapled]]
             doc(k) == [type |-> "T", pax |-> p, from |-> from, coupons |-> cs(k)]
  <1>1. L \subseteq 1..Len(Operator) /\ N \in Nat /\ segs \in [1..N -> L]
        /\ \A i, j \in 1..N : i # j => segs[i] # segs[j]
    BY TicketableFacts
  <1>2. M \in Nat /\ M > 0
    BY TicketingAssumption
  <1>3. IssueFor(r, p, from) = [k \in 1..size |-> doc(k)]
    BY DEF IssueFor
  <1> HIDE DEF L, N, M, segs
  <1>4. Len(segs) = N
    BY <1>1
  <1>5. size \in Int
    BY <1>1, <1>2, <1>4
  <1>6. ASSUME NEW k \in 1..size
        PROVE  /\ last(k) \in Nat /\ last(k) <= N /\ last(k) <= k * M
               /\ (k - 1) * M \in Nat
    <2>1. k \in Nat /\ k - 1 \in Nat /\ k * M \in Nat /\ (k - 1) * M \in Nat
      BY <1>2, <1>5
    <2> QED
      BY <1>1, <1>4, <2>1
  <1>7. ASSUME NEW k \in 1..size, NEW n \in 1..(last(k) - (k - 1) * M)
        PROVE  (k - 1) * M + n \in 1..N /\ (k - 1) * M + n <= k * M
    <2> HIDE DEF last, size
    <2>1. PICK a, b, c : a = (k - 1) * M /\ b = last(k) /\ c = k * M
      OBVIOUS
    <2>2. a \in Nat /\ b \in Nat /\ b <= N /\ b <= c
      BY <1>6, <2>1
    <2>3. c \in Nat
      <3>1. k \in Nat
        BY <1>5
      <3> QED
        BY <1>2, <2>1, <3>1
    <2>4. n \in 1..(b - a)
      BY <2>1
    <2> QED
      BY <1>1, <2>1, <2>2, <2>3, <2>4
  <1>8. ASSUME NEW k \in 1..size
        PROVE  /\ cs(k) \in Seq(Coupon) /\ DOMAIN cs(k) = 1..(last(k) - (k - 1) * M)
               /\ \A n \in DOMAIN cs(k) : /\ cs(k)[n].seg = segs[(k - 1) * M + n]
                                          /\ cs(k)[n].seg \in L
                                          /\ cs(k)[n].assoc = Unstapled
    <2>1. last(k) - (k - 1) * M \in Int
      BY <1>6
    <2> HIDE DEF last, size
    <2>2. ASSUME NEW n \in 1..(last(k) - (k - 1) * M)
          PROVE  /\ cs(k)[n] \in Coupon /\ cs(k)[n].seg \in L
      <3>1. PICK j : j = (k - 1) * M + n
        OBVIOUS
      <3>2. j \in 1..N /\ segs[j] \in L /\ segs[j] \in 0..Len(Operator)
        <4>1. j \in 1..N
          BY <1>7, <3>1
        <4>2. segs[j] \in L /\ Len(Operator) \in Nat
          BY <1>1, <4>1, TicketingAssumption
        <4>3. segs[j] \in 1..Len(Operator)
          BY <1>1, <4>2
        <4> QED
          BY <4>1, <4>2, <4>3
      <3> QED
        BY <3>1, <3>2 DEF Coupon, Statuses, Unstapled
    <2>3. cs(k) \in [1..(last(k) - (k - 1) * M) -> Coupon]
      BY <2>2
    <2>4. cs(k) \in Seq(Coupon) /\ DOMAIN cs(k) = 1..(last(k) - (k - 1) * M)
      BY <2>1, <2>3, SeqFromFunction
    <2> QED
      BY <2>2, <2>4
  <1>9. ASSUME NEW k \in 1..size
        PROVE  doc(k) \in Document /\ NewTicket(doc(k), L, p, from)
    <2> HIDE DEF cs, size
    <2>1. doc(k) \in Document
      BY <1>8 DEF Document
    <2> QED
      BY <1>8, <2>1 DEF NewTicket, Segs
  <1>10. ASSUME NEW k \in 1..size, NEW l \in 1..size, k < l
         PROVE  Segs(doc(k)) \cap Segs(doc(l)) = {}
    <2> SUFFICES ASSUME NEW n \in DOMAIN cs(k), NEW m \in DOMAIN cs(l), cs(k)[n].seg = cs(l)[m].seg
                 PROVE  FALSE
      BY DEF Segs
    <2>1. PICK i, j : i = (k - 1) * M + n /\ j = (l - 1) * M + m
      OBVIOUS
    <2>2. i \in 1..N /\ j \in 1..N /\ segs[i] = segs[j]
      BY <1>7, <1>8, <2>1
    <2>3. i <= k * M /\ m \in 1..(last(l) - (l - 1) * M) /\ k * M <= (l - 1) * M
      <3>1. k \in Nat /\ l \in Nat
        BY <1>5
      <3>2. k * M <= (l - 1) * M
        BY <1>2, <1>10, <3>1, ChunksApart
      <3> QED
        BY <1>7, <1>8, <2>1, <3>2
    <2>4. (l - 1) * M \in Nat /\ k * M \in Nat /\ m \in Nat /\ m > 0
      <3>1. k \in Nat
        BY <1>5
      <3> QED
        BY <1>2, <1>6, <2>3, <3>1
    <2>5. i < j
      <3> HIDE DEF last, size
      <3>1. PICK a, b : a = k * M /\ b = (l - 1) * M
        OBVIOUS
      <3>2. a \in Nat /\ b \in Nat /\ a <= b /\ i <= a /\ j = b + m /\ i \in Nat
        BY <1>1, <2>1, <2>2, <2>3, <2>4, <3>1
      <3> QED
        BY <2>4, <3>2
    <2> QED
      BY <1>1, <2>2, <2>5
  <1> HIDE DEF doc, size
  <1>11. \A k, l \in 1..size : k # l => Segs(doc(k)) \cap Segs(doc(l)) = {}
    <2> SUFFICES ASSUME NEW k \in 1..size, NEW l \in 1..size, k # l
                 PROVE  Segs(doc(k)) \cap Segs(doc(l)) = {}
      OBVIOUS
    <2>1. k < l \/ l < k
      BY <1>5
    <2> QED
      BY <1>10, <2>1
  <1>12. /\ [k \in 1..size |-> doc(k)] \in Seq(Document)
         /\ DOMAIN [k \in 1..size |-> doc(k)] = 1..size
    BY <1>5, <1>9, SeqFromFunction
  <1> QED
    BY <1>3, <1>9, <1>11, <1>12 DEF L

(* The sets of several passengers, one after the other, exist as FlattenSeq *)
(* computes them.                                                          *)
LEMMA FlattenExists ==
    ASSUME NEW seqs, NEW n \in Nat
    PROVE  \E f : f = [i \in 1..n |-> IF i = 1 THEN seqs[i] ELSE f[i - 1] \o seqs[i]]
  <1> DEFINE Is(f, m) == f = [i \in 1..m |-> IF i = 1 THEN seqs[i] ELSE f[i - 1] \o seqs[i]]
             Bad == {m \in Nat : ~\E f : Is(f, m)}
  <1> SUFFICES ASSUME Bad # {} PROVE FALSE
    OBVIOUS
  <1>1. PICK m \in Bad : \A k \in Bad : m <= k
    BY LeastElement
  <1>2. m \in Nat
    OBVIOUS
  <1>3. CASE m = 0
    <2>1. Is([i \in 1..0 |-> 0], 0)
      OBVIOUS
    <2> QED
      BY <1>1, <1>3, <2>1
  <1>4. CASE m # 0
    <2>1. m - 1 \in Nat /\ m - 1 \notin Bad
      <3> HIDE DEF Bad
      <3> QED
        BY <1>1, <1>2, <1>4
    <2>2. PICK f : Is(f, m - 1)
      BY <2>1
    <2> DEFINE g == [i \in 1..m |-> IF i = 1 THEN seqs[i] ELSE IF i = m THEN f[m - 1] \o seqs[i] ELSE f[i]]
    <2>3. ASSUME NEW i \in 1..m
          PROVE  g[i] = IF i = 1 THEN seqs[i] ELSE g[i - 1] \o seqs[i]
      <3>1. CASE i = 1
        BY <3>1
      <3>2. CASE i # 1
        <4>1. i - 1 \in 1..m /\ i - 1 \in 1..(m - 1) /\ i - 1 # m
          BY <1>2, <3>2
        <4>2. g[i - 1] = f[i - 1]
          BY <2>2, <4>1
        <4>3. CASE i = m
          BY <3>2, <4>1, <4>2, <4>3
        <4>4. CASE i # m
          <5>1. i \in 1..(m - 1)
            BY <1>2, <4>4
          <5>2. f[i] = f[i - 1] \o seqs[i]
            BY <2>2, <3>2, <5>1
          <5> QED
            BY <3>2, <4>1, <4>2, <4>4, <5>2
        <4> QED
          BY <4>3, <4>4
      <3> QED
        BY <3>1, <3>2
    <2>4. Is(g, m)
      BY <2>3
    <2> QED
      BY <1>1, <2>4
  <1> QED
    BY <1>3, <1>4

(* Tickets of the passengers ps alone, of which no two of one passenger    *)
(* are over the same segment.                                              *)
TicketSet(ds, r, ps, from) ==
    /\ ds \in Seq(Document)
    /\ \A k \in DOMAIN ds : \E p \in ps : NewTicket(ds[k], Live(r), p, from[p])
    /\ \A k, l \in DOMAIN ds : k # l /\ ds[k].pax = ds[l].pax => Segs(ds[k]) \cap Segs(ds[l]) = {}

(* The elements of a concatenation. *)
LEMMA ConcatFacts ==
    ASSUME NEW T, NEW a \in Seq(T), NEW b \in Seq(T)
    PROVE  /\ a \o b \in Seq(T) /\ Len(a \o b) = Len(a) + Len(b)
           /\ \A k \in DOMAIN a : k \in DOMAIN (a \o b) /\ (a \o b)[k] = a[k]
           /\ \A k \in DOMAIN (a \o b) :
                 k \notin DOMAIN a => k - Len(a) \in DOMAIN b /\ (a \o b)[k] = b[k - Len(a)]
  OBVIOUS

(* The tickets of some passengers followed by those of another one. *)
LEMMA TicketSetsJoin ==
    ASSUME NEW r, NEW ps, NEW p, p \notin ps, NEW from,
           NEW a, NEW b, TicketSet(a, r, ps, from), TicketSet(b, r, {p}, from)
    PROVE  TicketSet(a \o b, r, ps \cup {p}, from)
  <1> DEFINE c == a \o b
  <1>1. a \in Seq(Document) /\ b \in Seq(Document)
    BY DEF TicketSet
  <1>2. /\ c \in Seq(Document)
        /\ \A k \in DOMAIN a : k \in DOMAIN c /\ c[k] = a[k]
        /\ \A k \in DOMAIN c : k \notin DOMAIN a => k - Len(a) \in DOMAIN b /\ c[k] = b[k - Len(a)]
    BY <1>1, ConcatFacts
  <1> HIDE DEF c
  <1>3. ASSUME NEW k \in DOMAIN a PROVE c[k] = a[k] /\ c[k].pax \in ps
    BY <1>2 DEF TicketSet, NewTicket
  <1>4. ASSUME NEW k \in DOMAIN c, k \notin DOMAIN a
        PROVE  k - Len(a) \in DOMAIN b /\ c[k] = b[k - Len(a)] /\ c[k].pax = p
    BY <1>2, <1>4 DEF TicketSet, NewTicket
  <1>5. ASSUME NEW k \in DOMAIN c
        PROVE  \E x \in ps \cup {p} : NewTicket(c[k], Live(r), x, from[x])
    <2>1. CASE k \in DOMAIN a
      BY <1>3, <2>1 DEF TicketSet
    <2>2. CASE k \notin DOMAIN a
      BY <1>4, <2>2 DEF TicketSet
    <2> QED
      BY <2>1, <2>2
  <1>6. ASSUME NEW k \in DOMAIN c, NEW l \in DOMAIN c, k # l, c[k].pax = c[l].pax
        PROVE  Segs(c[k]) \cap Segs(c[l]) = {}
    <2>1. k \in Nat /\ l \in Nat /\ Len(a) \in Nat
      BY <1>1, <1>2
    <2>2. CASE k \in DOMAIN a /\ l \in DOMAIN a
      BY <1>3, <1>6, <2>2 DEF TicketSet
    <2>3. CASE k \notin DOMAIN a /\ l \notin DOMAIN a
      <3>1. k - Len(a) # l - Len(a)
        BY <1>6, <2>1
      <3> QED
        BY <1>4, <1>6, <2>3, <3>1 DEF TicketSet
    <2>4. CASE ~(k \in DOMAIN a <=> l \in DOMAIN a)
      BY <1>3, <1>4, <1>6, <2>4
    <2> QED
      BY <2>2, <2>3, <2>4
  <1>7. TicketSet(c, r, ps \cup {p}, from)
    BY <1>2, <1>5, <1>6 DEF TicketSet
  <1> QED
    BY <1>7 DEF c

(* IssueTickets and Exchange issue such a set. *)
LEMMA IssueForAllFacts ==
    ASSUME NEW r \in Record, Itinerary(r), NEW ps \in SUBSET (1..Passengers), NEW from \in [ps -> Nat]
    PROVE  TicketSet(IssueForAll(r, ps, from), r, ps, from)
  <1> DEFINE n == Cardinality(ps)
             order == Ascending(ps)
             seqs == [i \in DOMAIN order |-> IssueFor(r, order[i], from[order[i]])]
  <1>1. ps \in SUBSET Nat /\ IsFiniteSet(ps)
    <2>1. Passengers \in Nat /\ ps \in SUBSET Nat /\ \A x \in ps : x <= Passengers
      BY TicketingAssumption
    <2> QED
      BY <2>1, FS_BoundedSetOfNaturals
  <1>2. n \in Nat /\ order \in [1..n -> ps] /\ \A i, j \in 1..n : i < j => order[i] < order[j]
    BY <1>1, AscendingFacts
  <1>3. IssueForAll(r, ps, from) = FlattenSeq(seqs)
    BY DEF IssueForAll
  <1> HIDE DEF n, order
  <1>4. ASSUME NEW i \in 1..n
        PROVE  order[i] \in ps /\ TicketSet(seqs[i], r, {order[i]}, from)
    <2>1. order[i] \in ps /\ order[i] \in 1..Passengers /\ from[order[i]] \in Nat
      BY <1>2
    <2>2. PICK p, f : p = order[i] /\ f = from[p]
      OBVIOUS
    <2>3. seqs[i] = IssueFor(r, p, f) /\ p \in 1..Passengers /\ f \in Nat
      BY <1>2, <2>1, <2>2
    <2>4. PICK ds : ds = IssueFor(r, p, f)
      OBVIOUS
    <2>5. /\ ds \in Seq(Document)
          /\ \A k \in DOMAIN ds : NewTicket(ds[k], Live(r), p, f)
          /\ \A k, l \in DOMAIN ds : k # l => Segs(ds[k]) \cap Segs(ds[l]) = {}
      BY <2>3, <2>4, IssueForFacts
    <2>6. TicketSet(ds, r, {p}, from)
      BY <2>2, <2>5 DEF TicketSet
    <2> QED
      BY <2>1, <2>2, <2>3, <2>4, <2>6
  <1>5. seqs = [i \in 1..n |-> seqs[i]] /\ DOMAIN seqs = 1..n
    BY <1>2
  <1> HIDE DEF seqs
  <1>6. Len(seqs) = n
    BY <1>2, <1>5
  <1>7. CASE n = 0
    <2>1. FlattenSeq(seqs) = seqs /\ DOMAIN seqs = {} /\ seqs \in Seq(Document)
      BY <1>2, <1>5, <1>6, <1>7 DEF FlattenSeq
    <2> QED
      BY <1>3, <2>1 DEF TicketSet
  <1>8. CASE n # 0
    <2> DEFINE f == CHOOSE g : g = [i \in 1..n |-> IF i = 1 THEN seqs[i] ELSE g[i - 1] \o seqs[i]]
    <2>1. FlattenSeq(seqs) = f[n]
      BY <1>2, <1>6, <1>8 DEF FlattenSeq
    <2>2. f = [i \in 1..n |-> IF i = 1 THEN seqs[i] ELSE f[i - 1] \o seqs[i]]
      BY <1>2, FlattenExists
    <2> HIDE DEF f
    <2> DEFINE upto(i) == {order[j] : j \in 1..i}
               Bad == {i \in 1..n : ~TicketSet(f[i], r, upto(i), from)}
    <2>3. Bad = {}
      <3> SUFFICES ASSUME Bad # {} PROVE FALSE
        OBVIOUS
      <3>0. Bad \in SUBSET Nat
        BY <1>2
      <3>1. PICK i \in Bad : \A j \in Bad : i <= j
        <4> HIDE DEF Bad
        <4> QED
          BY <3>0, LeastElement
      <3>2. i \in 1..n /\ ~TicketSet(f[i], r, upto(i), from)
        OBVIOUS
      <3>3. CASE i = 1
        <4>1. f[i] = seqs[i] /\ upto(i) = {order[i]}
          BY <2>2, <3>2, <3>3
        <4> QED
          BY <1>4, <3>2, <4>1
      <3>4. CASE i # 1
        <4>1. i - 1 \in 1..n /\ i - 1 \notin Bad
          <5> HIDE DEF Bad
          <5> QED
            BY <1>2, <3>1, <3>2, <3>4
        <4>2. TicketSet(f[i - 1], r, upto(i - 1), from)
          BY <4>1
        <4>3. order[i] \notin upto(i - 1)
          <5> SUFFICES ASSUME NEW j \in 1..(i - 1), order[j] = order[i] PROVE FALSE
            OBVIOUS
          <5>1. j \in 1..n /\ j < i
            BY <1>2, <3>2
          <5>2. order[j] < order[i] /\ order[j] \in Nat /\ order[i] \in Nat
            BY <1>1, <1>2, <3>2, <5>1
          <5> QED
            BY <5>2
        <4>4. upto(i) = upto(i - 1) \cup {order[i]}
          <5>1. 1..i = 1..(i - 1) \cup {i}
            BY <1>2, <3>2
          <5> QED
            BY <5>1
        <4>5. f[i] = f[i - 1] \o seqs[i]
          BY <2>2, <3>2, <3>4
        <4>6. PICK a, b, U, p : a = f[i - 1] /\ b = seqs[i] /\ U = upto(i - 1) /\ p = order[i]
          OBVIOUS
        <4>7. TicketSet(a, r, U, from) /\ TicketSet(b, r, {p}, from) /\ p \notin U
          BY <1>4, <3>2, <4>2, <4>3, <4>6
        <4>8. TicketSet(a \o b, r, U \cup {p}, from)
          BY <4>7, TicketSetsJoin
        <4> HIDE DEF upto, Bad
        <4> QED
          BY <3>2, <4>4, <4>5, <4>6, <4>8
      <3> HIDE DEF Bad, upto
      <3> QED
        BY <3>3, <3>4
    <2>4. TicketSet(f[n], r, upto(n), from) /\ upto(n) \subseteq ps
      <3>1. n \in 1..n
        BY <1>2, <1>8
      <3> QED
        BY <1>2, <2>3, <3>1
    <2> HIDE DEF upto
    <2> QED
      BY <1>3, <2>1, <2>4 DEF TicketSet
  <1> QED
    BY <1>7, <1>8

-----------------------------------------------------------------------------
(* Records. *)

(* Flight coupons are over segments of the record, and only a document of  *)
(* type A is stapled to anything.                                          *)
Placed(t, segs) ==
    /\ t.type = "T" => Segs(t) \subseteq segs
    /\ t.type # "A" => \A n \in DOMAIN t.coupons : t.coupons[n].assoc = Unstapled

(* Between flight tickets of one passenger, not issued in exchange, no two *)
(* are over one segment, usable or not.                                    *)
OneSet(docs) ==
    \A d, e \in DOMAIN docs :
        ( /\ d # e /\ docs[d].type = "T" /\ docs[e].type = "T" /\ docs[d].pax = docs[e].pax
          /\ docs[d].from = 0 /\ docs[e].from = 0 ) => Segs(docs[d]) \cap Segs(docs[e]) = {}

Sound(r) ==
    /\ r \in Record /\ Itinerary(r)
    /\ \A d \in DOMAIN r.docs : Placed(r.docs[d], DOMAIN r.segs)
    /\ OneSet(r.docs)

(* What no operation changes of a document: who it is for, what it came    *)
(* from and, unless it is of type A, its segments and associations.        *)
SameShape(t, u) ==
    /\ u \in Document /\ u.type = t.type /\ u.pax = t.pax /\ u.from = t.from
    /\ DOMAIN u.coupons = DOMAIN t.coupons
    /\ t.type # "A" => \A n \in DOMAIN t.coupons :
          u.coupons[n].seg = t.coupons[n].seg /\ u.coupons[n].assoc = t.coupons[n].assoc

(* Documents and segments are added at the end and never taken away. *)
Follows(r, x) ==
    /\ Len(r.segs) <= Len(x.segs) /\ Len(r.docs) <= Len(x.docs)
    /\ \A d \in DOMAIN r.docs : SameShape(r.docs[d], x.docs[d])

(* A document is shaped like itself. *)
LEMMA ShapeSelf == \A t \in Document : SameShape(t, t)
  BY DEF SameShape

(* A document that kept its shape is as well placed, over the same         *)
(* segments.                                                               *)
LEMMA ShapePlaced ==
    ASSUME NEW t, NEW u, SameShape(t, u), NEW S, NEW Z, S \subseteq Z, Placed(t, S)
    PROVE  Placed(u, Z) /\ (t.type # "A" => Segs(u) = Segs(t))
  <1>1. t.type # "A" => Segs(u) = Segs(t)
    BY DEF SameShape, Segs
  <1>2. t.type = "T" => t.type # "A"
    OBVIOUS
  <1> QED
    BY <1>1, <1>2 DEF SameShape, Placed

(* A step that adds no documents. *)
LEMMA SoundKept ==
    ASSUME NEW r, Sound(r), NEW x \in Record, Itinerary(x), Len(r.segs) <= Len(x.segs),
           DOMAIN x.docs = DOMAIN r.docs,
           \A d \in DOMAIN r.docs : SameShape(r.docs[d], x.docs[d])
    PROVE  Sound(x) /\ Follows(r, x)
  <1>1. r \in Record /\ DOMAIN r.segs \subseteq DOMAIN x.segs /\ Len(x.docs) = Len(r.docs) /\ Len(r.docs) \in Nat
    <2>1. r \in Record
      BY DEF Sound
    <2>2. /\ r.segs \in Seq({"HN", "HK", "XX"}) /\ x.segs \in Seq({"HN", "HK", "XX"})
          /\ r.docs \in Seq(Document) /\ x.docs \in Seq(Document)
      BY <2>1 DEF Record
    <2> QED
      BY <2>1, <2>2
  <1>2. ASSUME NEW d \in DOMAIN r.docs
        PROVE  /\ Placed(x.docs[d], DOMAIN x.segs)
               /\ x.docs[d].type = r.docs[d].type /\ x.docs[d].pax = r.docs[d].pax
               /\ x.docs[d].from = r.docs[d].from
               /\ r.docs[d].type = "T" => Segs(x.docs[d]) = Segs(r.docs[d])
    <2>1. SameShape(r.docs[d], x.docs[d]) /\ Placed(r.docs[d], DOMAIN r.segs)
      BY DEF Sound
    <2>2. Placed(x.docs[d], DOMAIN x.segs) /\ (r.docs[d].type # "A" => Segs(x.docs[d]) = Segs(r.docs[d]))
      BY <1>1, <2>1, ShapePlaced
    <2> QED
      BY <2>1, <2>2 DEF SameShape
  <1>3. OneSet(x.docs)
    BY <1>2 DEF Sound, OneSet
  <1> QED
    BY <1>1, <1>2, <1>3 DEF Sound, Follows

(* A step that adds documents after base, which kept the shape of those    *)
(* there were.                                                             *)
LEMMA SoundAdded ==
    ASSUME NEW r, Sound(r), NEW x \in Record, DOMAIN x.segs = DOMAIN r.segs,
           NEW base \in Seq(Document), NEW new \in Seq(Document), x.docs = base \o new,
           DOMAIN base = DOMAIN r.docs,
           \A d \in DOMAIN r.docs : SameShape(r.docs[d], base[d]),
           \A k \in DOMAIN new : Placed(new[k], DOMAIN r.segs),
           OneSet(new),
           \A k \in DOMAIN new : new[k].type = "T" /\ new[k].from = 0 =>
               \A d \in DOMAIN r.docs : r.docs[d].pax # new[k].pax
    PROVE  Sound(x) /\ Follows(r, x) /\ Len(x.docs) = Len(r.docs) + Len(new)
  <1> DEFINE y == [r EXCEPT !.docs = base]
             c == base \o new
  <1>0. r \in Record /\ Itinerary(r)
    BY DEF Sound
  <1>1. y \in Record /\ y.docs = base /\ y.segs = r.segs
    BY <1>0 DEF Record
  <1>2. /\ r.segs \in Seq({"HN", "HK", "XX"}) /\ r.docs \in Seq(Document)
        /\ x.segs \in Seq({"HN", "HK", "XX"})
    BY <1>0 DEF Record
  <1>3. Len(x.segs) = Len(r.segs) /\ Len(base) = Len(r.docs) /\ Len(r.docs) \in Nat /\ Len(new) \in Nat
    BY <1>2
  <1>4. Itinerary(y) /\ Len(r.segs) <= Len(y.segs)
    BY <1>0, <1>1, <1>2 DEF Itinerary
  <1> HIDE DEF y
  <1>5. Sound(y)
    BY <1>1, <1>4, SoundKept
  <1>6. /\ c \in Seq(Document) /\ Len(c) = Len(base) + Len(new)
        /\ \A k \in DOMAIN base : k \in DOMAIN c /\ c[k] = base[k]
        /\ \A k \in DOMAIN c : k \notin DOMAIN base => k - Len(base) \in DOMAIN new /\ c[k] = new[k - Len(base)]
    BY ConcatFacts
  <1> HIDE DEF c
  <1>7. ASSUME NEW k \in DOMAIN c PROVE Placed(c[k], DOMAIN x.segs)
    <2>1. CASE k \in DOMAIN base
      BY <1>1, <1>5, <1>6, <2>1 DEF Sound
    <2>2. CASE k \notin DOMAIN base
      BY <1>6, <2>2
    <2> QED
      BY <2>1, <2>2
  <1>8. ASSUME NEW k \in DOMAIN base, NEW l \in DOMAIN c, l \notin DOMAIN base,
               c[l].type = "T", c[l].from = 0
        PROVE  c[k].pax # c[l].pax
    <2>1. l - Len(base) \in DOMAIN new /\ c[l] = new[l - Len(base)]
      BY <1>6, <1>8
    <2>2. c[k] = base[k] /\ base[k].pax = r.docs[k].pax
      BY <1>6 DEF SameShape
    <2> QED
      BY <1>8, <2>1, <2>2
  <1>9. ASSUME NEW k \in DOMAIN c, NEW l \in DOMAIN c, k # l,
               c[k].type = "T", c[l].type = "T", c[k].pax = c[l].pax, c[k].from = 0, c[l].from = 0
        PROVE  Segs(c[k]) \cap Segs(c[l]) = {}
    <2>1. k \in Nat /\ l \in Nat
      BY <1>6
    <2>2. CASE k \in DOMAIN base /\ l \in DOMAIN base
      <3>1. OneSet(base) /\ c[k] = base[k] /\ c[l] = base[l]
        BY <1>1, <1>5, <1>6, <2>2 DEF Sound
      <3> QED
        BY <1>9, <2>2, <3>1 DEF OneSet
    <2>3. CASE k \notin DOMAIN base /\ l \notin DOMAIN base
      <3>1. k - Len(base) # l - Len(base)
        BY <1>3, <1>9, <2>1
      <3> QED
        BY <1>6, <1>9, <2>3, <3>1 DEF OneSet
    <2>4. CASE ~(k \in DOMAIN base <=> l \in DOMAIN base)
      BY <1>8, <1>9, <2>4
    <2> QED
      BY <2>2, <2>3, <2>4
  <1>10. x.docs = c
    BY DEF c
  <1>11. Sound(x)
    <2>1. Itinerary(x)
      BY <1>0, <1>3 DEF Itinerary
    <2>2. OneSet(x.docs)
      BY <1>9, <1>10 DEF OneSet
    <2> QED
      BY <1>7, <1>10, <2>1, <2>2 DEF Sound
  <1>12. Follows(r, x) /\ Len(x.docs) = Len(r.docs) + Len(new)
    BY <1>2, <1>3, <1>6, <1>10 DEF Follows
  <1> QED
    BY <1>11, <1>12

-----------------------------------------------------------------------------
(* What the operations make of a record. *)

(* No flight coupon becomes flown. *)
NoneFlown(r, x) ==
    \A d \in DOMAIN r.docs : r.docs[d].type = "T" => \A n \in DOMAIN r.docs[d].coupons :
        x.docs[d].coupons[n].status = "F" => r.docs[d].coupons[n].status = "F"

Kept(r, x) == Sound(x) /\ Follows(r, x) /\ NoneFlown(r, x)

(* The documents of x that r has not are flight tickets. *)
NewFlights(r, x) == \A d \in DOMAIN x.docs : d \notin DOMAIN r.docs => x.docs[d].type = "T"

(* A set of new tickets can follow the documents of a record, if it was    *)
(* issued in exchange or to passengers who had none.                       *)
LEMMA TicketsAdded ==
    ASSUME NEW r, Sound(r), NEW x \in Record, x.segs = r.segs,
           NEW base \in Seq(Document), NEW ps, NEW from, NEW new, TicketSet(new, r, ps, from),
           x.docs = base \o new, DOMAIN base = DOMAIN r.docs,
           \A d \in DOMAIN r.docs : SameShape(r.docs[d], base[d]),
           \A p \in ps : from[p] # 0 \/ ~TicketFor(r, p)
    PROVE  /\ Sound(x) /\ Follows(r, x) /\ NewFlights(r, x)
           /\ \A d \in DOMAIN r.docs : x.docs[d] = base[d]
  <1>1. new \in Seq(Document)
    BY DEF TicketSet
  <1>2. ASSUME NEW k \in DOMAIN new
        PROVE  /\ Placed(new[k], DOMAIN r.segs) /\ new[k].type = "T"
               /\ new[k].from = 0 => \A d \in DOMAIN r.docs : r.docs[d].pax # new[k].pax
    <2>1. PICK p \in ps : NewTicket(new[k], Live(r), p, from[p])
      BY DEF TicketSet
    <2>2. Live(r) \subseteq DOMAIN r.segs
      BY DEF Live
    <2>3. Placed(new[k], DOMAIN r.segs)
      BY <2>1, <2>2 DEF NewTicket, Placed
    <2> QED
      BY <2>1, <2>3 DEF NewTicket, TicketFor
  <1>3. OneSet(new)
    BY DEF TicketSet, OneSet
  <1>4. Sound(x) /\ Follows(r, x)
    <2>1. DOMAIN x.segs = DOMAIN r.segs
      OBVIOUS
    <2>2. \A k \in DOMAIN new : Placed(new[k], DOMAIN r.segs)
      BY <1>2
    <2>3. \A k \in DOMAIN new : new[k].type = "T" /\ new[k].from = 0 =>
               \A d \in DOMAIN r.docs : r.docs[d].pax # new[k].pax
      BY <1>2
    <2>4. Sound(x) /\ Follows(r, x) /\ Len(x.docs) = Len(r.docs) + Len(new)
      BY <1>1, <1>3, <2>1, <2>2, <2>3, SoundAdded, Zenon
    <2> QED
      BY <2>4
  <1>5. ASSUME NEW d \in DOMAIN r.docs PROVE x.docs[d] = base[d]
    BY <1>1, ConcatFacts
  <1>6. ASSUME NEW d \in DOMAIN x.docs, d \notin DOMAIN r.docs PROVE x.docs[d].type = "T"
    <2>1. d - Len(base) \in DOMAIN new /\ x.docs[d] = new[d - Len(base)]
      BY <1>1, <1>6, ConcatFacts
    <2> QED
      BY <1>2, <2>1
  <1> QED
    BY <1>4, <1>5, <1>6 DEF NewFlights

(* Some passenger is owed a ticket and nothing forbids it. *)
MayIssue(r) ==
    /\ r.status # "cancelled" /\ ~Ticketed(r) /\ Live(r) # {} /\ ~TooLong(r)
    /\ \E p \in 1..Passengers : ~TicketFor(r, p)

(* IssueTickets: the new tickets are of passengers who had no document. *)
LEMMA IssueTicketsSound ==
    ASSUME NEW r, Sound(r), MayIssue(r)
    PROVE  /\ Kept(r, IssueTickets(r)) /\ IssueTickets(r).segs = r.segs
           /\ NewFlights(r, IssueTickets(r))
  <1> DEFINE owed == {p \in 1..Passengers : ~TicketFor(r, p)}
             from == [p \in owed |-> 0]
  <1>1. PICK new : new = IssueForAll(r, owed, from)
    OBVIOUS
  <1>2. PICK x : x = [r EXCEPT !.docs = r.docs \o new, !.limit = FALSE, !.status = "ticketed"]
    OBVIOUS
  <1>3. IssueTickets(r) = x
    BY <1>1, <1>2 DEF IssueTickets, MayIssue
  <1>4. r \in Record /\ Itinerary(r)
    BY DEF Sound
  <1>5. TicketSet(new, r, owed, from)
    BY <1>1, <1>4, IssueForAllFacts
  <1>6. \A p \in owed : from[p] # 0 \/ ~TicketFor(r, p)
    OBVIOUS
  <1> HIDE DEF owed, from
  <1>7. x \in Record /\ x.segs = r.segs /\ x.docs = r.docs \o new /\ r.docs \in Seq(Document)
    <2>1. r.docs \in Seq(Document) /\ new \in Seq(Document)
      BY <1>4, <1>5 DEF Record, TicketSet
    <2>2. PICK ds : ds = r.docs \o new
      OBVIOUS
    <2>3. ds \in Seq(Document)
      BY <2>1, <2>2
    <2>4. x = [r EXCEPT !.docs = ds, !.limit = FALSE, !.status = "ticketed"]
      BY <1>2, <2>2
    <2> QED
      BY <1>4, <2>1, <2>2, <2>3, <2>4 DEF Record
  <1>8. \A d \in DOMAIN r.docs : SameShape(r.docs[d], r.docs[d])
    BY <1>7, ShapeSelf
  <1>9. Sound(x) /\ Follows(r, x) /\ NewFlights(r, x) /\ \A d \in DOMAIN r.docs : x.docs[d] = r.docs[d]
    BY <1>5, <1>6, <1>7, <1>8, TicketsAdded, Zenon
  <1>10. Kept(r, x)
    BY <1>9 DEF Kept, NoneFlown
  <1> QED
    BY <1>3, <1>7, <1>9, <1>10

(* Close changes statuses, and no other than that of an open coupon. *)
LEMMA CloseFacts ==
    ASSUME NEW r, Sound(r), NEW ds, NEW st \in Statuses
    PROVE  /\ Close(r, ds, st) \in Seq(Document) /\ DOMAIN Close(r, ds, st) = DOMAIN r.docs
           /\ \A d \in DOMAIN r.docs :
                 /\ SameShape(r.docs[d], Close(r, ds, st)[d])
                 /\ \A n \in DOMAIN r.docs[d].coupons :
                       Close(r, ds, st)[d].coupons[n].status \in {r.docs[d].coupons[n].status, st}
  <1>1. r.docs \in Seq(Document)
    BY DEF Sound, Record
  <1> DEFINE cl(d) == [n \in DOMAIN r.docs[d].coupons |->
                          IF r.docs[d].coupons[n].status = "O"
                          THEN [r.docs[d].coupons[n] EXCEPT !.status = st] ELSE r.docs[d].coupons[n]]
             doc(d) == [r.docs[d] EXCEPT !.coupons = cl(d)]
  <1>2. Close(r, ds, st) = [d \in DOMAIN r.docs |-> IF d \notin ds THEN r.docs[d] ELSE doc(d)]
    BY DEF Close
  <1>3. ASSUME NEW d \in DOMAIN r.docs
        PROVE  /\ SameShape(r.docs[d], doc(d))
               /\ \A n \in DOMAIN r.docs[d].coupons :
                     doc(d).coupons[n].status \in {r.docs[d].coupons[n].status, st}
    <2>1. PICK t : t = r.docs[d]
      OBVIOUS
    <2>2. t \in Document /\ t.coupons \in Seq(Coupon)
      <3>1. t \in Document
        BY <1>1, <2>1
      <3> QED
        BY <3>1 DEF Document
    <2>3. ASSUME NEW n \in DOMAIN t.coupons
          PROVE  /\ cl(d)[n] \in Coupon /\ cl(d)[n].seg = t.coupons[n].seg
                 /\ cl(d)[n].assoc = t.coupons[n].assoc
                 /\ cl(d)[n].status \in {t.coupons[n].status, st}
      <3>1. t.coupons[n] \in Coupon
        BY <2>2
      <3> QED
        BY <2>1, <3>1 DEF Coupon
    <2>4. cl(d) \in Seq(Coupon) /\ DOMAIN cl(d) = DOMAIN t.coupons
      <3>1. DOMAIN cl(d) = DOMAIN t.coupons /\ cl(d) \in [DOMAIN t.coupons -> Coupon]
        BY <2>1, <2>3
      <3>2. DOMAIN t.coupons = 1..Len(t.coupons) /\ Len(t.coupons) \in Int
        BY <2>2
      <3> HIDE DEF cl
      <3> QED
        BY <3>1, <3>2, SeqFromFunction
    <2> HIDE DEF cl
    <2>5. doc(d) = [t EXCEPT !.coupons = cl(d)]
      BY <2>1
    <2>6. doc(d) \in Document /\ doc(d).coupons = cl(d) /\ doc(d).type = t.type /\ doc(d).pax = t.pax /\ doc(d).from = t.from
      BY <2>2, <2>4, <2>5 DEF Document
    <2> HIDE DEF doc
    <2> QED
      BY <2>1, <2>3, <2>4, <2>6 DEF SameShape
  <1>4. ASSUME NEW d \in DOMAIN r.docs PROVE doc(d) \in Document
    BY <1>3 DEF SameShape
  <1> HIDE DEF doc
  <1>5. Close(r, ds, st) \in Seq(Document) /\ DOMAIN Close(r, ds, st) = DOMAIN r.docs
    BY <1>1, <1>2, <1>4
  <1>6. ASSUME NEW d \in DOMAIN r.docs
        PROVE  /\ SameShape(r.docs[d], Close(r, ds, st)[d])
               /\ \A n \in DOMAIN r.docs[d].coupons :
                     Close(r, ds, st)[d].coupons[n].status \in {r.docs[d].coupons[n].status, st}
    <2>1. CASE d \in ds
      BY <1>2, <1>3, <2>1
    <2>2. CASE d \notin ds
      BY <1>1, <1>2, <2>2, ShapeSelf
    <2> QED
      BY <2>1, <2>2
  <1> QED
    BY <1>5, <1>6

(* Exchange: open coupons are exchanged, and the new tickets name one of   *)
(* the documents they replace.                                             *)
LEMMA ExchangeKept ==
    ASSUME NEW r, Sound(r), Exchange(r) # None
    PROVE  Kept(r, Exchange(r)) /\ Exchange(r).segs = r.segs /\ NewFlights(r, Exchange(r))
  <1> DEFINE ds == OpenDocs(r)
             ps == {r.docs[d].pax : d \in ds}
             old == [p \in ps |-> CHOOSE d \in ds : r.docs[d].pax = p
                                     /\ \A e \in ds : r.docs[e].pax = p => e <= d]
  <1>1. PICK base : base = Close(r, ds, "E")
    OBVIOUS
  <1>2. PICK new : new = IssueForAll(r, ps, old)
    OBVIOUS
  <1>3. PICK all : all = base \o new
    OBVIOUS
  <1>4. PICK x : x = [r EXCEPT !.docs = all, !.status = "ticketed"]
    OBVIOUS
  <1>5. Exchange(r) = x
    BY <1>1, <1>2, <1>3, <1>4 DEF Exchange
  <1>6. r \in Record /\ Itinerary(r) /\ r.docs \in Seq(Document)
    BY DEF Sound, Record
  <1>7. ds \subseteq DOMAIN r.docs /\ \A d \in ds : d \in Nat /\ d # 0 /\ d <= Len(r.docs)
    BY <1>6 DEF OpenDocs
  <1>8. ps \in SUBSET (1..Passengers)
    <2>1. \A d \in DOMAIN r.docs : r.docs[d] \in Document
      BY <1>6
    <2> QED
      BY <1>7, <2>1 DEF Document
  <1>9. ASSUME NEW p \in ps PROVE old[p] \in ds
    <2> DEFINE S == {d \in ds : r.docs[d].pax = p}
    <2>1. S \in SUBSET Nat /\ S # {} /\ Len(r.docs) \in Nat /\ \A d \in S : d <= Len(r.docs)
      BY <1>6, <1>7
    <2>2. PICK d \in S : \A e \in S : e <= d
      <3> HIDE DEF S
      <3> QED
        BY <2>1, GreatestElement
    <2>3. d \in ds /\ r.docs[d].pax = p /\ \A e \in ds : r.docs[e].pax = p => e <= d
      BY <2>2
    <2> HIDE DEF S, ds
    <2> QED
      BY <2>3
  <1>10. old \in [ps -> Nat] /\ \A p \in ps : old[p] # 0
    BY <1>7, <1>9
  <1> HIDE DEF old, ps
  <1>11. TicketSet(new, r, ps, old)
    BY <1>2, <1>6, <1>8, <1>10, IssueForAllFacts
  <1>12. /\ base \in Seq(Document) /\ DOMAIN base = DOMAIN r.docs
         /\ \A d \in DOMAIN r.docs :
               /\ SameShape(r.docs[d], base[d])
               /\ \A n \in DOMAIN r.docs[d].coupons :
                     base[d].coupons[n].status \in {r.docs[d].coupons[n].status, "E"}
    BY <1>1, CloseFacts DEF Statuses
  <1>13. x \in Record /\ x.segs = r.segs /\ x.docs = base \o new
    <2>1. all \in Seq(Document)
      BY <1>3, <1>11, <1>12 DEF TicketSet
    <2> QED
      BY <1>3, <1>4, <1>6, <2>1 DEF Record
  <1>14. \A p \in ps : old[p] # 0 \/ ~TicketFor(r, p)
    BY <1>10
  <1>15. \A d \in DOMAIN r.docs : SameShape(r.docs[d], base[d])
    BY <1>12
  <1>16. Sound(x) /\ Follows(r, x) /\ NewFlights(r, x) /\ \A d \in DOMAIN r.docs : x.docs[d] = base[d]
    BY <1>11, <1>12, <1>13, <1>14, <1>15, TicketsAdded, Zenon
  <1>17. Kept(r, x)
    BY <1>12, <1>16 DEF Kept, NoneFlown
  <1> QED
    BY <1>5, <1>13, <1>16, <1>17

(* A record that only has other documents, of the same shape. *)
LEMMA DocsKept ==
    ASSUME NEW r, Sound(r), NEW ds \in Seq(Document), DOMAIN ds = DOMAIN r.docs,
           \A d \in DOMAIN r.docs : SameShape(r.docs[d], ds[d]),
           NEW x, x = [r EXCEPT !.docs = ds]
    PROVE  Sound(x) /\ Follows(r, x) /\ x.segs = r.segs /\ x.docs = ds
  <1>1. r \in Record /\ Itinerary(r)
    BY DEF Sound
  <1>2. x \in Record /\ x.segs = r.segs /\ x.docs = ds /\ r.segs \in Seq({"HN", "HK", "XX"})
    BY <1>1 DEF Record
  <1>3. Itinerary(x) /\ Len(r.segs) <= Len(x.segs)
    BY <1>1, <1>2 DEF Itinerary
  <1>4. DOMAIN x.docs = DOMAIN r.docs /\ \A d \in DOMAIN r.docs : SameShape(r.docs[d], x.docs[d])
    BY <1>2
  <1>5. Sound(x) /\ Follows(r, x)
    BY <1>2, <1>3, <1>4, SoundKept, Zenon
  <1> QED
    BY <1>2, <1>5

(* Refund: open coupons are refunded. *)
LEMMA RefundKept ==
    ASSUME NEW r, Sound(r), Refund(r) # None
    PROVE  /\ Kept(r, Refund(r)) /\ Refund(r).segs = r.segs
           /\ DOMAIN Refund(r).docs = DOMAIN r.docs
  <1>1. PICK ds : ds = Close(r, OpenDocs(r), "R")
    OBVIOUS
  <1>2. PICK x : x = [r EXCEPT !.docs = ds]
    OBVIOUS
  <1>3. Refund(r) = x
    BY <1>1, <1>2 DEF Refund
  <1>4. /\ ds \in Seq(Document) /\ DOMAIN ds = DOMAIN r.docs
        /\ \A d \in DOMAIN r.docs :
               /\ SameShape(r.docs[d], ds[d])
               /\ \A n \in DOMAIN r.docs[d].coupons :
                     ds[d].coupons[n].status \in {r.docs[d].coupons[n].status, "R"}
    BY <1>1, CloseFacts DEF Statuses
  <1>5. /\ ds \in Seq(Document) /\ DOMAIN ds = DOMAIN r.docs
        /\ \A d \in DOMAIN r.docs : SameShape(r.docs[d], ds[d])
    BY <1>4
  <1>6. Sound(x) /\ Follows(r, x) /\ x.segs = r.segs /\ x.docs = ds
    BY <1>2, <1>5, DocsKept
  <1>7. Kept(r, x)
    BY <1>4, <1>6 DEF Kept, NoneFlown
  <1> QED
    BY <1>3, <1>4, <1>6, <1>7

(* flightCouponFor names a coupon, and finds one only over a segment of    *)
(* the record.                                                             *)
LEMMA FlightCouponFacts ==
    ASSUME NEW r, Sound(r), NEW p, NEW s
    PROVE  /\ FlightCouponFor(r, p, s) \in Nat \X Nat
           /\ FlightCouponFor(r, p, s) # Unstapled => s \in DOMAIN r.segs
  <1> DEFINE at == {x \in (DOMAIN r.docs) \X (1..MaxCoupons) :
                     /\ IsFlight(r.docs[x[1]]) /\ r.docs[x[1]].pax = p
                     /\ x[2] \in DOMAIN r.docs[x[1]].coupons /\ r.docs[x[1]].coupons[x[2]].seg = s}
             first(x) == \A y \in at : x[1] < y[1] \/ (x[1] = y[1] /\ x[2] <= y[2])
  <1>1. FlightCouponFor(r, p, s) = IF at = {} THEN Unstapled ELSE CHOOSE x \in at : first(x)
    BY DEF FlightCouponFor
  <1>2. Unstapled \in Nat \X Nat
    BY DEF Unstapled
  <1>3. at \subseteq Nat \X Nat
    <2>1. DOMAIN r.docs \subseteq Nat
      BY DEF Sound, Record
    <2>2. 1..MaxCoupons \subseteq Nat
      BY TicketingAssumption
    <2> QED
      BY <2>1, <2>2
  <1>4. ASSUME NEW x \in at PROVE s \in DOMAIN r.segs
    <2>1. PICK d, n : d = x[1] /\ n = x[2]
      OBVIOUS
    <2>2. d \in DOMAIN r.docs /\ r.docs[d].type = "T" /\ n \in DOMAIN r.docs[d].coupons /\ r.docs[d].coupons[n].seg = s
      BY <2>1 DEF IsFlight
    <2> QED
      BY <2>2 DEF Sound, Placed, Segs
  <1> HIDE DEF at
  <1>5. ASSUME at # {} PROVE \E x \in at : first(x)
    <2> DEFINE D == {x[1] : x \in at}
    <2>1. D \in SUBSET Nat /\ D # {}
      BY <1>3, <1>5
    <2>2. PICK d \in D : \A e \in D : d <= e
      <3> HIDE DEF D
      <3> QED
        BY <2>1, LeastElement
    <2> DEFINE N == {x[2] : x \in {z \in at : z[1] = d}}
    <2>3. N \in SUBSET Nat /\ N # {}
      BY <1>3
    <2>4. PICK n \in N : \A m \in N : n <= m
      <3> HIDE DEF N
      <3> QED
        BY <2>3, LeastElement
    <2>5. PICK x \in at : x[1] = d /\ x[2] = n
      BY <2>4
    <2>6. ASSUME NEW y \in at PROVE x[1] < y[1] \/ (x[1] = y[1] /\ x[2] <= y[2])
      <3>1. d <= y[1] /\ d \in Nat /\ y[1] \in Nat
        BY <1>3, <2>1, <2>2
      <3>2. CASE y[1] = d
        <4>1. y[2] \in N
          BY <3>2
        <4> QED
          BY <2>4, <2>5, <3>2, <4>1
      <3>3. CASE y[1] # d
        BY <2>5, <3>1, <3>3
      <3> QED
        BY <3>2, <3>3
    <2> QED
      BY <2>6
  <1> HIDE DEF first
  <1>6. CASE at = {}
    BY <1>1, <1>2, <1>6
  <1>7. CASE at # {}
    <2>1. FlightCouponFor(r, p, s) \in at
      BY <1>1, <1>5, <1>7
    <2> QED
      BY <1>3, <1>4, <2>1
  <1> QED
    BY <1>6, <1>7

(* IssueEMD: one more document, which is no flight ticket; one of type A   *)
(* is over a segment of the record.                                        *)
LEMMA IssueEMDKept ==
    ASSUME NEW r, Sound(r), NEW q, Request(q), q.op = "emd", IssueEMD(r, q) # None
    PROVE  /\ Kept(r, IssueEMD(r, q)) /\ IssueEMD(r, q).segs = r.segs
           /\ Len(IssueEMD(r, q).docs) = Len(r.docs) + 1
           /\ IssueEMD(r, q).docs[Len(r.docs) + 1].type = q.type
           /\ Segs(IssueEMD(r, q).docs[Len(r.docs) + 1]) = {q.seg}
           /\ q.type = "A" => q.seg \in DOMAIN r.segs
  <1> DEFINE assoc == IF q.type = "A" THEN FlightCouponFor(r, q.pax, q.seg) ELSE Unstapled
  <1>1. PICK a : a = assoc
    OBVIOUS
  <1>2. PICK c : c = [seg |-> q.seg, status |-> q.status, assoc |-> a]
    OBVIOUS
  <1>3. PICK t : t = [type |-> q.type, pax |-> q.pax, from |-> 0, coupons |-> <<c>>]
    OBVIOUS
  <1>4. PICK x : x = [r EXCEPT !.docs = Append(r.docs, t)]
    OBVIOUS
  <1>5. IssueEMD(r, q) = x /\ ~(q.type = "A" /\ a = Unstapled)
    BY <1>1, <1>2, <1>3, <1>4 DEF IssueEMD
  <1>6. /\ q.type \in {"A", "S"} /\ q.pax \in 1..Passengers /\ q.seg \in 0..Len(Operator)
        /\ q.status \in {"O", "F"}
    BY DEF Request
  <1>7. /\ a \in Nat \X Nat /\ (q.type = "A" => q.seg \in DOMAIN r.segs)
        /\ q.type # "A" => a = Unstapled
    <2>1. Unstapled \in Nat \X Nat
      BY DEF Unstapled
    <2> QED
      BY <1>1, <1>5, <2>1, FlightCouponFacts
  <1>8. c \in Coupon /\ <<c>> \in Seq(Coupon)
    BY <1>2, <1>6, <1>7 DEF Coupon, Statuses
  <1>9. t \in Document /\ Segs(t) = {q.seg} /\ t.type = q.type /\ Placed(t, DOMAIN r.segs)
    <2>1. t \in Document
      BY <1>3, <1>6, <1>8 DEF Document
    <2>2. Segs(t) = {q.seg}
      BY <1>2, <1>3 DEF Segs
    <2>3. \A n \in DOMAIN t.coupons : t.coupons[n].assoc = a
      BY <1>2, <1>3
    <2> QED
      BY <1>3, <1>6, <1>7, <2>1, <2>2, <2>3 DEF Placed
  <1>10. r \in Record /\ r.docs \in Seq(Document) /\ Len(r.docs) \in Nat
    BY DEF Sound, Record
  <1>11. PICK new : new = <<t>>
    OBVIOUS
  <1>12. /\ new \in Seq(Document) /\ DOMAIN new = {1} /\ Len(new) = 1 /\ new[1] = t
         /\ Append(r.docs, t) = r.docs \o new
    BY <1>9, <1>10, <1>11
  <1>13. x \in Record /\ x.docs = r.docs \o new /\ x.segs = r.segs
    <2>1. PICK ds : ds = Append(r.docs, t)
      OBVIOUS
    <2>2. ds \in Seq(Document)
      BY <1>9, <1>10, <2>1
    <2>3. x = [r EXCEPT !.docs = ds]
      BY <1>4, <2>1
    <2> QED
      BY <1>10, <1>12, <2>1, <2>2, <2>3 DEF Record
  <1>14. \A d \in DOMAIN r.docs : SameShape(r.docs[d], r.docs[d])
    BY <1>10, ShapeSelf
  <1>15. \A k \in DOMAIN new : Placed(new[k], DOMAIN r.segs)
    BY <1>9, <1>12
  <1>16. /\ OneSet(new)
         /\ \A k \in DOMAIN new : new[k].type = "T" /\ new[k].from = 0 =>
               \A d \in DOMAIN r.docs : r.docs[d].pax # new[k].pax
    BY <1>6, <1>9, <1>12 DEF OneSet
  <1>17. DOMAIN x.segs = DOMAIN r.segs
    BY <1>13
  <1>18. Sound(x) /\ Follows(r, x) /\ Len(x.docs) = Len(r.docs) + Len(new)
    <2>1. r.docs \in Seq(Document) /\ new \in Seq(Document) /\ x \in Record /\ x.docs = r.docs \o new
      BY <1>10, <1>12, <1>13
    <2>2. PICK base : base = r.docs
      OBVIOUS
    <2>3. /\ base \in Seq(Document) /\ x.docs = base \o new /\ DOMAIN base = DOMAIN r.docs
          /\ \A d \in DOMAIN r.docs : SameShape(r.docs[d], base[d])
      BY <1>14, <2>1, <2>2
    <2> QED
      BY <1>15, <1>16, <1>17, <2>1, <2>3, SoundAdded, Zenon
  <1>19. /\ \A d \in DOMAIN r.docs : x.docs[d] = r.docs[d]
         /\ x.docs[Len(r.docs) + 1] = t
    BY <1>10, <1>12, <1>13
  <1>20. Kept(r, x)
    BY <1>18, <1>19 DEF Kept, NoneFlown
  <1> QED
    BY <1>5, <1>7, <1>9, <1>12, <1>13, <1>18, <1>19, <1>20

(* Documents of which one has another coupon in some place. *)
Recouponed(docs, ds, d, n, c) ==
    /\ ds \in Seq(Document) /\ DOMAIN ds = DOMAIN docs
    /\ \A e \in DOMAIN docs : /\ e # d => ds[e] = docs[e]
                              /\ ds[e].type = docs[e].type /\ ds[e].pax = docs[e].pax
                              /\ ds[e].from = docs[e].from
                              /\ DOMAIN ds[e].coupons = DOMAIN docs[e].coupons
    /\ ds[d].coupons[n] = c
    /\ \A m \in DOMAIN docs[d].coupons : m # n => ds[d].coupons[m] = docs[d].coupons[m]

(* A coupon is put in the place of another. *)
LEMMA CouponSet ==
    ASSUME NEW docs, docs \in Seq(Document), NEW d, d \in DOMAIN docs,
           NEW n, n \in DOMAIN docs[d].coupons, NEW c, c \in Coupon
    PROVE  Recouponed(docs, [docs EXCEPT ![d].coupons[n] = c], d, n, c)
  <1>0. PICK ds : ds = [docs EXCEPT ![d].coupons[n] = c]
    OBVIOUS
  <1>1. PICK t : t = docs[d]
    OBVIOUS
  <1>2. t \in Document
    BY <1>1
  <1>3. t.coupons \in Seq(Coupon)
    BY <1>2 DEF Document
  <1>4. PICK cs : cs = [t.coupons EXCEPT ![n] = c]
    OBVIOUS
  <1>5. cs \in Seq(Coupon) /\ DOMAIN cs = DOMAIN t.coupons
    BY <1>1, <1>3, <1>4
  <1>6. cs[n] = c /\ \A m \in DOMAIN t.coupons : m # n => cs[m] = t.coupons[m]
    BY <1>1, <1>3, <1>4
  <1>7. PICK u : u = [t EXCEPT !.coupons = cs]
    OBVIOUS
  <1>8. u \in Document /\ u.coupons = cs /\ u.type = t.type /\ u.pax = t.pax /\ u.from = t.from
    BY <1>2, <1>5, <1>7 DEF Document
  <1>9. ds = [docs EXCEPT ![d] = u]
    BY <1>0, <1>1, <1>4, <1>7
  <1>10. ds \in Seq(Document) /\ DOMAIN ds = DOMAIN docs /\ ds[d] = u
         /\ \A e \in DOMAIN docs : e # d => ds[e] = docs[e]
    BY <1>8, <1>9
  <1>11. ASSUME NEW e \in DOMAIN docs
         PROVE  /\ ds[e].type = docs[e].type /\ ds[e].pax = docs[e].pax
                /\ ds[e].from = docs[e].from /\ DOMAIN ds[e].coupons = DOMAIN docs[e].coupons
    BY <1>1, <1>5, <1>8, <1>10
  <1>12. Recouponed(docs, ds, d, n, c)
    BY <1>1, <1>6, <1>8, <1>10, <1>11 DEF Recouponed
  <1> QED
    BY <1>0, <1>12

(* AssociateEMD: a document of type A is stapled elsewhere. *)
LEMMA AssociateKept ==
    ASSUME NEW r, Sound(r), NEW q, Request(q), q.op = "staple", AssociateEMD(r, q) # None
    PROVE  /\ Kept(r, AssociateEMD(r, q)) /\ AssociateEMD(r, q).segs = r.segs
           /\ DOMAIN AssociateEMD(r, q).docs = DOMAIN r.docs
  <1> DEFINE assoc == IF q.seg = 0 THEN Unstapled ELSE FlightCouponFor(r, r.docs[q.doc].pax, q.seg)
  <1>1. PICK a, d : a = assoc /\ d = q.doc
    OBVIOUS
  <1>2. PICK c : c = [r.docs[d].coupons[1] EXCEPT !.assoc = a, !.seg = q.seg]
    OBVIOUS
  <1>3. PICK ds : ds = [r.docs EXCEPT ![d].coupons[1] = c]
    OBVIOUS
  <1>4. PICK x : x = [r EXCEPT !.docs = ds]
    OBVIOUS
  <1>5. d \in DOMAIN r.docs /\ r.docs[d].type = "A"
    BY <1>1 DEF AssociateEMD
  <1>6. AssociateEMD(r, q) = [r EXCEPT !.docs[d].coupons[1] = [@ EXCEPT !.assoc = a, !.seg = q.seg]]
    BY <1>1 DEF AssociateEMD
  <1>7. r \in Record /\ r.docs \in Seq(Document)
    BY DEF Sound, Record
  <1>8. AssociateEMD(r, q) = x
    BY <1>2, <1>3, <1>4, <1>6
  <1>9. a \in Nat \X Nat /\ q.seg \in 0..Len(Operator)
    <2>1. Unstapled \in Nat \X Nat
      BY DEF Unstapled
    <2> QED
      BY <1>1, <2>1, FlightCouponFacts DEF Request
  <1>10. /\ ds \in Seq(Document) /\ DOMAIN ds = DOMAIN r.docs
         /\ \A e \in DOMAIN r.docs : /\ e # d => ds[e] = r.docs[e]
                                     /\ ds[e].type = r.docs[e].type /\ ds[e].pax = r.docs[e].pax
                                     /\ ds[e].from = r.docs[e].from
                                     /\ DOMAIN ds[e].coupons = DOMAIN r.docs[e].coupons
    <2>1. r.docs[d] \in Document
      BY <1>5, <1>7
    <2>2. r.docs[d].coupons \in Seq(Coupon)
      BY <2>1 DEF Document
    <2>3. CASE 1 \in DOMAIN r.docs[d].coupons
      <3>1. r.docs[d].coupons[1] \in Coupon
        BY <2>2, <2>3
      <3>2. c \in Coupon
        BY <1>2, <1>9, <3>1 DEF Coupon
      <3>3. Recouponed(r.docs, ds, d, 1, c)
        BY <1>3, <1>5, <1>7, <2>3, <3>2, CouponSet
      <3> QED
        BY <3>3 DEF Recouponed
    <2>4. CASE 1 \notin DOMAIN r.docs[d].coupons
      <3>1. [r.docs[d].coupons EXCEPT ![1] = c] = r.docs[d].coupons
        BY <2>2, <2>4
      <3>2. [r.docs[d] EXCEPT !.coupons = r.docs[d].coupons] = r.docs[d]
        BY <2>1 DEF Document
      <3>3. [r.docs EXCEPT ![d] = r.docs[d]] = r.docs
        BY <1>5, <1>7
      <3>4. ds = r.docs
        BY <1>3, <3>1, <3>2, <3>3
      <3> QED
        BY <1>7, <3>4
    <2> QED
      BY <2>3, <2>4
  <1>11. \A e \in DOMAIN r.docs : ds[e] \in Document /\ r.docs[e] \in Document
    BY <1>7, <1>10
  <1>12. \A e \in DOMAIN r.docs : SameShape(r.docs[e], ds[e])
    BY <1>5, <1>10, <1>11 DEF SameShape
  <1>13. Sound(x) /\ Follows(r, x) /\ x.segs = r.segs /\ x.docs = ds
    BY <1>4, <1>10, <1>12, DocsKept
  <1>14. Kept(r, x)
    BY <1>5, <1>10, <1>13 DEF Kept, NoneFlown
  <1> QED
    BY <1>8, <1>10, <1>13, <1>14

(* A record with the same documents. *)
LEMMA SameDocsKept ==
    ASSUME NEW r, Sound(r), NEW x \in Record, Itinerary(x), Len(r.segs) <= Len(x.segs), x.docs = r.docs
    PROVE  Kept(r, x)
  <1>1. r.docs \in Seq(Document)
    BY DEF Sound, Record
  <1>2. \A d \in DOMAIN r.docs : SameShape(r.docs[d], x.docs[d])
    BY <1>1, ShapeSelf
  <1>3. DOMAIN x.docs = DOMAIN r.docs
    OBVIOUS
  <1>4. Sound(x) /\ Follows(r, x)
    BY <1>2, <1>3, SoundKept
  <1> QED
    BY <1>4 DEF Kept, NoneFlown

(* A record whose segments have other statuses. *)
LEMMA SegsKept ==
    ASSUME NEW r, Sound(r), NEW x \in Record, DOMAIN x.segs = DOMAIN r.segs, x.docs = r.docs
    PROVE  Kept(r, x)
  <1>1. Itinerary(r) /\ r.segs \in Seq({"HN", "HK", "XX"}) /\ x.segs \in Seq({"HN", "HK", "XX"})
    BY DEF Sound, Record
  <1>2. Len(x.segs) = Len(r.segs) /\ Len(r.segs) \in Nat
    BY <1>1
  <1>3. Itinerary(x) /\ Len(r.segs) <= Len(x.segs)
    BY <1>1, <1>2 DEF Itinerary
  <1> QED
    BY <1>3, SameDocsKept

(* Cancel: segments are cancelled, the documents stay. *)
LEMMA CancelKept ==
    ASSUME NEW r, Sound(r), NEW q, Cancel(r, q) # None
    PROVE  /\ Kept(r, Cancel(r, q)) /\ DOMAIN Cancel(r, q).segs = DOMAIN r.segs
           /\ Cancel(r, q).docs = r.docs
  <1>1. PICK ss, st : /\ ss = [s \in DOMAIN r.segs |-> IF s \in Doomed(r, q) THEN "XX" ELSE r.segs[s]]
                      /\ st = IF Live(r) \subseteq Doomed(r, q) THEN "cancelled" ELSE r.status
    OBVIOUS
  <1>2. PICK x : x = [r EXCEPT !.segs = ss, !.status = st]
    OBVIOUS
  <1>3. Cancel(r, q) = x
    BY <1>1, <1>2 DEF Cancel
  <1>4. r \in Record /\ r.segs \in Seq({"HN", "HK", "XX"}) /\ r.status \in {"open", "ticketed", "cancelled"}
    BY DEF Sound, Record
  <1>5. ss \in Seq({"HN", "HK", "XX"}) /\ DOMAIN ss = DOMAIN r.segs
    BY <1>1, <1>4
  <1>6. st \in {"open", "ticketed", "cancelled"}
    BY <1>1, <1>4
  <1>7. Kept(r, x) /\ DOMAIN x.segs = DOMAIN r.segs /\ x.docs = r.docs
    <2>1. x \in Record /\ x.segs = ss /\ x.docs = r.docs
      BY <1>2, <1>4, <1>5, <1>6 DEF Record
    <2> QED
      BY <1>5, <2>1, SegsKept
  <1> QED
    BY <1>3, <1>7

(* AddSegment: one more segment, where there is one to add. *)
LEMMA AddSegmentKept ==
    ASSUME NEW r, Sound(r), NEW q, Request(q), q.op = "add", AddSegment(r, q) # None
    PROVE  Kept(r, AddSegment(r, q)) /\ AddSegment(r, q).docs = r.docs
  <1>1. PICK ss : ss = Append(r.segs, q.status)
    OBVIOUS
  <1>2. PICK x : x = [r EXCEPT !.segs = ss]
    OBVIOUS
  <1>3. AddSegment(r, q) = x /\ Len(r.segs) # Len(Operator)
    BY <1>1, <1>2 DEF AddSegment
  <1>4. r \in Record /\ r.segs \in Seq({"HN", "HK", "XX"}) /\ Itinerary(r) /\ q.status \in {"HN", "HK"}
    BY DEF Sound, Record, Request
  <1>5. ss \in Seq({"HN", "HK", "XX"}) /\ Len(ss) = Len(r.segs) + 1
    BY <1>1, <1>4
  <1>6. x \in Record /\ x.segs = ss /\ x.docs = r.docs
    BY <1>2, <1>4, <1>5 DEF Record
  <1>7. Itinerary(x) /\ Len(r.segs) <= Len(x.segs)
    <2>1. Len(r.segs) \in Nat /\ Len(Operator) \in Nat /\ Booked \in Nat
      BY <1>4, TicketingAssumption
    <2> QED
      BY <1>3, <1>4, <1>5, <1>6, <2>1 DEF Itinerary
  <1> QED
    BY <1>3, <1>6, <1>7, SameDocsKept

-----------------------------------------------------------------------------
(* Ticket control. *)

(* Documents of which coupons that were not final have another status, and *)
(* nothing else is different.                                              *)
Restatused(docs, ds) ==
    /\ ds \in Seq(Document) /\ DOMAIN ds = DOMAIN docs
    /\ \A e \in DOMAIN docs :
          /\ ds[e].type = docs[e].type /\ ds[e].pax = docs[e].pax /\ ds[e].from = docs[e].from
          /\ DOMAIN ds[e].coupons = DOMAIN docs[e].coupons
          /\ \A m \in DOMAIN docs[e].coupons :
                /\ ds[e].coupons[m].seg = docs[e].coupons[m].seg
                /\ ds[e].coupons[m].assoc = docs[e].coupons[m].assoc
                /\ Final(docs[e].coupons[m].status) => Final(ds[e].coupons[m].status)

(* liftAssociated: of value coupons alone, those stapled to the coupon     *)
(* that has ended end with it.                                             *)
LEMMA LiftFacts ==
    ASSUME NEW docs \in Seq(Document), NEW d, NEW n, NEW st \in Statuses
    PROVE  /\ Restatused(docs, LiftAssociated(docs, d, n, st))
           /\ \A e \in DOMAIN docs :
                 docs[e].type # "A" => LiftAssociated(docs, d, n, st)[e] = docs[e]
           /\ Final(st) => \A e \in DOMAIN docs : docs[e].type = "A" =>
                 \A m \in DOMAIN docs[e].coupons : docs[e].coupons[m].assoc = <<d, n>> =>
                     Final(LiftAssociated(docs, d, n, st)[e].coupons[m].status)
  <1>1. CASE ~Final(st)
    <2>1. LiftAssociated(docs, d, n, st) = docs
      BY <1>1 DEF LiftAssociated
    <2> QED
      BY <1>1, <2>1 DEF Restatused
  <1>2. CASE Final(st)
    <2> DEFINE new(e, m) == IF docs[e].coupons[m].assoc = <<d, n>> /\ ~Final(docs[e].coupons[m].status)
                            THEN [docs[e].coupons[m] EXCEPT !.status = st] ELSE docs[e].coupons[m]
               cl(e) == [m \in DOMAIN docs[e].coupons |-> new(e, m)]
               doc(e) == [docs[e] EXCEPT !.coupons = cl(e)]
    <2>1. PICK ls : ls = LiftAssociated(docs, d, n, st)
      OBVIOUS
    <2>2. ls = [e \in DOMAIN docs |-> IF docs[e].type # "A" THEN docs[e] ELSE doc(e)]
      BY <1>2, <2>1 DEF LiftAssociated
    <2>3. ASSUME NEW e \in DOMAIN docs
          PROVE  /\ docs[e] \in Document /\ docs[e].coupons \in Seq(Coupon)
                 /\ doc(e) \in Document /\ DOMAIN doc(e).coupons = DOMAIN docs[e].coupons
                 /\ doc(e).type = docs[e].type /\ doc(e).pax = docs[e].pax /\ doc(e).from = docs[e].from
                 /\ \A m \in DOMAIN docs[e].coupons :
                       /\ doc(e).coupons[m].seg = docs[e].coupons[m].seg
                       /\ doc(e).coupons[m].assoc = docs[e].coupons[m].assoc
                       /\ Final(docs[e].coupons[m].status) => Final(doc(e).coupons[m].status)
                       /\ docs[e].coupons[m].assoc = <<d, n>> => Final(doc(e).coupons[m].status)
      <3>1. PICK t : t = docs[e]
        OBVIOUS
      <3>2. t \in Document
        BY <3>1
      <3>3. t.coupons \in Seq(Coupon)
        BY <3>2 DEF Document
      <3>4. ASSUME NEW m \in DOMAIN t.coupons
            PROVE  /\ new(e, m) \in Coupon /\ new(e, m).seg = t.coupons[m].seg
                   /\ new(e, m).assoc = t.coupons[m].assoc
                   /\ Final(t.coupons[m].status) => Final(new(e, m).status)
                   /\ t.coupons[m].assoc = <<d, n>> => Final(new(e, m).status)
        <4>1. PICK c : c = t.coupons[m]
          OBVIOUS
        <4>2. c \in Coupon
          BY <3>3, <4>1
        <4>3. new(e, m) = IF c.assoc = <<d, n>> /\ ~Final(c.status) THEN [c EXCEPT !.status = st] ELSE c
          BY <3>1, <4>1
        <4>4. CASE c.assoc = <<d, n>> /\ ~Final(c.status)
          <5>1. PICK b : b = [c EXCEPT !.status = st]
            OBVIOUS
          <5>2. b \in Coupon /\ b.seg = c.seg /\ b.assoc = c.assoc /\ b.status = st
            BY <4>2, <5>1 DEF Coupon
          <5> QED
            BY <1>2, <4>1, <4>3, <4>4, <5>1, <5>2
        <4>5. CASE ~(c.assoc = <<d, n>> /\ ~Final(c.status))
          BY <4>1, <4>2, <4>3, <4>5
        <4> QED
          BY <4>4, <4>5
      <3> HIDE DEF new
      <3>5. DOMAIN cl(e) = DOMAIN t.coupons /\ cl(e) \in Seq(Coupon)
            /\ \A m \in DOMAIN t.coupons : cl(e)[m] = new(e, m)
        <4>1. DOMAIN cl(e) = DOMAIN t.coupons /\ cl(e) \in [DOMAIN t.coupons -> Coupon]
              /\ \A m \in DOMAIN t.coupons : cl(e)[m] = new(e, m)
          BY <3>1, <3>4
        <4>2. DOMAIN t.coupons = 1..Len(t.coupons) /\ Len(t.coupons) \in Int
          BY <3>3
        <4> HIDE DEF cl
        <4> QED
          BY <4>1, <4>2, SeqFromFunction
      <3> HIDE DEF cl
      <3>6. doc(e) = [t EXCEPT !.coupons = cl(e)]
        BY <3>1
      <3>7. doc(e) \in Document /\ doc(e).coupons = cl(e) /\ doc(e).type = t.type /\ doc(e).pax = t.pax
            /\ doc(e).from = t.from
        BY <3>2, <3>5, <3>6 DEF Document
      <3> HIDE DEF doc
      <3> QED
        BY <3>1, <3>2, <3>3, <3>4, <3>5, <3>7
    <2> HIDE DEF doc
    <2>4. ls \in Seq(Document) /\ DOMAIN ls = DOMAIN docs
      BY <2>2, <2>3
    <2>5. ASSUME NEW e \in DOMAIN docs
          PROVE  \/ ls[e] = docs[e] /\ docs[e].type # "A"
                 \/ ls[e] = doc(e) /\ docs[e].type = "A"
      BY <2>2
    <2>6. Restatused(docs, ls)
      BY <2>3, <2>4, <2>5 DEF Restatused
    <2> QED
      BY <2>1, <2>3, <2>5, <2>6
  <1> QED
    BY <1>1, <1>2

(* Documents of another status have the shape they had. *)
LEMMA RestatusedShape ==
    ASSUME NEW docs \in Seq(Document), NEW ds, Restatused(docs, ds)
    PROVE  \A e \in DOMAIN docs : SameShape(docs[e], ds[e])
  <1>1. \A e \in DOMAIN docs : ds[e] \in Document
    BY DEF Restatused
  <1> QED
    BY <1>1 DEF Restatused, SameShape

(* Statuses changed twice. *)
LEMMA RestatusedTwice ==
    ASSUME NEW a, NEW b, NEW c, Restatused(a, b), Restatused(b, c)
    PROVE  Restatused(a, c)
  BY DEF Restatused

(* What is stapled to the coupon n of document d has ended. *)
Ended(r, d, n) ==
    \A e \in DOMAIN r.docs : \A m \in DOMAIN r.docs[e].coupons :
        r.docs[e].coupons[m].assoc = <<d, n>> => Final(r.docs[e].coupons[m].status)

(* One coupon of a ticket control message: flight coupons keep their       *)
(* status, but for one that takes along what is stapled to it.             *)
LEMMA ApplyCouponFacts ==
    ASSUME NEW y, Sound(y), NEW q, q.doc \in DOMAIN y.docs, NEW want
    PROVE  /\ Sound(ApplyCoupon(y, q, want)) /\ ApplyCoupon(y, q, want).segs = y.segs
           /\ Restatused(y.docs, ApplyCoupon(y, q, want).docs)
           /\ \A d \in DOMAIN y.docs : y.docs[d].type = "T" => \A n \in DOMAIN y.docs[d].coupons :
                 \/ ApplyCoupon(y, q, want).docs[d].coupons[n].status = y.docs[d].coupons[n].status
                 \/ ApplyCoupon(y, q, want).docs[d].coupons[n].status = "F" =>
                       Ended(ApplyCoupon(y, q, want), d, n)
  <1> DEFINE Goal(x) == /\ Sound(x) /\ x.segs = y.segs /\ Restatused(y.docs, x.docs)
                        /\ \A d \in DOMAIN y.docs : y.docs[d].type = "T" => \A n \in DOMAIN y.docs[d].coupons :
                              \/ x.docs[d].coupons[n].status = y.docs[d].coupons[n].status
                              \/ x.docs[d].coupons[n].status = "F" => Ended(x, d, n)
  <1>1. PICK d0, n0, st : d0 = q.doc /\ n0 = want.n /\ st = want.status
    OBVIOUS
  <1>2. y \in Record /\ y.docs \in Seq(Document)
    BY DEF Sound, Record
  <1>3. PICK t : t = y.docs[d0]
    OBVIOUS
  <1>4. d0 \in DOMAIN y.docs /\ t \in Document
    BY <1>1, <1>2, <1>3
  <1>5. t.coupons \in Seq(Coupon)
    BY <1>4 DEF Document
  <1>6. PICK ds : ds = [y.docs EXCEPT ![d0].coupons[n0].status = st]
    OBVIOUS
  <1>7. PICK ls : ls = IF t.type = "T" THEN LiftAssociated(ds, d0, n0, st) ELSE ds
    OBVIOUS
  <1>8. PICK x : x = [y EXCEPT !.docs = ls]
    OBVIOUS
  <1>9. CASE Refuses(y, q, want) \/ t.coupons[n0].status = st
    <2>1. ApplyCoupon(y, q, want) = y
      BY <1>1, <1>3, <1>9 DEF ApplyCoupon
    <2>2. Restatused(y.docs, y.docs)
      BY <1>2 DEF Restatused
    <2> QED
      BY <2>1, <2>2
  <1>10. CASE ~(Refuses(y, q, want) \/ t.coupons[n0].status = st)
    <2>1. ApplyCoupon(y, q, want) = x
      BY <1>1, <1>3, <1>6, <1>7, <1>8, <1>10 DEF ApplyCoupon, IsFlight
    <2>2. st \in Statuses /\ n0 \in DOMAIN t.coupons /\ ~Final(t.coupons[n0].status)
      BY <1>1, <1>3, <1>10 DEF Refuses
    <2>3. PICK c : c = [t.coupons[n0] EXCEPT !.status = st]
      OBVIOUS
    <2>4. c \in Coupon /\ c.seg = t.coupons[n0].seg /\ c.assoc = t.coupons[n0].assoc /\ c.status = st
      <3>1. t.coupons[n0] \in Coupon
        BY <1>5, <2>2
      <3> QED
        BY <2>2, <2>3, <3>1 DEF Coupon
    <2>5. ds = [y.docs EXCEPT ![d0].coupons[n0] = c]
      BY <1>3, <1>6, <2>3
    <2>6. /\ ds \in Seq(Document) /\ DOMAIN ds = DOMAIN y.docs
          /\ \A e \in DOMAIN y.docs : /\ e # d0 => ds[e] = y.docs[e]
                                      /\ ds[e].type = y.docs[e].type /\ ds[e].pax = y.docs[e].pax
                                      /\ ds[e].from = y.docs[e].from
                                      /\ DOMAIN ds[e].coupons = DOMAIN y.docs[e].coupons
          /\ ds[d0].coupons[n0] = c
          /\ \A m \in DOMAIN y.docs[d0].coupons : m # n0 => ds[d0].coupons[m] = y.docs[d0].coupons[m]
      <3>1. n0 \in DOMAIN y.docs[d0].coupons
        BY <1>3, <2>2
      <3>2. Recouponed(y.docs, ds, d0, n0, c)
        BY <1>2, <1>4, <2>4, <2>5, <3>1, CouponSet
      <3> QED
        BY <3>2 DEF Recouponed
    <2>7. ASSUME NEW e \in DOMAIN y.docs, NEW m \in DOMAIN y.docs[e].coupons
          PROVE  \/ ds[e].coupons[m] = y.docs[e].coupons[m]
                 \/ e = d0 /\ m = n0 /\ ds[e].coupons[m] = c
      BY <2>6
    <2>8. Restatused(y.docs, ds)
      <3>1. ASSUME NEW e \in DOMAIN y.docs, NEW m \in DOMAIN y.docs[e].coupons
            PROVE  /\ ds[e].coupons[m].seg = y.docs[e].coupons[m].seg
                   /\ ds[e].coupons[m].assoc = y.docs[e].coupons[m].assoc
                   /\ Final(y.docs[e].coupons[m].status) => Final(ds[e].coupons[m].status)
        <4>1. CASE ds[e].coupons[m] = y.docs[e].coupons[m]
          BY <4>1
        <4>2. CASE e = d0 /\ m = n0 /\ ds[e].coupons[m] = c
          BY <1>3, <2>2, <2>4, <4>2
        <4> QED
          BY <2>7, <4>1, <4>2
      <3> QED
        BY <2>6, <3>1 DEF Restatused
    <2>9. /\ Restatused(ds, ls)
          /\ \A e \in DOMAIN ds : ds[e].type # "A" => ls[e] = ds[e]
          /\ t.type = "T" /\ Final(st) => \A e \in DOMAIN ds : ds[e].type = "A" =>
                \A m \in DOMAIN ds[e].coupons : ds[e].coupons[m].assoc = <<d0, n0>> =>
                    Final(ls[e].coupons[m].status)
      <3>1. CASE t.type = "T"
        BY <1>7, <2>2, <2>6, <3>1, LiftFacts
      <3>2. CASE t.type # "T"
        <4>1. ls = ds
          BY <1>7, <3>2
        <4> QED
          BY <2>6, <3>2, <4>1 DEF Restatused
      <3> QED
        BY <3>1, <3>2
    <2>10. Restatused(y.docs, ls)
      BY <2>8, <2>9, RestatusedTwice
    <2>11. Sound(x) /\ x.segs = y.segs /\ x.docs = ls
      <3>1. /\ ls \in Seq(Document) /\ DOMAIN ls = DOMAIN y.docs
            /\ \A e \in DOMAIN y.docs : SameShape(y.docs[e], ls[e])
        BY <1>2, <2>10, RestatusedShape DEF Restatused
      <3> QED
        BY <1>8, <3>1, DocsKept
    <2>12. ASSUME NEW d \in DOMAIN y.docs, y.docs[d].type = "T", NEW n \in DOMAIN y.docs[d].coupons,
                  x.docs[d].coupons[n].status # y.docs[d].coupons[n].status,
                  x.docs[d].coupons[n].status = "F"
           PROVE  Ended(x, d, n)
      <3>1. ls[d] = ds[d] /\ x.docs[d] = ds[d]
        BY <2>6, <2>9, <2>11, <2>12
      <3>2. d = d0 /\ n = n0 /\ ds[d].coupons[n] = c
        BY <2>7, <2>12, <3>1
      <3>3. st = "F" /\ t.type = "T"
        BY <1>3, <2>4, <2>12, <3>1, <3>2
      <3>4. Final(st)
        BY <3>3 DEF Final
      <3>5. d0 # 0
        BY <1>2, <1>4
      <3>6. ASSUME NEW e \in DOMAIN ls, NEW m \in DOMAIN ls[e].coupons, ls[e].coupons[m].assoc = <<d0, n0>>
            PROVE  Final(ls[e].coupons[m].status)
        <4>1. e \in DOMAIN y.docs /\ e \in DOMAIN ds /\ ds[e].type = y.docs[e].type
          BY <2>6, <2>9 DEF Restatused
        <4>2. /\ m \in DOMAIN ds[e].coupons /\ ds[e].coupons[m].assoc = <<d0, n0>>
              /\ m \in DOMAIN y.docs[e].coupons /\ y.docs[e].coupons[m].assoc = <<d0, n0>>
          BY <2>9, <2>10, <3>6, <4>1 DEF Restatused
        <4>3. CASE y.docs[e].type = "A"
          BY <2>9, <3>3, <3>4, <4>1, <4>2, <4>3
        <4>4. CASE y.docs[e].type # "A"
          <5>1. y.docs[e].coupons[m].assoc = Unstapled
            BY <4>1, <4>2, <4>4 DEF Sound, Placed
          <5> QED
            BY <3>5, <4>2, <5>1 DEF Unstapled
        <4> QED
          BY <4>3, <4>4
      <3> QED
        BY <2>11, <3>2, <3>6 DEF Ended
    <2>13. Goal(x)
      BY <2>10, <2>11, <2>12
    <2> HIDE DEF Goal
    <2>14. Goal(ApplyCoupon(y, q, want))
      BY <2>1, <2>13
    <2> QED
      BY <2>14 DEF Goal
  <1> QED
    BY <1>9, <1>10

(* The record after each coupon of a message is defined. *)
LEMMA AppliedExists ==
    ASSUME NEW r, NEW q, NEW n \in Nat
    PROVE  \E f : f = [i \in 0..n |-> IF i = 0 THEN r ELSE ApplyCoupon(f[i - 1], q, q.wants[i])]
  <1> DEFINE Is(f, m) == f = [i \in 0..m |-> IF i = 0 THEN r ELSE ApplyCoupon(f[i - 1], q, q.wants[i])]
             Bad == {m \in Nat : ~\E f : Is(f, m)}
  <1> SUFFICES ASSUME Bad # {} PROVE FALSE
    OBVIOUS
  <1>0. Bad \in SUBSET Nat
    OBVIOUS
  <1>1. PICK m \in Bad : \A k \in Bad : m <= k
    <2> HIDE DEF Bad
    <2> QED
      BY <1>0, LeastElement
  <1>2. m \in Nat /\ ~\E f : Is(f, m)
    OBVIOUS
  <1>3. CASE m = 0
    <2>1. Is([i \in 0..0 |-> r], 0)
      OBVIOUS
    <2> HIDE DEF Is
    <2> QED
      BY <1>2, <1>3, <2>1
  <1>4. CASE m # 0
    <2>1. m - 1 \in Nat /\ m - 1 \notin Bad
      <3> HIDE DEF Bad
      <3> QED
        BY <1>1, <1>2, <1>4
    <2>2. PICK f : Is(f, m - 1)
      <3> HIDE DEF Is
      <3> QED
        BY <2>1
    <2> DEFINE g == [i \in 0..m |-> IF i = m THEN ApplyCoupon(f[m - 1], q, q.wants[i]) ELSE f[i]]
    <2>3. ASSUME NEW i \in 0..m
          PROVE  g[i] = IF i = 0 THEN r ELSE ApplyCoupon(g[i - 1], q, q.wants[i])
      <3>1. CASE i = 0
        <4>1. i \in 0..(m - 1) /\ i # m
          BY <1>2, <1>4, <3>1
        <4> QED
          BY <2>2, <3>1, <4>1
      <3>2. CASE i # 0
        <4>1. i - 1 \in 0..m /\ i - 1 \in 0..(m - 1) /\ i - 1 # m
          BY <1>2, <3>2
        <4>2. g[i - 1] = f[i - 1]
          BY <4>1
        <4>3. CASE i = m
          BY <3>2, <4>1, <4>2, <4>3
        <4>4. CASE i # m
          <5>1. i \in 0..(m - 1)
            BY <1>2, <4>4
          <5>2. f[i] = ApplyCoupon(f[i - 1], q, q.wants[i])
            BY <2>2, <3>2, <5>1
          <5> QED
            BY <3>2, <4>1, <4>2, <4>4, <5>2
        <4> QED
          BY <4>3, <4>4
      <3> QED
        BY <3>1, <3>2
    <2>4. Is(g, m)
      BY <2>3
    <2> HIDE DEF Is, g
    <2> QED
      BY <1>2, <2>4
  <1> QED
    BY <1>3, <1>4

(* Where a flight coupon of r has become flown in x, what is stapled to it *)
(* has ended.                                                              *)
Lifted(r, x) ==
    \A d \in DOMAIN r.docs : r.docs[d].type = "T" => \A n \in DOMAIN r.docs[d].coupons :
        ~Final(r.docs[d].coupons[n].status) /\ x.docs[d].coupons[n].status = "F" => Ended(x, d, n)

(* What a coupon does to the record is in line with the coupons before it. *)
LEMMA LiftedTwice ==
    ASSUME NEW r, NEW y, NEW z, Restatused(r.docs, y.docs), Restatused(y.docs, z.docs), Lifted(r, y),
           \A d \in DOMAIN y.docs : y.docs[d].type = "T" => \A n \in DOMAIN y.docs[d].coupons :
               \/ z.docs[d].coupons[n].status = y.docs[d].coupons[n].status
               \/ z.docs[d].coupons[n].status = "F" => Ended(z, d, n)
    PROVE  Lifted(r, z)
  <1> SUFFICES ASSUME NEW d \in DOMAIN r.docs, r.docs[d].type = "T", NEW n \in DOMAIN r.docs[d].coupons,
                      ~Final(r.docs[d].coupons[n].status), z.docs[d].coupons[n].status = "F"
               PROVE  Ended(z, d, n)
    BY DEF Lifted
  <1>1. d \in DOMAIN y.docs /\ y.docs[d].type = "T" /\ n \in DOMAIN y.docs[d].coupons
    BY DEF Restatused
  <1>2. CASE y.docs[d].coupons[n].status = "F"
    <2>1. Ended(y, d, n)
      BY <1>2 DEF Lifted
    <2>2. ASSUME NEW e \in DOMAIN z.docs, NEW m \in DOMAIN z.docs[e].coupons,
                 z.docs[e].coupons[m].assoc = <<d, n>>
          PROVE  Final(z.docs[e].coupons[m].status)
      <3>1. e \in DOMAIN y.docs /\ m \in DOMAIN y.docs[e].coupons
        BY DEF Restatused
      <3>2. y.docs[e].coupons[m].assoc = <<d, n>>
        BY <2>2, <3>1 DEF Restatused
      <3>3. Final(y.docs[e].coupons[m].status)
        BY <2>1, <3>1, <3>2 DEF Ended
      <3> QED
        BY <3>1, <3>3 DEF Restatused
    <2> QED
      BY <2>2 DEF Ended
  <1>3. CASE y.docs[d].coupons[n].status # "F"
    BY <1>1, <1>3
  <1> QED
    BY <1>2, <1>3

(* A ticket control message: coupon after coupon, and what is stapled to a *)
(* coupon it makes flown has ended when it is through.                     *)
LEMMA ApplyCouponsFacts ==
    ASSUME NEW r, Sound(r), NEW q, q.doc \in DOMAIN r.docs, Len(q.wants) \in Nat
    PROVE  /\ Sound(ApplyCoupons(r, q)) /\ ApplyCoupons(r, q).segs = r.segs
           /\ Restatused(r.docs, ApplyCoupons(r, q).docs) /\ Lifted(r, ApplyCoupons(r, q))
  <1> DEFINE after == CHOOSE f : f = [i \in 0..Len(q.wants) |->
                                        IF i = 0 THEN r ELSE ApplyCoupon(f[i - 1], q, q.wants[i])]
             Good(x) == Sound(x) /\ x.segs = r.segs /\ Restatused(r.docs, x.docs) /\ Lifted(r, x)
             Bad == {i \in 0..Len(q.wants) : ~Good(after[i])}
  <1>1. ApplyCoupons(r, q) = after[Len(q.wants)]
    BY DEF ApplyCoupons
  <1>2. after = [i \in 0..Len(q.wants) |-> IF i = 0 THEN r ELSE ApplyCoupon(after[i - 1], q, q.wants[i])]
    BY AppliedExists
  <1> HIDE DEF after
  <1>3. Good(r)
    <2>1. r.docs \in Seq(Document)
      BY DEF Sound, Record
    <2>2. Restatused(r.docs, r.docs)
      BY <2>1 DEF Restatused
    <2>3. Lifted(r, r)
      BY DEF Lifted, Final
    <2> QED
      BY <2>2, <2>3
  <1>4. ASSUME NEW y, NEW want, Good(y) PROVE Good(ApplyCoupon(y, q, want))
    <2>1. PICK z : z = ApplyCoupon(y, q, want)
      OBVIOUS
    <2>2. q.doc \in DOMAIN y.docs
      BY <1>4 DEF Restatused
    <2>3. /\ Sound(z) /\ z.segs = y.segs /\ Restatused(y.docs, z.docs)
          /\ \A d \in DOMAIN y.docs : y.docs[d].type = "T" => \A n \in DOMAIN y.docs[d].coupons :
                 \/ z.docs[d].coupons[n].status = y.docs[d].coupons[n].status
                 \/ z.docs[d].coupons[n].status = "F" => Ended(z, d, n)
      BY <1>4, <2>1, <2>2, ApplyCouponFacts, Zenon
    <2>4. Restatused(r.docs, z.docs)
      BY <1>4, <2>3, RestatusedTwice
    <2>5. Lifted(r, z)
      BY <1>4, <2>3, LiftedTwice, Zenon
    <2> QED
      BY <1>4, <2>1, <2>3, <2>4, <2>5
  <1> HIDE DEF Good
  <1>5. Bad = {}
    <2> SUFFICES ASSUME Bad # {} PROVE FALSE
      OBVIOUS
    <2>0. Bad \in SUBSET Nat
      OBVIOUS
    <2>1. PICK i \in Bad : \A j \in Bad : i <= j
      <3> HIDE DEF Bad
      <3> QED
        BY <2>0, LeastElement
    <2>2. i \in 0..Len(q.wants) /\ ~Good(after[i])
      OBVIOUS
    <2>3. CASE i = 0
      BY <1>2, <1>3, <2>2, <2>3
    <2>4. CASE i # 0
      <3>1. i - 1 \in 0..Len(q.wants) /\ i - 1 \notin Bad
        <4> HIDE DEF Bad
        <4> QED
          BY <2>1, <2>2, <2>4
      <3>2. Good(after[i - 1]) /\ after[i] = ApplyCoupon(after[i - 1], q, q.wants[i])
        BY <1>2, <2>2, <2>4, <3>1
      <3> HIDE DEF Bad
      <3> QED
        BY <1>4, <2>2, <3>2
    <2> HIDE DEF Bad
    <2> QED
      BY <2>3, <2>4
  <1>6. Good(ApplyCoupons(r, q))
    BY <1>1, <1>5
  <1> QED
    BY <1>6 DEF Good

-----------------------------------------------------------------------------
(* Any call. *)

(* A call keeps the record sound and its documents; it adds tickets, one   *)
(* EMD, or none.                                                           *)
Served(r, q, x) ==
    /\ Sound(x) /\ Follows(r, x) /\ Lifted(r, x)
    /\ q.op \in {"issue", "exchange"} => NewFlights(r, x)
    /\ q.op = "emd" => /\ Len(x.docs) = Len(r.docs) + 1
                       /\ x.docs[Len(x.docs)].type = q.type
                       /\ Segs(x.docs[Len(x.docs)]) = {q.seg}
                       /\ q.type = "A" => q.seg \in DOMAIN x.segs
    /\ q.op \notin {"issue", "exchange", "emd"} => DOMAIN x.docs = DOMAIN r.docs

(* No coupon becomes flown, so there is nothing to lift. *)
LEMMA KeptLifted ==
    ASSUME NEW r, NEW x, Kept(r, x)
    PROVE  Sound(x) /\ Follows(r, x) /\ Lifted(r, x)
  BY DEF Kept, NoneFlown, Lifted, Final

(* Documents with other statuses follow those they were. *)
LEMMA RestatusedFollows ==
    ASSUME NEW r, Sound(r), NEW x, x.segs = r.segs, Restatused(r.docs, x.docs)
    PROVE  Follows(r, x) /\ DOMAIN x.docs = DOMAIN r.docs
  <1>1. r.docs \in Seq(Document) /\ x.docs \in Seq(Document) /\ DOMAIN x.docs = DOMAIN r.docs
        /\ r.segs \in Seq({"HN", "HK", "XX"})
    BY DEF Sound, Record, Restatused
  <1>2. \A d \in DOMAIN r.docs : SameShape(r.docs[d], x.docs[d])
    BY <1>1, RestatusedShape
  <1>3. Len(r.docs) = Len(x.docs) /\ Len(r.docs) \in Nat /\ Len(r.segs) \in Nat
    BY <1>1
  <1> QED
    BY <1>1, <1>2, <1>3 DEF Follows

(* What a call makes of a sound record. *)
LEMMA ApplyServes ==
    ASSUME NEW r, Sound(r), NEW q, Request(q), Apply(r, q) # None
    PROVE  Served(r, q, Apply(r, q))
  <1>1. PICK x : x = Apply(r, q)
    OBVIOUS
  <1>2. CASE q.op = "issue"
    <2>1. x = IssueTickets(r)
      BY <1>1, <1>2 DEF Apply
    <2>0. MayIssue(r)
      BY <1>1, <2>1 DEF IssueTickets, MayIssue
    <2>2. Kept(r, x) /\ NewFlights(r, x)
      BY <2>0, <2>1, IssueTicketsSound
    <2> QED
      BY <1>1, <1>2, <2>2, KeptLifted DEF Served
  <1>3. CASE q.op = "exchange"
    <2>1. x = Exchange(r)
      BY <1>1, <1>3 DEF Apply
    <2>2. Kept(r, x) /\ NewFlights(r, x)
      BY <1>1, <2>1, ExchangeKept
    <2> QED
      BY <1>1, <1>3, <2>2, KeptLifted DEF Served
  <1>4. CASE q.op = "refund"
    <2>1. x = Refund(r)
      BY <1>1, <1>4 DEF Apply
    <2>2. Kept(r, x) /\ DOMAIN x.docs = DOMAIN r.docs
      BY <1>1, <2>1, RefundKept
    <2> QED
      BY <1>1, <1>4, <2>2, KeptLifted DEF Served
  <1>5. CASE q.op = "emd"
    <2>1. x = IssueEMD(r, q)
      BY <1>1, <1>5 DEF Apply
    <2>2. /\ Kept(r, x) /\ x.segs = r.segs /\ Len(x.docs) = Len(r.docs) + 1
          /\ x.docs[Len(x.docs)].type = q.type /\ Segs(x.docs[Len(x.docs)]) = {q.seg}
          /\ q.type = "A" => q.seg \in DOMAIN x.segs
      BY <1>1, <1>5, <2>1, IssueEMDKept
    <2> QED
      BY <1>1, <1>5, <2>2, KeptLifted DEF Served
  <1>6. CASE q.op = "staple"
    <2>1. x = AssociateEMD(r, q)
      BY <1>1, <1>6 DEF Apply
    <2>2. Kept(r, x) /\ DOMAIN x.docs = DOMAIN r.docs
      BY <1>1, <1>6, <2>1, AssociateKept
    <2> QED
      BY <1>1, <1>6, <2>2, KeptLifted DEF Served
  <1>7. CASE q.op = "cancel"
    <2>1. x = Cancel(r, q)
      BY <1>1, <1>7 DEF Apply
    <2>2. Kept(r, x) /\ x.docs = r.docs
      BY <1>1, <2>1, CancelKept
    <2> QED
      BY <1>1, <1>7, <2>2, KeptLifted DEF Served
  <1>8. CASE q.op = "add"
    <2>1. x = AddSegment(r, q)
      BY <1>1, <1>8 DEF Apply
    <2>2. Kept(r, x) /\ x.docs = r.docs
      BY <1>1, <1>8, <2>1, AddSegmentKept
    <2> QED
      BY <1>1, <1>8, <2>2, KeptLifted DEF Served
  <1>9. CASE q.op = "control"
    <2>1. q.doc \in DOMAIN r.docs /\ x = ApplyCouponChanges(r, q)
      BY <1>1, <1>9 DEF Apply
    <2>2. x = ApplyCoupons(r, q)
      BY <1>1, <2>1 DEF ApplyCouponChanges
    <2>3. q.wants \in Seq([n : Nat, status : STRING])
      BY <1>9 DEF Request
    <2>4. Len(q.wants) \in Nat
      BY <2>3
    <2>5. Sound(x) /\ x.segs = r.segs /\ Restatused(r.docs, x.docs) /\ Lifted(r, x)
      BY <2>1, <2>2, <2>4, ApplyCouponsFacts
    <2>6. Follows(r, x) /\ DOMAIN x.docs = DOMAIN r.docs
      BY <2>5, RestatusedFollows
    <2> QED
      BY <1>1, <1>9, <2>5, <2>6 DEF Served
  <1> QED
    BY <1>2, <1>3, <1>4, <1>5, <1>6, <1>7, <1>8, <1>9 DEF Request

-----------------------------------------------------------------------------
(* The goroutines. *)

Worker ==
    [pc : Pcs, q : AllRequests \cup {None, Expired} \cup Sweeps, copy : Record \cup {None},
     tries : 0..(MaxAttempts - 1), todo : SUBSET (Kinds \X Nat \X Carriers)]

(* What goroutine w may be doing, c, while the store has the record r: a   *)
(* call it reads or writes for is a request, the sweeper's a cancellation; *)
(* the record it sweeps was sound; and the documents it tells of are on    *)
(* the record.                                                             *)
Doing(w, c, r) ==
    /\ c \in Worker
    /\ c.pc \in {"read", "write"} => /\ Request(c.q) /\ c.q \in AllRequests \cup {Expired}
                                     /\ w = Sweeper => c.q = Expired
    /\ w = Sweeper => \A m \in c.todo : m[1] = "cancel"
    /\ c.pc = "place" => Sound(c.copy)
    /\ c.pc \in {"work", "tell"} => \A m \in c.todo : m[1] = "ticket" => m[2] \in DOMAIN r.docs

(* A copy that no write overtook is what the call makes of the record as   *)
(* it is now, and so is what is then told.                                 *)
Current(c, r) ==
    c.pc = "write" /\ c.copy # None /\ c.copy = Apply(r, c.q) /\ c.todo = Tells(r, c.q, c.copy)

Staff(k, fr, r) ==
    /\ k \in [Workers -> Worker]
    /\ \A w \in Workers : Doing(w, k[w], r)
    /\ fr \subseteq Workers
    /\ \A w \in fr : Current(k[w], r)

(* One goroutine goes on. *)
LEMMA WorkerMoves ==
    ASSUME NEW k, NEW fr, NEW r, Staff(k, fr, r), NEW w \in Workers, NEW c, Doing(w, c, r),
           NEW fr1, fr1 \subseteq fr \cup {w}, w \in fr1 => Current(c, r)
    PROVE  Staff([k EXCEPT ![w] = c], fr1, r)
  <1>1. PICK k1 : k1 = [k EXCEPT ![w] = c]
    OBVIOUS
  <1>2. k \in [Workers -> Worker] /\ c \in Worker
    BY DEF Staff, Doing
  <1>3. k1 \in [Workers -> Worker] /\ k1[w] = c /\ \A v \in Workers : v # w => k1[v] = k[v]
    BY <1>1, <1>2
  <1>4. \A v \in Workers : Doing(v, k1[v], r)
    BY <1>3 DEF Staff
  <1>5. fr1 \subseteq Workers /\ \A v \in fr1 : Current(k1[v], r)
    BY <1>3 DEF Staff
  <1>6. Staff(k1, fr1, r)
    BY <1>3, <1>4, <1>5 DEF Staff
  <1> QED
    BY <1>1, <1>6

(* The record is written, and every copy is out of date. *)
LEMMA RecordMoves ==
    ASSUME NEW k, NEW fr, NEW r, Staff(k, fr, r), NEW x, DOMAIN r.docs \subseteq DOMAIN x.docs
    PROVE  Staff(k, {}, x)
  BY DEF Staff, Doing

(* A goroutine with nothing to do. *)
LEMMA IdleDoing ==
    ASSUME NEW w, NEW r
    PROVE  Doing(w, Idle, r) /\ Idle.pc = "idle" /\ Idle.todo = {}
  <1>1. Idle \in Worker
    BY TicketingAssumption DEF Idle, Worker, Pcs
  <1> QED
    BY <1>1 DEF Doing, Idle

(* The segments of a sound record have carriers. *)
LEMMA SegmentsOperated ==
    ASSUME NEW x, Sound(x)
    PROVE  /\ DOMAIN x.segs \subseteq DOMAIN Operator
           /\ \A s \in DOMAIN x.segs : Operator[s] \in Carriers
           /\ Len(x.segs) \in DOMAIN x.segs /\ DOMAIN x.docs \subseteq Nat
           /\ 1..Booked \subseteq DOMAIN x.segs
  <1>1. x.segs \in Seq({"HN", "HK", "XX"}) /\ Itinerary(x) /\ x.docs \in Seq(Document)
    BY DEF Sound, Record
  <1>2. DOMAIN x.segs = 1..Len(x.segs) /\ Len(x.segs) \in Nat
    BY <1>1
  <1>3. DOMAIN Operator = 1..Len(Operator) /\ Len(Operator) \in Nat /\ Booked \in 1..Len(Operator)
    BY TicketingAssumption
  <1>4. DOMAIN x.segs \subseteq DOMAIN Operator
    BY <1>1, <1>2, <1>3 DEF Itinerary
  <1>5. Len(x.segs) \in DOMAIN x.segs /\ 1..Booked \subseteq DOMAIN x.segs
    BY <1>1, <1>2, <1>3 DEF Itinerary
  <1> QED
    BY <1>1, <1>4, <1>5 DEF Carriers

(* The messages about documents. *)
LEMMA TicketsFacts ==
    ASSUME NEW x, Sound(x), NEW ds, ds \subseteq DOMAIN x.docs
    PROVE  /\ Tickets(x, ds) \in SUBSET (Kinds \X Nat \X Carriers)
           /\ \A m \in Tickets(x, ds) : m[1] = "ticket" /\ m[2] \in ds
           /\ \A d \in ds : \A s \in Covered(x, d) : <<"ticket", d, Operator[s]>> \in Tickets(x, ds)
  <1>1. ASSUME NEW m \in Tickets(x, ds)
        PROVE  m \in Kinds \X Nat \X Carriers /\ m[1] = "ticket" /\ m[2] \in ds
    <2>0. PICK d \in ds : \E s \in Covered(x, d) : m = <<"ticket", d, Operator[s]>>
      BY DEF Tickets
    <2>1. PICK s \in Covered(x, d) : m = <<"ticket", d, Operator[s]>>
      BY <2>0
    <2>2. d \in Nat /\ Operator[s] \in Carriers
      BY SegmentsOperated DEF Covered
    <2> QED
      BY <2>1, <2>2 DEF Kinds
  <1>2. ASSUME NEW d \in ds, NEW s \in Covered(x, d)
        PROVE  <<"ticket", d, Operator[s]>> \in Tickets(x, ds)
    BY DEF Tickets
  <1> QED
    BY <1>1, <1>2

(* What a call sends. *)
LEMMA TellsFacts ==
    ASSUME NEW r, Sound(r), NEW q, Request(q), NEW x, Sound(x),
           q.op = "emd" => Len(x.docs) \in DOMAIN x.docs
    PROVE  /\ Tells(r, q, x) \in SUBSET (Kinds \X Nat \X Carriers)
           /\ \A m \in Tells(r, q, x) : m[1] = "ticket" => m[2] \in DOMAIN x.docs
           /\ q = Expired => \A m \in Tells(r, q, x) : m[1] = "cancel"
  <1> DEFINE Goal(S) == /\ S \in SUBSET (Kinds \X Nat \X Carriers)
                        /\ \A m \in S : m[1] = "ticket" => m[2] \in DOMAIN x.docs
                        /\ q = Expired => \A m \in S : m[1] = "cancel"
  <1>0. q = Expired => q.op = "cancel"
    BY DEF Expired
  <1>1. CASE q.op \in {"issue", "exchange"}
    <2>1. Tells(r, q, x) = Tickets(x, DOMAIN x.docs)
      BY <1>1 DEF Tells
    <2>2. Goal(Tickets(x, DOMAIN x.docs))
      BY <1>0, <1>1, TicketsFacts
    <2> QED
      BY <2>1, <2>2
  <1>2. CASE q.op = "emd"
    <2>1. Tells(r, q, x) = Tickets(x, {Len(x.docs)})
      BY <1>2 DEF Tells
    <2>2. {Len(x.docs)} \subseteq DOMAIN x.docs
      BY <1>2
    <2>3. Goal(Tickets(x, {Len(x.docs)}))
      BY <1>0, <1>2, <2>2, TicketsFacts
    <2> QED
      BY <2>1, <2>3
  <1>3. CASE q.op = "cancel"
    <2>1. Tells(r, q, x) = {<<"cancel", 0, Operator[s]>> : s \in Doomed(r, q)}
      BY <1>3 DEF Tells
    <2>2. \A s \in Doomed(r, q) : Operator[s] \in Carriers
      BY SegmentsOperated DEF Doomed, Live
    <2>3. Goal({<<"cancel", 0, Operator[s]>> : s \in Doomed(r, q)})
      BY <2>2 DEF Kinds
    <2> QED
      BY <2>1, <2>3
  <1>4. CASE q.op = "add"
    <2>1. Tells(r, q, x) = {<<"request", 0, Operator[Len(x.segs)]>>}
      BY <1>4 DEF Tells
    <2>2. Operator[Len(x.segs)] \in Carriers
      BY SegmentsOperated
    <2>3. Goal({<<"request", 0, Operator[Len(x.segs)]>>})
      BY <1>0, <1>4, <2>2 DEF Kinds
    <2> QED
      BY <2>1, <2>3
  <1>5. CASE q.op = "control"
    <2>1. PICK kind \in {"refused", "answered"} : Tells(r, q, x) = {<<kind, q.doc, q.from>>}
      BY <1>5 DEF Tells
    <2>2. q.doc \in Nat /\ q.from \in Carriers
      BY <1>5 DEF Request
    <2>3. Goal({<<kind, q.doc, q.from>>})
      BY <1>0, <1>5, <2>2 DEF Kinds
    <2> QED
      BY <2>1, <2>3
  <1>6. CASE q.op \in {"refund", "staple"}
    <2>1. Tells(r, q, x) = {}
      BY <1>6 DEF Tells
    <2> QED
      BY <2>1
  <1> QED
    BY <1>1, <1>2, <1>3, <1>4, <1>5, <1>6 DEF Request

-----------------------------------------------------------------------------
(* The inductive invariant. *)

IInv ==
    /\ Sound(rec) /\ Staff(wk, fresh, rec)
    /\ items \subseteq Codes /\ told \subseteq (DOMAIN rec.docs) \X Carriers
    /\ clock \in {"early", "near", "past"} /\ calls \in 0..MaxCalls /\ faults \in 0..MaxFaults

(* A goroutine goes on, and the record stays. *)
LEMMA MoveInv ==
    ASSUME IInv, NEW w \in Workers, NEW c, Doing(w, c, rec), wk' = [wk EXCEPT ![w] = c], rec' = rec,
           fresh' \subseteq fresh \cup {w}, w \in fresh' => Current(c, rec),
           items' \subseteq Codes, told' \subseteq (DOMAIN rec.docs) \X Carriers, clock' = clock,
           calls' \in 0..MaxCalls, faults' \in 0..MaxFaults
    PROVE  IInv'
  <1>1. Staff(wk, fresh, rec)
    BY DEF IInv
  <1>2. Staff([wk EXCEPT ![w] = c], fresh', rec)
    BY <1>1, WorkerMoves, Zenon
  <1>3. Staff(wk', fresh', rec')
    BY <1>2
  <1> QED
    BY <1>3 DEF IInv

(* What a goroutine does, taken apart. *)
LEMMA WorkerFacts ==
    ASSUME IInv, NEW w \in Workers
    PROVE  /\ Doing(w, wk[w], rec) /\ wk[w] \in Worker
           /\ DOMAIN wk[w] = {"pc", "q", "copy", "tries", "todo"}
           /\ wk[w].tries \in 0..(MaxAttempts - 1)
           /\ wk[w].q \in AllRequests \cup {None, Expired} \cup Sweeps
           /\ wk[w].todo \in SUBSET (Kinds \X Nat \X Carriers)
           /\ w \in fresh => Current(wk[w], rec)
  <1>1. Doing(w, wk[w], rec) /\ wk[w] \in Worker /\ (w \in fresh => Current(wk[w], rec))
    BY DEF IInv, Staff, Doing
  <1> QED
    BY <1>1 DEF Worker

(* Whatever is asked for, and the sweeper's cancellation, is a request. *)
LEMMA RequestsFacts ==
    /\ \A w \in Callers : \A q \in Requests[w] : Request(q) /\ q \in AllRequests
    /\ Request(Expired) /\ Expired.op = "cancel"
  BY TicketingAssumption DEF AllRequests, Request, Expired

(* A read: the goroutine has a current copy and what it will tell, or has  *)
(* nothing to write.                                                       *)
LEMMA ReadsDoing ==
    ASSUME Sound(rec), NEW w, NEW q, Request(q), q \in AllRequests \cup {Expired},
           w = Sweeper => q = Expired, NEW tries \in 0..(MaxAttempts - 1), Reads(w, q, tries)
    PROVE  \E c : /\ wk' = [wk EXCEPT ![w] = c] /\ Doing(w, c, rec)
                  /\ fresh' \subseteq fresh \cup {w} /\ (w \in fresh' => Current(c, rec))
  <1>1. PICK x : x = Apply(rec, q)
    OBVIOUS
  <1>2. CASE x # None
    <2>1. PICK T : T = Tells(rec, q, x)
      OBVIOUS
    <2>2. PICK c : c = [pc |-> "write", q |-> q, copy |-> x, tries |-> tries, todo |-> T]
      OBVIOUS
    <2>3. wk' = [wk EXCEPT ![w] = c] /\ fresh' = fresh \cup {w}
      BY <1>1, <1>2, <2>1, <2>2 DEF Reads
    <2>4. Served(rec, q, x)
      BY <1>1, <1>2, ApplyServes
    <2>5. x \in Record /\ Sound(x) /\ (q.op = "emd" => Len(x.docs) \in DOMAIN x.docs)
      <3>1. x \in Record /\ Sound(x) /\ x.docs \in Seq(Document)
        BY <2>4 DEF Served, Sound, Record
      <3>2. rec.docs \in Seq(Document)
        BY DEF Sound, Record
      <3>3. Len(rec.docs) \in Nat /\ DOMAIN x.docs = 1..Len(x.docs)
        BY <3>1, <3>2
      <3> QED
        BY <2>4, <3>1, <3>3 DEF Served
    <2>6. T \in SUBSET (Kinds \X Nat \X Carriers) /\ (q = Expired => \A m \in T : m[1] = "cancel")
      BY <2>1, <2>5, TellsFacts
    <2>7. c \in Worker
      BY <2>2, <2>5, <2>6 DEF Worker, Pcs
    <2>8. Doing(w, c, rec)
      BY <2>2, <2>6, <2>7 DEF Doing
    <2>9. Current(c, rec)
      BY <1>1, <1>2, <2>1, <2>2 DEF Current
    <2> QED
      BY <2>3, <2>8, <2>9
  <1>3. CASE x = None /\ q.op # "control"
    <2>1. wk' = [wk EXCEPT ![w] = Idle] /\ fresh' = fresh \ {w}
      BY <1>1, <1>3 DEF Reads
    <2> QED
      BY <2>1, IdleDoing
  <1>4. CASE x = None /\ q.op = "control"
    <2>1. PICK T : T = Tells(rec, q, rec)
      OBVIOUS
    <2>2. PICK c : c = [Idle EXCEPT !.pc = "tell", !.q = q, !.todo = T]
      OBVIOUS
    <2>3. wk' = [wk EXCEPT ![w] = c] /\ fresh' = fresh \ {w}
      BY <1>1, <1>4, <2>1, <2>2 DEF Reads
    <2>4. T \in SUBSET (Kinds \X Nat \X Carriers) /\ \A m \in T : m[1] = "ticket" => m[2] \in DOMAIN rec.docs
      BY <1>4, <2>1, TellsFacts
    <2>5. c \in Worker /\ c.pc = "tell" /\ c.todo = T
      <3>1. c = [pc |-> "tell", q |-> q, copy |-> None, tries |-> 0, todo |-> T]
        BY <2>2 DEF Idle
      <3>2. 0 \in 0..(MaxAttempts - 1)
        BY TicketingAssumption
      <3> QED
        BY <2>4, <3>1, <3>2 DEF Worker, Pcs
    <2>6. w # Sweeper
      BY <1>4, RequestsFacts
    <2>7. Doing(w, c, rec)
      BY <2>4, <2>5, <2>6 DEF Doing
    <2> QED
      BY <2>3, <2>7
  <1> QED
    BY <1>2, <1>3, <1>4

(* A call begins. *)
LEMMA CallInv ==
    ASSUME IInv, NEW w \in Callers, NEW q \in Requests[w], Call(w, q)
    PROVE  IInv'
  <1>1. Request(q) /\ q \in AllRequests
    BY RequestsFacts
  <1>2. w \in Workers /\ w # Sweeper /\ 0 \in 0..(MaxAttempts - 1) /\ Sound(rec)
    BY TicketingAssumption DEF Workers, IInv
  <1>3. PICK c : /\ wk' = [wk EXCEPT ![w] = c] /\ Doing(w, c, rec)
                 /\ fresh' \subseteq fresh \cup {w} /\ (w \in fresh' => Current(c, rec))
    BY <1>1, <1>2, ReadsDoing DEF Call
  <1>4. /\ rec' = rec /\ items' \subseteq Codes /\ told' \subseteq (DOMAIN rec.docs) \X Carriers
        /\ clock' = clock /\ faults' \in 0..MaxFaults
    BY DEF Call, IInv
  <1>5. calls' \in 0..MaxCalls
    BY TicketingAssumption DEF Call, IInv
  <1> QED
    BY <1>2, <1>3, <1>4, <1>5, MoveInv, Zenon

(* A call reads again after a conflict, or the sweeper begins. *)
LEMMA ReadAgainInv ==
    ASSUME IInv, NEW w \in Workers, ReadAgain(w)
    PROVE  IInv'
  <1>1. PICK q, tries : q = wk[w].q /\ tries = wk[w].tries
    OBVIOUS
  <1>2. /\ Request(q) /\ (w = Sweeper => q = Expired) /\ tries \in 0..(MaxAttempts - 1)
        /\ q \in AllRequests \cup {Expired}
    BY <1>1, WorkerFacts DEF Doing, ReadAgain
  <1>4. Sound(rec) /\ Reads(w, q, tries)
    BY <1>1 DEF IInv, ReadAgain
  <1>5. PICK c : /\ wk' = [wk EXCEPT ![w] = c] /\ Doing(w, c, rec)
                 /\ fresh' \subseteq fresh \cup {w} /\ (w \in fresh' => Current(c, rec))
    BY <1>2, <1>4, ReadsDoing, Zenon
  <1>6. /\ rec' = rec /\ items' \subseteq Codes /\ told' \subseteq (DOMAIN rec.docs) \X Carriers
        /\ clock' = clock /\ faults' \in 0..MaxFaults /\ calls' \in 0..MaxCalls
    BY DEF ReadAgain, IInv
  <1> QED
    BY <1>5, <1>6, MoveInv, Zenon

(* A first attempt is one. *)
LEMMA Attempts == 0 \in 0..(MaxAttempts - 1)
  BY TicketingAssumption

(* A write that was not overtaken serves the call, and what it then tells  *)
(* is about documents of the record.                                       *)
LEMMA StoredDoing ==
    ASSUME NEW r, Sound(r), NEW w, NEW c, Doing(w, c, r), Current(c, r)
    PROVE  /\ Served(r, c.q, c.copy) /\ Doing(w, Stored(c), c.copy)
           /\ c.todo = {} \/ (Stored(c).pc \in {"work", "tell"} /\ Stored(c).todo = c.todo)
  <1>1. PICK q, x, T : q = c.q /\ x = c.copy /\ T = c.todo
    OBVIOUS
  <1>2. x = Apply(r, q) /\ x # None /\ T = Tells(r, q, x) /\ c.pc = "write"
    BY <1>1 DEF Current
  <1>3. Request(q) /\ (w = Sweeper => q = Expired) /\ c \in Worker
    BY <1>1, <1>2 DEF Doing
  <1>4. Served(r, q, x)
    BY <1>2, <1>3, ApplyServes
  <1>5. Sound(x) /\ (q.op = "emd" => Len(x.docs) \in DOMAIN x.docs)
    <2>1. Sound(x) /\ x.docs \in Seq(Document) /\ r.docs \in Seq(Document)
      BY <1>4 DEF Served, Sound, Record
    <2>2. Len(r.docs) \in Nat /\ DOMAIN x.docs = 1..Len(x.docs)
      BY <2>1
    <2> QED
      BY <1>4, <2>1, <2>2 DEF Served
  <1>6. /\ T \in SUBSET (Kinds \X Nat \X Carriers)
        /\ \A m \in T : m[1] = "ticket" => m[2] \in DOMAIN x.docs
        /\ w = Sweeper => \A m \in T : m[1] = "cancel"
    BY <1>2, <1>3, <1>5, TellsFacts
  <1>7. CASE T = {}
    <2>1. Stored(c) = Idle
      BY <1>1, <1>7 DEF Stored
    <2> QED
      BY <1>1, <1>4, <1>7, <2>1, IdleDoing
  <1>8. CASE T # {}
    <2>1. PICK pc : pc = IF c.q.op = "issue" THEN "work" ELSE "tell"
      OBVIOUS
    <2>2. PICK y : y = [c EXCEPT !.pc = pc, !.copy = None, !.tries = 0]
      OBVIOUS
    <2>3. Stored(c) = y
      BY <1>1, <1>8, <2>1, <2>2 DEF Stored
    <2>4. y \in Worker /\ y.pc = pc /\ y.todo = T
      BY <1>1, <1>3, <2>1, <2>2, Attempts DEF Worker, Pcs
    <2>5. Doing(w, y, x)
      BY <1>6, <2>1, <2>4 DEF Doing
    <2> QED
      BY <1>1, <1>4, <2>1, <2>3, <2>4, <2>5
  <1> QED
    BY <1>7, <1>8

(* The record is written. *)
LEMMA UpdatePNRInv ==
    ASSUME IInv, NEW w \in Workers, UpdatePNR(w)
    PROVE  IInv' /\ Served(rec, wk[w].q, rec')
  <1>1. PICK c : c = wk[w]
    OBVIOUS
  <1>2. Doing(w, c, rec) /\ Current(c, rec) /\ Sound(rec)
    BY <1>1, WorkerFacts DEF UpdatePNR, IInv
  <1>3. Served(rec, c.q, c.copy) /\ Doing(w, Stored(c), c.copy)
    BY <1>2, StoredDoing
  <1>4. rec' = c.copy /\ fresh' = {} /\ wk' = [wk EXCEPT ![w] = Stored(c)]
    BY <1>1 DEF UpdatePNR
  <1>5. DOMAIN rec.docs \subseteq DOMAIN rec'.docs /\ Sound(rec')
    <2>1. Sound(rec') /\ Len(rec.docs) <= Len(rec'.docs)
      BY <1>3, <1>4 DEF Served, Follows
    <2>2. rec.docs \in Seq(Document) /\ rec'.docs \in Seq(Document)
      BY <1>2, <2>1 DEF Sound, Record
    <2> QED
      BY <2>1, <2>2
  <1>6. Staff(wk, {}, rec')
    BY <1>5, RecordMoves DEF IInv
  <1>7. Staff([wk EXCEPT ![w] = Stored(c)], {}, rec')
    <2>1. Doing(w, Stored(c), rec') /\ {} \subseteq {} \cup {w} /\ w \notin {}
      BY <1>3, <1>4
    <2> QED
      BY <1>6, <2>1, WorkerMoves, Zenon
  <1>8. Staff(wk', fresh', rec')
    BY <1>4, <1>7
  <1>9. /\ items' \subseteq Codes /\ told' \subseteq (DOMAIN rec'.docs) \X Carriers
        /\ clock' \in {"early", "near", "past"} /\ calls' \in 0..MaxCalls /\ faults' \in 0..MaxFaults
    BY <1>5 DEF IInv, UpdatePNR
  <1> QED
    BY <1>1, <1>3, <1>4, <1>5, <1>8, <1>9 DEF IInv

(* A call whose write failed. *)
LEMMA UnwrittenDoing ==
    ASSUME NEW w, NEW c, NEW r, Doing(w, c, r), c.pc = "write"
    PROVE  Doing(w, Unwritten(c), r)
  <1>1. Request(c.q) /\ (w = Sweeper => c.q = Expired) /\ c \in Worker
    BY DEF Doing
  <1>2. CASE c.q.op # "control"
    BY <1>2, IdleDoing DEF Unwritten
  <1>3. CASE c.q.op = "control"
    <2>1. PICK T : T = {<<"refused", c.q.doc, c.q.from>>}
      OBVIOUS
    <2>2. PICK y : y = [c EXCEPT !.pc = "tell", !.copy = None, !.todo = T]
      OBVIOUS
    <2>3. Unwritten(c) = y
      BY <1>3, <2>1, <2>2 DEF Unwritten
    <2>4. T \in SUBSET (Kinds \X Nat \X Carriers) /\ \A m \in T : m[1] # "ticket"
      <3>1. c.q.doc \in Nat /\ c.q.from \in Carriers
        BY <1>1, <1>3 DEF Request
      <3> QED
        BY <2>1, <3>1 DEF Kinds
    <2>5. w # Sweeper
      BY <1>1, <1>3, RequestsFacts
    <2>6. y \in Worker /\ y.pc = "tell" /\ y.todo = T
      BY <1>1, <2>2, <2>4 DEF Worker, Pcs
    <2>7. Doing(w, y, r)
      BY <2>4, <2>5, <2>6 DEF Doing
    <2> QED
      BY <2>3, <2>7
  <1> QED
    BY <1>2, <1>3

(* The version is no longer the one that was read. *)
LEMMA ConflictInv ==
    ASSUME IInv, NEW w \in Workers, Conflict(w)
    PROVE  IInv'
  <1>1. PICK c : c = wk[w]
    OBVIOUS
  <1>2. Doing(w, c, rec) /\ c.pc = "write" /\ c \in Worker /\ w \notin fresh
    BY <1>1, WorkerFacts DEF Conflict
  <1>3. /\ rec' = rec /\ items' \subseteq Codes /\ told' \subseteq (DOMAIN rec.docs) \X Carriers
        /\ clock' = clock /\ faults' \in 0..MaxFaults /\ calls' \in 0..MaxCalls
        /\ fresh' \subseteq fresh \cup {w} /\ w \notin fresh'
    BY <1>2 DEF Conflict, IInv
  <1>4. CASE c.q.op \in {"control", "staple"} \/ c.tries = MaxAttempts - 1
    <2>1. wk' = [wk EXCEPT ![w] = Unwritten(c)]
      BY <1>1, <1>4 DEF Conflict, Overtaken
    <2> QED
      BY <1>2, <1>3, <2>1, UnwrittenDoing, MoveInv, Zenon
  <1>5. CASE ~(c.q.op \in {"control", "staple"} \/ c.tries = MaxAttempts - 1)
    <2>1. PICK n : n = c.tries + 1
      OBVIOUS
    <2>2. PICK y : y = [c EXCEPT !.tries = n, !.pc = "read", !.copy = None, !.todo = {}]
      OBVIOUS
    <2>3. wk' = [wk EXCEPT ![w] = y]
      BY <1>1, <1>5, <2>1, <2>2 DEF Conflict, Overtaken
    <2>4. n \in 0..(MaxAttempts - 1)
      BY <1>2, <1>5, <2>1, TicketingAssumption DEF Worker
    <2>5. y \in Worker /\ y.pc = "read" /\ y.todo = {} /\ y.q = c.q
      BY <1>2, <2>2, <2>4 DEF Worker, Pcs
    <2>6. Doing(w, y, rec)
      BY <1>2, <2>5 DEF Doing
    <2> QED
      BY <1>3, <2>3, <2>6, MoveInv, Zenon
  <1> QED
    BY <1>4, <1>5

(* The messages a goroutine has to send. *)
LEMMA MessageFacts ==
    ASSUME IInv, NEW w \in Workers, NEW m \in wk[w].todo
    PROVE  /\ m \in Kinds \X Nat \X Carriers /\ m[3] \in Carriers /\ m = <<m[1], m[2], m[3]>>
           /\ wk[w].pc \in {"work", "tell"} /\ m[1] = "ticket" => m[2] \in DOMAIN rec.docs
  <1>1. wk[w].todo \in SUBSET (Kinds \X Nat \X Carriers) /\ Doing(w, wk[w], rec)
    BY WorkerFacts
  <1> QED
    BY <1>1 DEF Doing

(* A goroutine that tells goes on telling, or has told all. *)
LEMMA TellingDoing ==
    ASSUME NEW w, NEW c, NEW r, Doing(w, c, r), c.pc \in {"work", "tell"}, NEW T, T \subseteq c.todo
    PROVE  Doing(w, [c EXCEPT !.pc = "tell"], r) /\ Doing(w, [c EXCEPT !.todo = T], r)
  <1>1. /\ c \in Worker /\ \A m \in c.todo : m[1] = "ticket" => m[2] \in DOMAIN r.docs
        /\ w = Sweeper => \A m \in c.todo : m[1] = "cancel"
    BY DEF Doing
  <1>2. c.todo \in SUBSET (Kinds \X Nat \X Carriers)
    BY <1>1 DEF Worker
  <1>3. PICK x, y : x = [c EXCEPT !.pc = "tell"] /\ y = [c EXCEPT !.todo = T]
    OBVIOUS
  <1>4. x \in Worker /\ x.pc = "tell" /\ x.todo = c.todo
    BY <1>1, <1>3 DEF Worker, Pcs
  <1>5. y \in Worker /\ y.pc = c.pc /\ y.todo = T
    BY <1>1, <1>2, <1>3 DEF Worker
  <1>6. Doing(w, x, r) /\ Doing(w, y, r)
    BY <1>1, <1>4, <1>5 DEF Doing
  <1> QED
    BY <1>3, <1>6

(* The store fails. *)
LEMMA StoreFailsInv ==
    ASSUME IInv, NEW w \in Workers, StoreFails(w)
    PROVE  IInv'
  <1>1. PICK c : c = wk[w]
    OBVIOUS
  <1>2. Doing(w, c, rec)
    BY <1>1, WorkerFacts
  <1>3. Doing(w, Failed(c), rec)
    <2>1. CASE c.pc = "write"
      BY <1>2, <2>1, UnwrittenDoing DEF Failed
    <2>2. CASE c.pc = "work"
      <3>1. Doing(w, [c EXCEPT !.pc = "tell"], rec)
        BY <1>2, <2>2, TellingDoing
      <3>2. Failed(c) = [c EXCEPT !.pc = "tell"]
        BY <2>2 DEF Failed
      <3> QED
        BY <3>1, <3>2
    <2>3. CASE c.pc \notin {"write", "work"}
      BY <2>3, IdleDoing DEF Failed
    <2> QED
      BY <2>1, <2>2, <2>3
  <1>4. wk' = [wk EXCEPT ![w] = Failed(c)]
    BY <1>1 DEF StoreFails
  <1>5. /\ rec' = rec /\ items' \subseteq Codes /\ told' \subseteq (DOMAIN rec.docs) \X Carriers
        /\ clock' = clock /\ calls' \in 0..MaxCalls
        /\ fresh' \subseteq fresh \cup {w} /\ w \notin fresh'
    BY DEF StoreFails, IInv
  <1>6. faults' \in 0..MaxFaults
    BY TicketingAssumption DEF StoreFails, IInv
  <1> QED
    BY <1>3, <1>4, <1>5, <1>6, MoveInv, Zenon

(* The queues are worked. *)
LEMMA WorkInv ==
    ASSUME IInv, NEW w \in Workers, WorkTicketingQueue(w)
    PROVE  IInv'
  <1>1. PICK c : c = wk[w]
    OBVIOUS
  <1>2. Doing(w, c, rec) /\ c.pc = "work" /\ w \notin fresh
    BY <1>1, WorkerFacts DEF WorkTicketingQueue, Current
  <1>3. Doing(w, [c EXCEPT !.pc = "tell"], rec)
    BY <1>2, TellingDoing
  <1>4. wk' = [wk EXCEPT ![w] = [c EXCEPT !.pc = "tell"]]
    BY <1>1 DEF WorkTicketingQueue
  <1>5. /\ rec' = rec /\ items' \subseteq Codes /\ told' \subseteq (DOMAIN rec.docs) \X Carriers
        /\ clock' = clock /\ calls' \in 0..MaxCalls /\ faults' \in 0..MaxFaults
        /\ fresh' \subseteq fresh \cup {w} /\ w \notin fresh'
    BY <1>2 DEF WorkTicketingQueue, IInv
  <1> QED
    BY <1>3, <1>4, <1>5, MoveInv, Zenon

(* A message is sent, or is not. *)
LEMMA SentInv ==
    ASSUME IInv, NEW w \in Workers, NEW m \in wk[w].todo,
           Tell(w, m) \/ TellFails(w, m) \/ TellLost(w, m)
    PROVE  IInv'
  <1>1. PICK c : c = wk[w]
    OBVIOUS
  <1>2. Doing(w, c, rec) /\ c.pc = "tell" /\ w \notin fresh
    BY <1>1, WorkerFacts DEF Tell, TellFails, TellLost, Current
  <1>3. Doing(w, Without(c, m), rec)
    <2>1. CASE c.todo = {m}
      BY <2>1, IdleDoing DEF Without
    <2>2. CASE c.todo # {m}
      <3>1. PICK T : T = c.todo \ {m}
        OBVIOUS
      <3>2. Without(c, m) = [c EXCEPT !.todo = T] /\ T \subseteq c.todo
        BY <2>2, <3>1 DEF Without
      <3>3. Doing(w, [c EXCEPT !.todo = T], rec)
        BY <1>2, <3>2, TellingDoing
      <3> QED
        BY <3>2, <3>3
    <2> QED
      BY <2>1, <2>2
  <1>4. wk' = [wk EXCEPT ![w] = Without(c, m)]
    BY <1>1 DEF Tell, TellFails, TellLost, Sent
  <1>5. m[3] \in Carriers /\ (m[1] = "ticket" => m[2] \in DOMAIN rec.docs)
    BY <1>1, <1>2, MessageFacts
  <1>6. /\ rec' = rec /\ clock' = clock /\ calls' \in 0..MaxCalls
        /\ fresh' \subseteq fresh \cup {w} /\ w \notin fresh'
    BY <1>2 DEF Tell, TellFails, TellLost, IInv
  <1>7. told' \subseteq (DOMAIN rec.docs) \X Carriers
    BY <1>5 DEF Tell, TellFails, TellLost, IInv
  <1>8. items' \subseteq Codes
    <2>1. <<"ticket_not_advised", m[3]>> \in Codes /\ <<"cancel_not_sent", m[3]>> \in Codes /\ items \subseteq Codes
      BY <1>5 DEF Codes, IInv
    <2>2. CASE TellFails(w, m)
      BY <2>1, <2>2 DEF TellFails, Place
    <2>3. CASE Tell(w, m) \/ TellLost(w, m)
      BY <2>1, <2>3 DEF Tell, TellLost
    <2> QED
      BY <2>2, <2>3
  <1>9. faults' \in 0..MaxFaults
    BY TicketingAssumption DEF Tell, TellFails, TellLost, IInv
  <1> QED
    BY <1>3, <1>4, <1>6, <1>7, <1>8, <1>9, MoveInv, Zenon

(* The sweeper lists a record. *)
LEMMA SweepListInv ==
    ASSUME IInv, NEW old \in BOOLEAN, SweepList(old)
    PROVE  IInv'
  <1>1. PICK q : q = [op |-> "sweep", now |-> clock, old |-> old]
    OBVIOUS
  <1>2. PICK c : c = [Idle EXCEPT !.pc = "place", !.copy = rec, !.q = q]
    OBVIOUS
  <1>3. wk' = [wk EXCEPT ![Sweeper] = c]
    BY <1>1, <1>2 DEF SweepList
  <1>4. q \in Sweeps /\ Sound(rec) /\ rec \in Record /\ Sweeper \in Workers
    BY <1>1 DEF Sweeps, IInv, Sound, Workers
  <1>5. c = [pc |-> "place", q |-> q, copy |-> rec, tries |-> 0, todo |-> {}]
    BY <1>2 DEF Idle
  <1>6. c \in Worker
    BY <1>4, <1>5, Attempts DEF Worker, Pcs
  <1>7. Doing(Sweeper, c, rec)
    BY <1>4, <1>5, <1>6 DEF Doing
  <1>8. Sweeper \notin fresh
    BY <1>4, WorkerFacts DEF SweepList, Current
  <1>9. /\ rec' = rec /\ items' \subseteq Codes /\ told' \subseteq (DOMAIN rec.docs) \X Carriers
        /\ clock' = clock /\ calls' \in 0..MaxCalls /\ faults' \in 0..MaxFaults
        /\ fresh' \subseteq fresh \cup {Sweeper} /\ Sweeper \notin fresh'
    BY <1>8 DEF SweepList, IInv
  <1> QED
    BY <1>3, <1>4, <1>7, <1>9, MoveInv, Zenon

(* The sweeper looks at the record it listed. *)
LEMMA SweepRecordInv ==
    ASSUME IInv, SweepRecord
    PROVE  IInv'
  <1>1. PICK s : s = wk[Sweeper]
    OBVIOUS
  <1>2. PICK c \in {Idle, [Idle EXCEPT !.pc = "read", !.q = Expired]} : wk' = [wk EXCEPT ![Sweeper] = c]
    BY DEF SweepRecord
  <1>3. Sweeper \in Workers
    BY DEF Workers
  <1>4. Doing(Sweeper, s, rec) /\ s.pc = "place" /\ Sweeper \notin fresh
    BY <1>1, <1>3, WorkerFacts DEF SweepRecord, Current
  <1>5. Doing(Sweeper, c, rec)
    <2>1. CASE c = Idle
      BY <2>1, IdleDoing
    <2>2. CASE c = [Idle EXCEPT !.pc = "read", !.q = Expired]
      <3>1. c = [pc |-> "read", q |-> Expired, copy |-> None, tries |-> 0, todo |-> {}]
        BY <2>2 DEF Idle
      <3>2. c \in Worker
        BY <3>1, Attempts DEF Worker, Pcs
      <3> QED
        BY <3>1, <3>2, RequestsFacts DEF Doing
    <2> QED
      BY <2>1, <2>2
  <1>6. items' \subseteq Codes
    <2>1. Unanswered(s.copy) \subseteq DOMAIN Operator
      BY <1>4, SegmentsOperated DEF Doing, Unanswered
    <2>2. LimitCode(s.copy, s.q.now) \subseteq Codes
      BY DEF LimitCode, Codes
    <2>3. {<<"unanswered", x>> : x \in Unanswered(s.copy)} \subseteq Codes
      BY <2>1 DEF Codes
    <2>4. items \subseteq Codes
      BY DEF IInv
    <2> QED
      BY <1>1, <2>2, <2>3, <2>4 DEF SweepRecord, Place
  <1>7. /\ rec' = rec /\ told' \subseteq (DOMAIN rec.docs) \X Carriers
        /\ clock' = clock /\ calls' \in 0..MaxCalls /\ faults' \in 0..MaxFaults
        /\ fresh' \subseteq fresh \cup {Sweeper} /\ Sweeper \notin fresh'
    BY <1>4 DEF SweepRecord, IInv
  <1> QED
    BY <1>2, <1>3, <1>5, <1>6, <1>7, MoveInv, Zenon

(* A partner answers. *)
LEMMA PartnerInv ==
    ASSUME IInv, NEW s, PartnerReplies(s)
    PROVE  IInv' /\ rec'.docs = rec.docs /\ DOMAIN rec'.segs = DOMAIN rec.segs
  <1>1. Sound(rec) /\ rec \in Record /\ rec.segs \in Seq({"HN", "HK", "XX"})
    BY DEF IInv, Sound, Record
  <1>2. PICK ss : ss = [rec.segs EXCEPT ![s] = "HK"]
    OBVIOUS
  <1>3. ss \in Seq({"HN", "HK", "XX"}) /\ DOMAIN ss = DOMAIN rec.segs
    <2>1. s \in DOMAIN rec.segs
      BY DEF PartnerReplies, Unanswered
    <2> QED
      BY <1>1, <1>2, <2>1
  <1>4. rec' = [rec EXCEPT !.segs = ss]
    BY <1>2 DEF PartnerReplies
  <1>5. rec' \in Record /\ rec'.docs = rec.docs /\ rec'.segs = ss
    BY <1>1, <1>3, <1>4 DEF Record
  <1>6. Sound(rec')
    <2>1. PICK x : x = rec'
      OBVIOUS
    <2>2. Kept(rec, x)
      BY <1>1, <1>3, <1>5, <2>1, SegsKept
    <2> QED
      BY <2>1, <2>2 DEF Kept
  <1>7. Staff(wk', fresh', rec')
    <2>1. PICK x : x = rec'
      OBVIOUS
    <2>2. Staff(wk, {}, x)
      BY <1>5, <2>1, RecordMoves DEF IInv
    <2> QED
      BY <2>1, <2>2 DEF PartnerReplies
  <1>8. /\ items' \subseteq Codes /\ told' \subseteq (DOMAIN rec'.docs) \X Carriers
        /\ clock' \in {"early", "near", "past"} /\ calls' \in 0..MaxCalls /\ faults' \in 0..MaxFaults
    BY <1>5 DEF IInv, PartnerReplies
  <1> QED
    BY <1>3, <1>5, <1>6, <1>7, <1>8 DEF IInv

(* The carriers, the clock, and a process that dies. *)
LEMMA SurroundingsInv ==
    ASSUME IInv, (\E x \in told : CarrierRefuses(x[1], x[2])) \/ Tick \/ Crash \/ UNCHANGED vars
    PROVE  IInv'
  <1>1. CASE UNCHANGED vars
    BY <1>1 DEF IInv, vars
  <1>2. CASE Tick
    BY <1>2 DEF IInv, Tick
  <1>3. CASE Crash
    <2>1. PICK k : k = [w \in Workers |-> Idle]
      OBVIOUS
    <2>2. Staff(k, {}, rec)
      BY <2>1, IdleDoing DEF Staff, Doing
    <2>3. Staff(wk', fresh', rec')
      BY <1>3, <2>1, <2>2 DEF Crash
    <2>4. faults' \in 0..MaxFaults
      BY <1>3, TicketingAssumption DEF IInv, Crash
    <2> QED
      BY <1>3, <2>3, <2>4 DEF IInv, Crash
  <1>4. CASE \E x \in told : CarrierRefuses(x[1], x[2])
    <2>1. PICK x \in told : CarrierRefuses(x[1], x[2])
      BY <1>4
    <2>2. x[2] \in Carriers
      BY DEF IInv
    <2>3. items' \subseteq Codes
      BY <2>1, <2>2 DEF IInv, CarrierRefuses, Place, Codes
    <2> QED
      BY <2>1, <2>3 DEF IInv, CarrierRefuses
  <1> QED
    BY <1>1, <1>2, <1>3, <1>4

(* The bookings a run begins with are sound. *)
LEMMA BookingSound ==
    /\ Sound(Booking) /\ Booking.docs = <<>> /\ Booking.segs = [s \in 1..Booked |-> "HK"]
    /\ MayIssue(Booking)
  <1>1. PICK ss : ss = [s \in 1..Booked |-> "HK"]
    OBVIOUS
  <1>2. Booked \in Nat \ {0} /\ Booked <= Len(Operator) /\ Booked <= MaxCoupons * MaxConjunction
        /\ MaxCoupons \in Nat /\ MaxConjunction \in Nat /\ Len(Operator) \in Nat
    BY TicketingAssumption
  <1>3. ss \in Seq({"HN", "HK", "XX"}) /\ Len(ss) = Booked /\ DOMAIN ss = 1..Booked
    BY <1>1, <1>2
  <1>4. Booking = [segs |-> ss, status |-> "open", limit |-> TRUE, docs |-> <<>>]
    BY <1>1 DEF Booking
  <1>5. Booking \in Record /\ Booking.segs = ss /\ Booking.docs = <<>> /\ Booking.status = "open"
    BY <1>3, <1>4 DEF Record
  <1>6. Sound(Booking)
    BY <1>2, <1>3, <1>5 DEF Sound, Itinerary, OneSet
  <1>7. Live(Booking) = 1..Booked
    BY <1>1, <1>3, <1>5 DEF Live
  <1>8. ~TooLong(Booking) /\ Live(Booking) # {}
    <2>1. Cardinality(1..Booked) = Booked
      BY <1>2, FS_Interval
    <2>2. MaxCoupons * MaxConjunction \in Nat
      BY <1>2
    <2> QED
      BY <1>2, <1>7, <2>1, <2>2 DEF TooLong
  <1>9. ~Ticketed(Booking) /\ \A p \in 1..Passengers : ~TicketFor(Booking, p)
    BY <1>5 DEF Ticketed, TicketFor
  <1>10. 1 \in 1..Passengers
    BY TicketingAssumption
  <1> QED
    BY <1>1, <1>5, <1>6, <1>8, <1>9, <1>10 DEF MayIssue

(* Nobody does anything at first. *)
LEMMA IdleStaff ==
    ASSUME NEW r
    PROVE  Staff([w \in Workers |-> Idle], {}, r)
  BY IdleDoing DEF Staff, Doing

(* Initial records: sound, and of type A is only what was bought over a    *)
(* segment of the record.                                                  *)
LEMMA InitRecords ==
    ASSUME NEW r \in {Booking, IssueTickets(Booking), IssueEMD(IssueTickets(Booking), Bought)} \ {None}
    PROVE  /\ Sound(r)
           /\ \A d \in DOMAIN r.docs : r.docs[d].type = "A" => Covered(r, d) # {}
           /\ \A d \in DOMAIN r.docs : r.docs[d].type # "S"
  <1>1. PICK y : y = IssueTickets(Booking)
    OBVIOUS
  <1>2. Sound(Booking) /\ Kept(Booking, y) /\ NewFlights(Booking, y) /\ DOMAIN Booking.docs = {}
    BY <1>1, BookingSound, IssueTicketsSound
  <1>3. Sound(y) /\ \A d \in DOMAIN y.docs : y.docs[d].type = "T"
    BY <1>2 DEF Kept, NewFlights
  <1>4. CASE r = Booking
    BY <1>2, <1>4
  <1>5. CASE r = y
    BY <1>3, <1>5
  <1>6. CASE r = IssueEMD(y, Bought) /\ r # None
    <2>1. Request(Bought) /\ Bought.op = "emd" /\ Bought.type = "A" /\ Bought.seg = 1
      BY TicketingAssumption DEF Request, Bought
    <2>2. /\ Kept(y, r) /\ r.segs = y.segs /\ Len(r.docs) = Len(y.docs) + 1
          /\ r.docs[Len(y.docs) + 1].type = "A"
          /\ Segs(r.docs[Len(y.docs) + 1]) = {1} /\ 1 \in DOMAIN y.segs
      BY <1>3, <1>6, <2>1, IssueEMDKept
    <2>3. Sound(r) /\ Follows(y, r)
      BY <2>2 DEF Kept
    <2>4. r.docs \in Seq(Document) /\ y.docs \in Seq(Document)
      BY <1>3, <2>3 DEF Sound, Record
    <2>5. ASSUME NEW d \in DOMAIN r.docs
          PROVE  d \in DOMAIN y.docs \/ d = Len(y.docs) + 1
      BY <2>2, <2>4
    <2>6. ASSUME NEW d \in DOMAIN y.docs PROVE r.docs[d].type = "T"
      BY <1>3, <2>3 DEF Follows, SameShape
    <2>7. 1 \in Covered(r, Len(y.docs) + 1)
      BY <2>2 DEF Covered, Segs
    <2> QED
      BY <2>2, <2>3, <2>5, <2>6, <2>7
  <1> QED
    BY <1>1, <1>4, <1>5, <1>6

(* Whom a run begins with having told. *)
LEMMA InitTold ==
    ASSUME NEW r, Sound(r)
    PROVE  /\ {<<m[2], m[3]>> : m \in Tickets(r, DOMAIN r.docs)} \subseteq (DOMAIN r.docs) \X Carriers
           /\ \A d \in DOMAIN r.docs : \A s \in Covered(r, d) :
                 <<d, Operator[s]>> \in {<<m[2], m[3]>> : m \in Tickets(r, DOMAIN r.docs)}
  <1>1. PICK M : M = Tickets(r, DOMAIN r.docs)
    OBVIOUS
  <1>2. /\ M \in SUBSET (Kinds \X Nat \X Carriers) /\ \A m \in M : m[2] \in DOMAIN r.docs
        /\ \A d \in DOMAIN r.docs : \A s \in Covered(r, d) : <<"ticket", d, Operator[s]>> \in M
    BY <1>1, TicketsFacts
  <1>3. {<<m[2], m[3]>> : m \in M} \subseteq (DOMAIN r.docs) \X Carriers
    BY <1>2
  <1>4. ASSUME NEW d \in DOMAIN r.docs, NEW s \in Covered(r, d)
        PROVE  <<d, Operator[s]>> \in {<<m[2], m[3]>> : m \in M}
    <2>1. PICK m : m = <<"ticket", d, Operator[s]>>
      OBVIOUS
    <2>2. m \in M /\ <<m[2], m[3]>> = <<d, Operator[s]>>
      BY <1>2, <2>1
    <2> QED
      BY <2>2
  <1> QED
    BY <1>1, <1>3, <1>4

(* The invariant holds initially. *)
LEMMA InitInv == Init => IInv
  <1> SUFFICES ASSUME Init PROVE IInv
    OBVIOUS
  <1>1. Sound(rec)
    BY InitRecords DEF Init
  <1>2. told \subseteq (DOMAIN rec.docs) \X Carriers
    BY <1>1, InitTold DEF Init
  <1>3. Staff(wk, fresh, rec)
    BY IdleStaff DEF Init
  <1> QED
    BY <1>1, <1>2, <1>3, TicketingAssumption DEF Init, IInv

(* Every step keeps it. *)
LEMMA NextInv == IInv /\ [Next]_vars => IInv'
  <1> SUFFICES ASSUME IInv, [Next]_vars PROVE IInv'
    OBVIOUS
  <1>1. CASE \E w \in Callers : \E q \in Requests[w] : Call(w, q)
    BY <1>1, CallInv
  <1>2. ASSUME NEW w \in Workers, Step(w) PROVE IInv'
    BY <1>2, ReadAgainInv, UpdatePNRInv, ConflictInv, WorkInv, SentInv DEF Step
  <1>3. ASSUME NEW w \in Workers, Fails(w) PROVE IInv'
    BY <1>3, StoreFailsInv, SentInv DEF Fails
  <1>4. CASE Sweep
    BY <1>4, SweepListInv, SweepRecordInv DEF Sweep
  <1>5. CASE \E s \in DOMAIN Operator : PartnerReplies(s)
    BY <1>5, PartnerInv
  <1>6. CASE (\E x \in told : CarrierRefuses(x[1], x[2])) \/ Tick \/ Crash \/ UNCHANGED vars
    BY <1>6, SurroundingsInv
  <1> QED
    BY <1>1, <1>2, <1>3, <1>4, <1>5, <1>6 DEF Next

-----------------------------------------------------------------------------
(* The theorems. *)

(* In every sound record a passenger has at most one usable coupon over a  *)
(* segment, exchanges apart.                                               *)
LEMMA SoundOneLive == IInv => OneLiveCoupon
  <1> SUFFICES ASSUME IInv, NEW d \in DOMAIN rec.docs, NEW e \in DOMAIN rec.docs, NEW s \in DOMAIN rec.segs,
                      IsFlight(rec.docs[d]), IsFlight(rec.docs[e]), rec.docs[d].pax = rec.docs[e].pax,
                      rec.docs[d].from = 0, rec.docs[e].from = 0,
                      Covers(rec.docs[d], s), Covers(rec.docs[e], s), d # e
               PROVE  FALSE
    BY DEF OneLiveCoupon
  <1>1. s \in Segs(rec.docs[d]) /\ s \in Segs(rec.docs[e])
    BY DEF Covers, Segs
  <1>2. OneSet(rec.docs)
    BY DEF IInv, Sound
  <1>3. Segs(rec.docs[d]) \cap Segs(rec.docs[e]) = {}
    BY <1>2 DEF OneSet, IsFlight
  <1> QED
    BY <1>1, <1>3

(* However many agents issue, exchange, refund and retry at once, and      *)
(* whatever fails, a passenger never holds two usable coupons over one     *)
(* segment on documents not issued in exchange (IssueTickets).             *)
THEOREM OneLiveCouponAlways == Spec => []OneLiveCoupon
  <1>1. Init => IInv
    BY InitInv
  <1>2. IInv /\ [Next]_vars => IInv'
    BY NextInv
  <1>3. IInv => OneLiveCoupon
    BY SoundOneLive
  <1> QED
    BY <1>1, <1>2, <1>3, PTL DEF Spec

(* The variables keep their types, no call ever runs on a request nobody   *)
(* made, and carriers are only told of documents that are on the record.   *)
THEOREM TypeCorrect == Spec => []TypeOK
  <1>1. Init => IInv
    BY InitInv
  <1>2. IInv /\ [Next]_vars => IInv'
    BY NextInv
  <1>3. IInv => TypeOK
    <2> SUFFICES ASSUME IInv PROVE TypeOK
      OBVIOUS
    <2>1. rec \in Record /\ rec.docs \in Seq(Document)
      BY DEF IInv, Sound, Record
    <2>2. told \subseteq (1..Len(rec.docs)) \X Carriers
      BY <2>1 DEF IInv
    <2>3. ASSUME NEW w \in Workers
          PROVE  /\ wk[w].pc \in Pcs /\ wk[w].q \in AllRequests \cup {None, Expired} \cup Sweeps
                 /\ wk[w].copy = None \/ wk[w].copy \in Record
                 /\ wk[w].tries \in 0..(MaxAttempts - 1)
                 /\ \A m \in wk[w].todo : m \in Kinds \X Nat \X Carriers
      <3>1. wk[w] \in Worker
        BY WorkerFacts
      <3> QED
        BY <3>1 DEF Worker
    <2> QED
      BY <2>1, <2>2, <2>3 DEF TypeOK, IInv, Staff
  <1> QED
    BY <1>1, <1>2, <1>3, PTL DEF Spec

(* Whatever a step makes of the record, value coupons end with the flight  *)
(* coupons they are stapled to.                                            *)
LEMMA StepLifts ==
    ASSUME IInv, [Next]_vars
    PROVE  rec'.docs = rec.docs \/ Lifted(rec, rec')
  <1>1. ASSUME NEW w \in Workers, UpdatePNR(w) PROVE Lifted(rec, rec')
    BY <1>1, UpdatePNRInv DEF Served
  <1>2. ASSUME NEW s, PartnerReplies(s) PROVE rec'.docs = rec.docs
    BY <1>2, PartnerInv
  <1>3. ASSUME NEW w \in Workers, Step(w) PROVE rec'.docs = rec.docs \/ Lifted(rec, rec')
    BY <1>1, <1>3 DEF Step, ReadAgain, Conflict, WorkTicketingQueue, Tell, TellFails
  <1>4. ASSUME NEW w \in Workers, Fails(w) PROVE rec' = rec
    BY <1>4 DEF Fails, StoreFails, TellLost
  <1>5. CASE \E w \in Callers : \E q \in Requests[w] : Call(w, q)
    BY <1>5 DEF Call
  <1>6. CASE Sweep
    BY <1>6 DEF Sweep, SweepList, SweepRecord
  <1>7. CASE Tick \/ Crash \/ (\E x \in told : CarrierRefuses(x[1], x[2])) \/ UNCHANGED vars
    BY <1>7 DEF Tick, Crash, CarrierRefuses, vars
  <1> QED
    BY <1>2, <1>3, <1>4, <1>5, <1>6, <1>7 DEF Next

(* When a flight coupon becomes flown in the store, nothing stapled to it  *)
(* is left open, though others staple, issue and retry at the same time    *)
(* (applyCouponChanges, liftAssociated, UpdatePNR).                        *)
THEOREM LiftedAlways == Spec => LiftedWithFlight
  <1> DEFINE Lifts == \A d \in DOMAIN rec.docs : \A n \in DOMAIN rec.docs[d].coupons :
                IsFlight(rec.docs[d]) /\ ~Final(StatusOf(rec, d, n)) /\ StatusOf(rec', d, n) = "F"
                  => \A e \in DOMAIN rec'.docs : \A m \in DOMAIN rec'.docs[e].coupons :
                       rec'.docs[e].coupons[m].assoc = <<d, n>> => Final(StatusOf(rec', e, m))
  <1>1. Init => IInv
    BY InitInv
  <1>2. IInv /\ [Next]_vars => IInv'
    BY NextInv
  <1>3. IInv /\ [Next]_vars => [Lifts]_vars
    <2> SUFFICES ASSUME IInv, [Next]_vars PROVE Lifts
      OBVIOUS
    <2>1. CASE rec'.docs = rec.docs
      BY <2>1 DEF StatusOf, Final
    <2>2. CASE Lifted(rec, rec')
      BY <2>2 DEF Lifted, Ended, StatusOf, IsFlight
    <2> QED
      BY <2>1, <2>2, StepLifts
  <1>4. LiftedWithFlight <=> [][Lifts]_vars
    BY DEF LiftedWithFlight
  <1> HIDE DEF Lifts
  <1> QED
    BY <1>1, <1>2, <1>3, <1>4, PTL DEF Spec

-----------------------------------------------------------------------------
(* Carriers hear of documents. *)

Knows(d, c, tl, it) == <<d, c>> \in tl \/ <<"ticket_not_advised", c>> \in it

(* The carrier was told, a divergence was raised, or somebody will. *)
Heard(d, c, k, tl, it) ==
    \/ Knows(d, c, tl, it)
    \/ \E w \in Workers : k[w].pc \in {"work", "tell"} /\ <<"ticket", d, c>> \in k[w].todo

Advised(r, k, tl, it) ==
    \A d \in DOMAIN r.docs :
        IF r.docs[d].type = "A" THEN \E c \in Carriers : Heard(d, c, k, tl, it)
        ELSE \A s \in Covered(r, d) : Heard(d, Operator[s], k, tl, it)

(* Standalone documents are over no segment that is yet to be added. *)
Settled(r) == \A d \in DOMAIN r.docs : r.docs[d].type = "S" => Segs(r.docs[d]) \subseteq 0..Booked

AInv == IInv /\ Settled(rec) /\ (faults = 0 => Advised(rec, wk, told, items))

(* A goroutine goes on, and forgets no document it has yet to tell of.     *)
LEMMA HeardMoves ==
    ASSUME NEW k, k \in [Workers -> Worker], NEW w, w \in Workers, NEW c, NEW tl, NEW tl1, tl \subseteq tl1,
           NEW it, NEW it1,
           \A x \in Carriers : <<"ticket_not_advised", x>> \in it => <<"ticket_not_advised", x>> \in it1,
           \A d : \A x \in Carriers : k[w].pc \in {"work", "tell"} /\ <<"ticket", d, x>> \in k[w].todo =>
               \/ c.pc \in {"work", "tell"} /\ <<"ticket", d, x>> \in c.todo
               \/ Knows(d, x, tl1, it1)
    PROVE  \A d : \A x \in Carriers : Heard(d, x, k, tl, it) => Heard(d, x, [k EXCEPT ![w] = c], tl1, it1)
  <1>1. PICK k1 : k1 = [k EXCEPT ![w] = c]
    OBVIOUS
  <1>2. k1[w] = c /\ \A v \in Workers : v # w => k1[v] = k[v]
    BY <1>1
  <1>3. ASSUME NEW d, NEW x \in Carriers, Heard(d, x, k, tl, it)
        PROVE  Heard(d, x, k1, tl1, it1)
    <2>1. CASE Knows(d, x, tl, it)
      BY <2>1 DEF Knows, Heard
    <2>2. CASE \E v \in Workers : k[v].pc \in {"work", "tell"} /\ <<"ticket", d, x>> \in k[v].todo
      <3>1. PICK v \in Workers : k[v].pc \in {"work", "tell"} /\ <<"ticket", d, x>> \in k[v].todo
        BY <2>2
      <3>2. CASE v = w
        BY <1>2, <3>1, <3>2 DEF Heard
      <3>3. CASE v # w
        BY <1>2, <3>1, <3>3 DEF Heard
      <3> QED
        BY <3>2, <3>3
    <2> QED
      BY <1>3, <2>1, <2>2 DEF Heard
  <1> QED
    BY <1>1, <1>3

(* What was heard stays heard, so the carriers stay advised. *)
LEMMA AdvisedKept ==
    ASSUME NEW r, Sound(r), NEW k, NEW tl, NEW it, Advised(r, k, tl, it), NEW k1, NEW tl1, NEW it1,
           \A d : \A x \in Carriers : Heard(d, x, k, tl, it) => Heard(d, x, k1, tl1, it1)
    PROVE  Advised(r, k1, tl1, it1)
  <1>1. \A d : \A s \in Covered(r, d) : Operator[s] \in Carriers
    BY SegmentsOperated DEF Covered
  <1> QED
    BY <1>1 DEF Advised

(* The same for a step that leaves the record and does not fail. *)
LEMMA MoveAdvised ==
    ASSUME AInv, NEW w, w \in Workers, NEW c, wk' = [wk EXCEPT ![w] = c], rec' = rec, faults' = faults,
           told \subseteq told',
           \A x \in Carriers : <<"ticket_not_advised", x>> \in items => <<"ticket_not_advised", x>> \in items',
           \A d : \A x \in Carriers : wk[w].pc \in {"work", "tell"} /\ <<"ticket", d, x>> \in wk[w].todo =>
               \/ c.pc \in {"work", "tell"} /\ <<"ticket", d, x>> \in c.todo
               \/ Knows(d, x, told', items')
    PROVE  Settled(rec') /\ (faults' = 0 => Advised(rec', wk', told', items'))
  <1>1. wk \in [Workers -> Worker] /\ Sound(rec)
    BY DEF AInv, IInv, Staff
  <1>2. \A d : \A x \in Carriers :
            Heard(d, x, wk, told, items) => Heard(d, x, [wk EXCEPT ![w] = c], told', items')
    BY <1>1, HeardMoves, Zenon
  <1>3. \A d : \A x \in Carriers : Heard(d, x, wk, told, items) => Heard(d, x, wk', told', items')
    BY <1>2
  <1>4. Advised(rec, wk, told, items) => Advised(rec, wk', told', items')
    BY <1>1, <1>3, AdvisedKept, Zenon
  <1> QED
    BY <1>4 DEF AInv

(* A goroutine that had nothing to tell. *)
LEMMA QuietAdvised ==
    ASSUME AInv, NEW w, w \in Workers, wk[w].pc \notin {"work", "tell"},
           NEW c, wk' = [wk EXCEPT ![w] = c], rec' = rec, faults' = faults,
           told' = told, items \subseteq items'
    PROVE  Settled(rec') /\ (faults' = 0 => Advised(rec', wk', told', items'))
  BY MoveAdvised

(* A document that was there is over no other segments of the record. *)
LEMMA CoveredFollows ==
    ASSUME NEW r, Sound(r), Settled(r), NEW x, Sound(x), Follows(r, x),
           NEW d, d \in DOMAIN r.docs, r.docs[d].type # "A"
    PROVE  Covered(x, d) \subseteq Covered(r, d)
  <1>1. SameShape(r.docs[d], x.docs[d]) /\ Placed(r.docs[d], DOMAIN r.segs)
    BY DEF Follows, Sound
  <1>2. Segs(x.docs[d]) = Segs(r.docs[d])
    BY <1>1 DEF SameShape, Segs
  <1>3. Covered(x, d) = Segs(x.docs[d]) \cap DOMAIN x.segs /\ Covered(r, d) = Segs(r.docs[d]) \cap DOMAIN r.segs
    BY DEF Covered, Segs
  <1>4. CASE r.docs[d].type = "T"
    BY <1>1, <1>2, <1>3, <1>4 DEF Placed
  <1>5. CASE r.docs[d].type = "S"
    <2>1. Segs(r.docs[d]) \subseteq 0..Booked
      BY <1>5 DEF Settled
    <2>2. x.segs \in Seq({"HN", "HK", "XX"})
      BY DEF Sound, Record
    <2>3. Booked \in Nat /\ DOMAIN x.segs \subseteq Nat \ {0}
      BY <2>2, TicketingAssumption
    <2>4. 1..Booked \subseteq DOMAIN r.segs
      BY SegmentsOperated
    <2> QED
      BY <1>2, <1>3, <2>1, <2>3, <2>4
  <1>6. r.docs[d].type \in {"T", "A", "S"}
    <2>1. r.docs \in Seq(Document)
      BY DEF Sound, Record
    <2>2. r.docs[d] \in Document
      BY <2>1
    <2> QED
      BY <2>2 DEF Document
  <1> QED
    BY <1>4, <1>5, <1>6

(* The documents a call adds. *)
LEMMA NewDocument ==
    ASSUME NEW r, Sound(r), NEW q, NEW x, Served(r, q, x), NEW d, d \in DOMAIN x.docs, d \notin DOMAIN r.docs
    PROVE  \/ q.op \in {"issue", "exchange"} /\ x.docs[d].type = "T"
           \/ /\ q.op = "emd" /\ d = Len(x.docs) /\ x.docs[d].type = q.type
              /\ Segs(x.docs[d]) = {q.seg} /\ (q.type = "A" => q.seg \in DOMAIN x.segs)
  <1>1. r.docs \in Seq(Document) /\ x.docs \in Seq(Document)
    BY DEF Served, Sound, Record
  <1>2. CASE q.op \in {"issue", "exchange"}
    BY <1>2 DEF Served, NewFlights
  <1>3. CASE q.op = "emd"
    <2>1. Len(x.docs) = Len(r.docs) + 1
      BY <1>3 DEF Served
    <2>2. d = Len(x.docs)
      BY <1>1, <2>1
    <2> QED
      BY <1>3, <2>2 DEF Served
  <1>4. CASE q.op \notin {"issue", "exchange", "emd"}
    BY <1>4 DEF Served
  <1> QED
    BY <1>2, <1>3, <1>4

(* The carriers of what a call adds are among those it tells. *)
LEMMA NewTold ==
    ASSUME NEW r, Sound(r), NEW q, NEW x, Served(r, q, x), NEW d, d \in DOMAIN x.docs, d \notin DOMAIN r.docs
    PROVE  /\ x.docs[d].type = "A" => \E c \in Carriers : <<"ticket", d, c>> \in Tells(r, q, x)
           /\ \A s \in Covered(x, d) : <<"ticket", d, Operator[s]>> \in Tells(r, q, x)
  <1>1. Sound(x)
    BY DEF Served
  <1>2. PICK ds : ds = IF q.op = "emd" THEN {Len(x.docs)} ELSE DOMAIN x.docs
    OBVIOUS
  <1>3. d \in ds /\ ds \subseteq DOMAIN x.docs /\ Tells(r, q, x) = Tickets(x, ds)
    <2>1. CASE q.op \in {"issue", "exchange"}
      BY <1>2, <2>1 DEF Tells
    <2>2. CASE q.op = "emd"
      <3>1. d = Len(x.docs)
        BY <2>2, NewDocument
      <3> QED
        BY <1>2, <2>2, <3>1 DEF Tells
    <2> QED
      BY <2>1, <2>2, NewDocument
  <1>4. \A s \in Covered(x, d) : <<"ticket", d, Operator[s]>> \in Tells(r, q, x)
    BY <1>1, <1>3, TicketsFacts
  <1>5. ASSUME x.docs[d].type = "A" PROVE \E c \in Carriers : <<"ticket", d, c>> \in Tells(r, q, x)
    <2>1. Segs(x.docs[d]) = {q.seg} /\ q.seg \in DOMAIN x.segs
      BY <1>5, NewDocument
    <2>2. q.seg \in Covered(x, d)
      BY <2>1 DEF Covered, Segs
    <2>3. Operator[q.seg] \in Carriers
      BY <1>1, <2>1, SegmentsOperated
    <2> QED
      BY <1>4, <2>2, <2>3
  <1> QED
    BY <1>4, <1>5

(* A call writes the record: the documents there were stay heard of, those *)
(* it adds are on its list.                                                *)
LEMMA UpdateAdvised ==
    ASSUME StandaloneBooked, AInv, NEW w, w \in Workers, UpdatePNR(w)
    PROVE  Settled(rec') /\ (faults' = 0 => Advised(rec', wk', told', items'))
  <1>1. PICK c, q, x, k1 : c = wk[w] /\ q = c.q /\ x = c.copy /\ k1 = wk'
    OBVIOUS
  <1>2. IInv /\ Sound(rec) /\ wk \in [Workers -> Worker] /\ Settled(rec)
    BY DEF AInv, IInv, Staff
  <1>3. Doing(w, c, rec) /\ Current(c, rec) /\ c.pc = "write"
    BY <1>1, <1>2, WorkerFacts DEF UpdatePNR
  <1>4. /\ Served(rec, q, x) /\ c.todo = Tells(rec, q, x)
        /\ c.todo = {} \/ (Stored(c).pc \in {"work", "tell"} /\ Stored(c).todo = c.todo)
    BY <1>1, <1>2, <1>3, StoredDoing DEF Current
  <1>5. /\ rec' = x /\ k1 = [wk EXCEPT ![w] = Stored(c)] /\ told' = told /\ items' = items /\ faults' = faults
    BY <1>1 DEF UpdatePNR
  <1>6. k1[w] = Stored(c)
    BY <1>2, <1>5
  <1>7. Sound(x) /\ Follows(rec, x)
    BY <1>4 DEF Served
  <1>8. q.op = "emd" /\ q.type = "S" => q.seg \in 0..Booked
    <2>1. q \in AllRequests \cup {Expired}
      BY <1>1, <1>3 DEF Doing
    <2>2. q # Expired \/ q.op # "emd"
      BY RequestsFacts
    <2> QED
      BY <2>1, <2>2 DEF AllRequests, StandaloneBooked
  <1>9. Settled(x)
    <2> SUFFICES ASSUME NEW d \in DOMAIN x.docs, x.docs[d].type = "S"
                 PROVE  Segs(x.docs[d]) \subseteq 0..Booked
      BY DEF Settled
    <2>1. CASE d \in DOMAIN rec.docs
      <3>1. SameShape(rec.docs[d], x.docs[d])
        BY <1>7, <2>1 DEF Follows
      <3>2. rec.docs[d].type = "S" /\ Segs(x.docs[d]) = Segs(rec.docs[d])
        BY <3>1 DEF SameShape, Segs
      <3> QED
        BY <1>2, <2>1, <3>2 DEF Settled
    <2>2. CASE d \notin DOMAIN rec.docs
      BY <1>2, <1>4, <1>8, <2>2, NewDocument
    <2> QED
      BY <2>1, <2>2
  <1>10. \A d : \A v \in Carriers : Heard(d, v, wk, told, items) => Heard(d, v, k1, told, items)
    <2>1. wk[w].pc \notin {"work", "tell"}
      BY <1>1, <1>3
    <2>2. \A d : \A v \in Carriers :
              Heard(d, v, wk, told, items) => Heard(d, v, [wk EXCEPT ![w] = Stored(c)], told, items)
      BY <1>2, <2>1, HeardMoves
    <2> QED
      BY <1>5, <2>2
  <1>11. ASSUME NEW d, NEW v, <<"ticket", d, v>> \in c.todo
         PROVE  Heard(d, v, k1, told, items)
    <2>1. k1[w].pc \in {"work", "tell"} /\ k1[w].todo = c.todo
      BY <1>4, <1>6, <1>11
    <2> QED
      BY <1>11, <2>1 DEF Heard
  <1>12. ASSUME Advised(rec, wk, told, items), NEW d \in DOMAIN x.docs
         PROVE  IF x.docs[d].type = "A" THEN \E v \in Carriers : Heard(d, v, k1, told, items)
                ELSE \A s \in Covered(x, d) : Heard(d, Operator[s], k1, told, items)
    <2>1. CASE d \in DOMAIN rec.docs /\ x.docs[d].type = "A"
      <3>1. rec.docs[d].type = "A"
        BY <1>7, <2>1 DEF Follows, SameShape
      <3>2. PICK v \in Carriers : Heard(d, v, wk, told, items)
        BY <1>12, <2>1, <3>1 DEF Advised
      <3> QED
        BY <1>10, <2>1, <3>2
    <2>2. CASE d \in DOMAIN rec.docs /\ x.docs[d].type # "A"
      <3>1. rec.docs[d].type # "A"
        BY <1>7, <2>2 DEF Follows, SameShape
      <3>2. ASSUME NEW s \in Covered(x, d) PROVE Heard(d, Operator[s], k1, told, items)
        <4>1. s \in Covered(rec, d)
          BY <1>2, <1>7, <2>2, <3>1, CoveredFollows
        <4>2. Operator[s] \in Carriers
          BY <1>2, <4>1, SegmentsOperated DEF Covered
        <4>3. Heard(d, Operator[s], wk, told, items)
          BY <1>12, <2>2, <3>1, <4>1 DEF Advised
        <4> QED
          BY <1>10, <4>2, <4>3
      <3> QED
        BY <2>2, <3>2
    <2>3. CASE d \notin DOMAIN rec.docs
      <3>1. /\ x.docs[d].type = "A" => \E v \in Carriers : <<"ticket", d, v>> \in c.todo
            /\ \A s \in Covered(x, d) : <<"ticket", d, Operator[s]>> \in c.todo
        BY <1>2, <1>4, <2>3, NewTold
      <3> QED
        BY <1>11, <3>1
    <2> QED
      BY <2>1, <2>2, <2>3
  <1>13. Advised(rec, wk, told, items) => Advised(x, k1, told, items)
    BY <1>12 DEF Advised
  <1> QED
    BY <1>1, <1>5, <1>9, <1>13 DEF AInv

(* A message is sent or fails: the carrier was told, or a divergence is    *)
(* raised.                                                                 *)
LEMMA SentAdvised ==
    ASSUME AInv, NEW w, w \in Workers, NEW m, m \in wk[w].todo, Tell(w, m) \/ TellFails(w, m)
    PROVE  Settled(rec') /\ (faults' = 0 => Advised(rec', wk', told', items'))
  <1>1. PICK c : c = wk[w]
    OBVIOUS
  <1>2. IInv
    BY DEF AInv
  <1>3. wk' = [wk EXCEPT ![w] = Without(c, m)] /\ c.pc = "tell" /\ rec' = rec /\ faults' = faults
    BY <1>1 DEF Tell, TellFails, Sent
  <1>4. told \subseteq told' /\ items \subseteq items'
    BY DEF Tell, TellFails, Place
  <1>5. m[1] = "ticket" => Knows(m[2], m[3], told', items')
    <2>1. CASE Tell(w, m)
      BY <2>1 DEF Tell, Knows
    <2>2. CASE TellFails(w, m)
      BY <2>2 DEF TellFails, Place, Knows
    <2> QED
      BY <2>1, <2>2
  <1>6. ASSUME NEW d, NEW x \in Carriers, <<"ticket", d, x>> \in wk[w].todo
        PROVE  \/ Without(c, m).pc \in {"work", "tell"} /\ <<"ticket", d, x>> \in Without(c, m).todo
               \/ Knows(d, x, told', items')
    <2>1. CASE m = <<"ticket", d, x>>
      BY <1>5, <2>1
    <2>2. CASE m # <<"ticket", d, x>>
      <3>1. PICK T : T = c.todo \ {m}
        OBVIOUS
      <3>2. Without(c, m) = [c EXCEPT !.todo = T]
        BY <1>1, <1>6, <2>2, <3>1 DEF Without
      <3>3. c \in Worker
        BY <1>1, <1>2, WorkerFacts
      <3>4. Without(c, m).pc = c.pc /\ Without(c, m).todo = T
        BY <3>2, <3>3 DEF Worker
      <3> QED
        BY <1>1, <1>3, <1>6, <2>2, <3>1, <3>4
    <2> QED
      BY <2>1, <2>2
  <1>7. \A d : \A x \in Carriers : wk[w].pc \in {"work", "tell"} /\ <<"ticket", d, x>> \in wk[w].todo =>
            \/ Without(c, m).pc \in {"work", "tell"} /\ <<"ticket", d, x>> \in Without(c, m).todo
            \/ Knows(d, x, told', items')
    BY <1>6
  <1>8. \A x \in Carriers : <<"ticket_not_advised", x>> \in items => <<"ticket_not_advised", x>> \in items'
    BY <1>4
  <1> QED
    BY <1>3, <1>4, <1>7, <1>8, MoveAdvised, Zenon

(* Working the queues takes no divergence off them. *)
LEMMA WorkAdvised ==
    ASSUME AInv, NEW w, w \in Workers, WorkTicketingQueue(w)
    PROVE  Settled(rec') /\ (faults' = 0 => Advised(rec', wk', told', items'))
  <1>1. PICK c : c = [wk[w] EXCEPT !.pc = "tell"]
    OBVIOUS
  <1>2. wk' = [wk EXCEPT ![w] = c] /\ rec' = rec /\ faults' = faults /\ told \subseteq told'
    BY <1>1 DEF WorkTicketingQueue
  <1>3. wk[w] \in Worker
    BY WorkerFacts DEF AInv
  <1>4. c.pc = "tell" /\ c.todo = wk[w].todo
    BY <1>1, <1>3 DEF Worker
  <1>5. \A x \in Carriers : <<"ticket_not_advised", x>> \in items => <<"ticket_not_advised", x>> \in items'
    BY TicketingAssumption DEF WorkTicketingQueue
  <1>6. \A d : \A x \in Carriers : wk[w].pc \in {"work", "tell"} /\ <<"ticket", d, x>> \in wk[w].todo =>
            \/ c.pc \in {"work", "tell"} /\ <<"ticket", d, x>> \in c.todo
            \/ Knows(d, x, told', items')
    BY <1>4
  <1> QED
    BY <1>2, <1>5, <1>6, MoveAdvised, Zenon

(* A read finds the goroutine with nothing to tell. *)
LEMMA ReadsAdvised ==
    ASSUME AInv, NEW w, w \in Workers, wk[w].pc \notin {"work", "tell"}, NEW q, NEW tries, Reads(w, q, tries),
           rec' = rec, faults' = faults, told' = told, items' = items
    PROVE  Settled(rec') /\ (faults' = 0 => Advised(rec', wk', told', items'))
  <1>1. PICK c : wk' = [wk EXCEPT ![w] = c]
    BY DEF Reads
  <1> QED
    BY <1>1, QuietAdvised

(* Every step keeps the carriers advised. *)
LEMMA NextAdvised ==
    ASSUME StandaloneBooked, AInv, [Next]_vars
    PROVE  AInv'
  <1> DEFINE Goal == Settled(rec') /\ (faults' = 0 => Advised(rec', wk', told', items'))
  <1>0. IInv' /\ Sweeper \in Workers
    BY NextInv DEF AInv, Workers
  <1>1. ASSUME NEW w \in Callers, NEW q \in Requests[w], Call(w, q) PROVE Goal
    <2>1. w \in Workers /\ wk[w].pc \notin {"work", "tell"}
      BY <1>1 DEF Workers, Call
    <2> QED
      BY <1>1, <2>1, ReadsAdvised DEF Call
  <1>2. ASSUME NEW w \in Workers, ReadAgain(w) PROVE Goal
    <2>1. wk[w].pc \notin {"work", "tell"}
      BY <1>2 DEF ReadAgain
    <2> QED
      BY <1>2, <2>1, ReadsAdvised DEF ReadAgain
  <1>3. ASSUME NEW w \in Workers, Conflict(w) PROVE Goal
    <2>1. /\ wk' = [wk EXCEPT ![w] = Overtaken(wk[w])] /\ wk[w].pc \notin {"work", "tell"}
          /\ rec' = rec /\ faults' = faults /\ told' = told /\ items \subseteq items'
      BY <1>3 DEF Conflict
    <2> QED
      BY <2>1, QuietAdvised, Zenon
  <1>4. ASSUME NEW w \in Workers, Step(w) PROVE Goal
    BY <1>2, <1>3, <1>4, UpdateAdvised, WorkAdvised, SentAdvised DEF Step
  <1>5. ASSUME faults' # faults PROVE Goal
    <2>1. faults' # 0
      <3>1. faults' = faults + 1 /\ faults \in Nat
        <4>1. faults \in Nat
          BY TicketingAssumption DEF AInv, IInv
        <4> QED
          BY <1>5, <4>1 DEF Next, vars, Call, Step, ReadAgain, UpdatePNR, Conflict, WorkTicketingQueue, Tell,
             TellFails, Fails, StoreFails, TellLost, Sweep, SweepList, SweepRecord, Tick, Crash,
             PartnerReplies, CarrierRefuses
      <3> QED
        BY <3>1
    <2>2. rec' = rec
      BY <1>5 DEF Next, vars, Call, Step, ReadAgain, UpdatePNR, Conflict, WorkTicketingQueue, Tell,
         TellFails, Fails, StoreFails, TellLost, Sweep, SweepList, SweepRecord, Tick, Crash,
         PartnerReplies, CarrierRefuses
    <2> QED
      BY <2>1, <2>2 DEF AInv
  <1>6. ASSUME NEW old \in BOOLEAN, SweepList(old) PROVE Goal
    <2>1. PICK c : wk' = [wk EXCEPT ![Sweeper] = c]
      BY <1>6 DEF SweepList
    <2>2. wk[Sweeper].pc \notin {"work", "tell"} /\ rec' = rec /\ faults' = faults /\ told' = told
          /\ items \subseteq items'
      BY <1>6 DEF SweepList
    <2> QED
      BY <1>0, <2>1, <2>2, QuietAdvised, Zenon
  <1>7. ASSUME SweepRecord PROVE Goal
    <2>1. PICK c : wk' = [wk EXCEPT ![Sweeper] = c]
      BY <1>7 DEF SweepRecord
    <2>2. wk[Sweeper].pc \notin {"work", "tell"} /\ rec' = rec /\ faults' = faults /\ told' = told
          /\ items \subseteq items'
      BY <1>7 DEF SweepRecord, Place
    <2> QED
      BY <1>0, <2>1, <2>2, QuietAdvised, Zenon
  <1>8. ASSUME NEW s, PartnerReplies(s) PROVE Goal
    <2>1. rec'.docs = rec.docs /\ DOMAIN rec'.segs = DOMAIN rec.segs
      BY <1>8, PartnerInv DEF AInv
    <2>2. wk' = wk /\ told' = told /\ items' = items /\ faults' = faults
      BY <1>8 DEF PartnerReplies
    <2>3. \A d : Covered(rec', d) = Covered(rec, d)
      BY <2>1 DEF Covered
    <2> QED
      BY <2>1, <2>2, <2>3 DEF AInv, Settled, Advised
  <1>9. ASSUME wk' = wk, rec' = rec, told' = told, faults' = faults, items \subseteq items' PROVE Goal
    <2>1. \A d : \A x \in Carriers : Heard(d, x, wk, told, items) => Heard(d, x, wk', told', items')
      BY <1>9 DEF Heard, Knows
    <2>2. Sound(rec)
      BY DEF AInv, IInv
    <2>3. Advised(rec, wk, told, items) => Advised(rec, wk', told', items')
      BY <2>1, <2>2, AdvisedKept, Zenon
    <2> QED
      BY <1>9, <2>3 DEF AInv
  <1>10. ASSUME Tick \/ (\E x \in told : CarrierRefuses(x[1], x[2])) \/ UNCHANGED vars PROVE Goal
    BY <1>9, <1>10 DEF Tick, CarrierRefuses, Place, vars
  <1>11. ASSUME (\E w \in Workers : Fails(w)) \/ Crash PROVE Goal
    <2>1. faults' = faults + 1 /\ faults \in Nat
      BY <1>11, TicketingAssumption DEF Fails, StoreFails, TellLost, Crash, AInv, IInv
    <2> QED
      BY <1>5, <2>1
  <1> HIDE DEF Goal
  <1>12. Goal
    BY <1>1, <1>4, <1>6, <1>7, <1>8, <1>10, <1>11 DEF Next, Sweep
  <1> QED
    BY <1>0, <1>12 DEF AInv, Goal

(* Every carrier hears of every document: once the calls are over, it was  *)
(* sent the documents over its segments, or a divergence was raised, though *)
(* links refuse messages and calls conflict (notifyTicketed,              *)
(* queueTicketDivergence).                                                 *)
THEOREM CarriersAdvised ==
    ASSUME StandaloneBooked
    PROVE  Spec => []AdvisedOrQueued
  <1>1. Init => AInv
    <2> SUFFICES ASSUME Init PROVE AInv
      OBVIOUS
    <2>1. /\ IInv /\ Sound(rec)
          /\ \A d \in DOMAIN rec.docs : rec.docs[d].type = "A" => Covered(rec, d) # {}
          /\ \A d \in DOMAIN rec.docs : rec.docs[d].type # "S"
      BY InitInv, InitRecords DEF Init
    <2>2. \A d \in DOMAIN rec.docs : \A s \in Covered(rec, d) : <<d, Operator[s]>> \in told
      BY <2>1, InitTold DEF Init
    <2>3. \A d \in DOMAIN rec.docs : \A s \in Covered(rec, d) :
              Heard(d, Operator[s], wk, told, items) /\ Operator[s] \in Carriers
      BY <2>1, <2>2, SegmentsOperated DEF Heard, Knows, Covered
    <2>4. Advised(rec, wk, told, items)
      BY <2>1, <2>3 DEF Advised
    <2> QED
      BY <2>1, <2>4 DEF AInv, Settled
  <1>2. AInv /\ [Next]_vars => AInv'
    BY NextAdvised
  <1>3. AInv => AdvisedOrQueued
    <2> SUFFICES ASSUME AInv, faults = 0, \A w \in Callers : wk[w].pc = "idle",
                        NEW d \in DOMAIN rec.docs
                 PROVE  IF rec.docs[d].type = "A"
                        THEN \E c \in Carriers : Knows(d, c, told, items)
                        ELSE \A s \in Covered(rec, d) : Knows(d, Operator[s], told, items)
      BY DEF AdvisedOrQueued, Knows
    <2>1. ASSUME NEW c, Heard(d, c, wk, told, items) PROVE Knows(d, c, told, items)
      <3> SUFFICES ASSUME NEW w \in Workers, wk[w].pc \in {"work", "tell"}, <<"ticket", d, c>> \in wk[w].todo
                   PROVE  FALSE
        BY <2>1 DEF Heard
      <3>1. w = Sweeper
        BY DEF Workers
      <3>2. Doing(w, wk[w], rec)
        BY WorkerFacts DEF AInv
      <3>3. <<"ticket", d, c>>[1] = "cancel"
        BY <3>1, <3>2 DEF Doing
      <3> QED
        BY <3>3
    <2>2. Advised(rec, wk, told, items)
      BY DEF AInv
    <2> QED
      BY <2>1, <2>2 DEF Advised
  <1> QED
    BY <1>1, <1>2, <1>3, PTL DEF Spec

=============================================================================
