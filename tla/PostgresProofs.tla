--------------------------- MODULE PostgresProofs ---------------------------
(***************************************************************************)
(* For any number of records, writers, days, writes, retirements and       *)
(* faults: what the database has committed is a book as Book states it,    *)
(* retirement takes no record before its time unless it was committed      *)
(* under the hand that truncates, and the events of a record are numbered  *)
(* in the order of the writes that brought them.                           *)
(***************************************************************************)
EXTENDS Postgres, NaturalsInduction, WellFoundedInduction, TLAPS

Places == Days \cup {Default}

RowType == [ver : Nat, by : Writers \cup {None}, day : Days, part : Places]

EventType == [seq : Nat, ver : Nat, day : Days, part : Places]

CallType == [pc : {"idle", "ensure", "wait", "statement", "commit"},
             op : {"create", "update", "divide", None},
             id : Ids \cup {None}, child : Ids \cup {None}, day : Places,
             exp : Nat, part : Places]

Tables == {"pnr", "pnr_event"}

RetireType == [pc : {"idle", "drop", "events", "queue", "count", "truncate", "countEvents",
                     "truncateEvents"},
               cutoff : Nat, here : BOOLEAN, drop : SUBSET (Tables \X Days)]

(* The type of what the proofs are about: the tables, the calls and the    *)
(* retirement.                                                             *)
TypeOK ==
    /\ rows \in [Ids -> RowType \cup {None}] /\ born \subseteq Ids
    /\ events \in [Ids -> SUBSET EventType]
    /\ parts \in [Tables -> SUBSET Days]
    /\ tx \in [Writers -> CallType]
    /\ retire \in RetireType
    /\ queue \in [Ids -> {"none", "pending", "worked"}]

(* What a call carries is what its operation needs. *)
CallInv == \A w \in Writers :
    LET t == tx[w] IN
    \/ t = Idle
    \/ /\ t.pc # "idle" /\ t.id \in Ids /\ t.day \in Days /\ t.part \in {Default, t.day}
       /\ \/ t.op = "create" /\ t.exp = 0 /\ t.child = None
          \/ t.op = "update" /\ t.id \in born /\ t.child = None
          \/ t.op = "divide" /\ t.id \in born /\ t.child \in Ids /\ t.child # t.id

(* The ids a call brings into the book. *)
New(w) == IF tx[w].op = "create" THEN {tx[w].id}
          ELSE IF tx[w].op = "divide" THEN {tx[w].child} ELSE {}

(* Nobody else has them, and the book does not know them yet. *)
NewInv == \A w \in Writers : \A i \in New(w) :
    i \notin born /\ \A v \in Writers \ {w} : i \notin {tx[v].id, tx[v].child}

(* Between its statements and its COMMIT a transaction holds its row at    *)
(* the version it was asked to replace, and holds it alone.                *)
LockInv == \A w \in Writers : tx[w].pc = "commit" =>
    /\ tx[w].op # "create" => rows[tx[w].id] # None /\ rows[tx[w].id].ver = tx[w].exp
    /\ \A v \in Writers \ {w} : tx[v].pc = "commit" => tx[v].id # tx[w].id

(* What the book never knew has left no trace in any table. *)
BornInv == \A i \in Ids \ born : rows[i] = None /\ events[i] = {} /\ queue[i] = "none"

(* A row is in its day's partition or the default one, and what            *)
(* RetireBefore set out to drop is past its cutoff.                        *)
PlaceInv ==
    /\ \A i \in Live : rows[i].part \in {Default, rows[i].day}
    /\ \A p \in retire.drop : Past(p[2], retire.cutoff)

(* No event is of a later write than the row, and the numbers of a         *)
(* record's events are bounded.                                            *)
EventInv ==
    /\ \A i \in Live : \A e \in events[i] : e.ver <= rows[i].ver
    /\ \A i \in Ids : \E n \in Nat : \A e \in events[i] : e.seq <= n

IInv == TypeOK /\ CallInv /\ NewInv /\ LockInv /\ BornInv /\ PlaceInv /\ EventInv /\ EventsInOrder

---------------------------------------------------------------------------
(* Naturals.                                                               *)

(* A set of naturals has a least element. *)
LEMMA LeastElement ==
    ASSUME NEW S \in SUBSET Nat, S # {}
    PROVE  \E x \in S : \A y \in S : x <= y
  <1> DEFINE R == OpToRel(<, Nat)
  <1>1. IsWellFoundedOn(R, Nat)
    BY NatLessThanWellFounded
  <1>2. \A x, y \in Nat : <<x, y>> \in R <=> x < y
    BY DEF OpToRel
  <1> HIDE DEF R
  <1>3. PICK x \in S : \A y \in S : ~(<<y, x>> \in R)
    BY <1>1, WFMin
  <1>4. ASSUME NEW y \in S PROVE x <= y
    <2>1. x \in Nat /\ y \in Nat
      OBVIOUS
    <2>2. ~(<<y, x>> \in R)
      BY <1>3
    <2>3. ~(y < x)
      BY <1>2, <2>1, <2>2, Zenon
    <2> QED
      BY <2>1, <2>3
  <1> QED
    BY <1>4

(* A bounded set of naturals that has an element has a greatest one: the   *)
(* least of its bounds.                                                    *)
LEMMA GreatestElement ==
    ASSUME NEW S \in SUBSET Nat, S # {}, NEW n \in Nat, \A x \in S : x <= n
    PROVE  \E x \in S : \A y \in S : x >= y
  <1> DEFINE Bounds == {b \in Nat : \A x \in S : x <= b}
  <1>1. Bounds \in SUBSET Nat /\ Bounds # {}
    OBVIOUS
  <1>2. PICK b \in Bounds : \A c \in Bounds : b <= c
    BY <1>1, LeastElement
  <1>3. b \in S
    <2> SUFFICES ASSUME b \notin S PROVE FALSE
      OBVIOUS
    <2>1. \A x \in S : x <= b - 1
      OBVIOUS
    <2>2. b - 1 \in Nat
      <3>1. PICK x \in S : TRUE
        OBVIOUS
      <3>2. x \in Nat /\ b \in Nat /\ x <= b - 1
        BY <2>1
      <3> QED
        BY <3>2
    <2>3. b - 1 \in Bounds
      BY <2>1, <2>2
    <2> QED
      BY <1>2, <2>3
  <1> QED
    BY <1>3

(* Init's first day is a day. *)
LEMMA MinDay == Min(Days) \in Days
  <1>1. \E x \in Days : \A y \in Days : x <= y
    BY LeastElement, PostgresAssumption
  <1> QED
    BY <1>1 DEF Min

(* The next number of an event is above all there are. *)
LEMMA LastSeq ==
    ASSUME IInv, NEW i \in Ids
    PROVE  lastSeq(i) \in Nat /\ \A e \in events[i] : e.seq <= lastSeq(i)
  <1> DEFINE S == {e.seq : e \in events[i]} \cup {0}
  <1>1. events[i] \subseteq EventType
    BY DEF IInv, TypeOK
  <1>2. S \in SUBSET Nat /\ S # {}
    BY <1>1 DEF EventType
  <1>3. PICK n \in Nat : \A e \in events[i] : e.seq <= n
    BY DEF IInv, EventInv
  <1>4. \A x \in S : x <= n
    BY <1>3
  <1>5. \E x \in S : \A y \in S : x >= y
    BY <1>2, <1>4, GreatestElement
  <1>6. lastSeq(i) \in S /\ \A y \in S : lastSeq(i) >= y
    BY <1>5 DEF lastSeq, Max
  <1> QED
    BY <1>1, <1>2, <1>6 DEF EventType

---------------------------------------------------------------------------
(* The inductive invariant.                                                *)

(* The book starts with one record, in the right place. *)
LEMMA InitInv == Init => IInv
  <1> SUFFICES ASSUME Init PROVE IInv
    OBVIOUS
  <1> USE PostgresAssumption, NoneAssumption, MinDay
  <1>1. PICK p \in {Min(Days), Default} :
          /\ rows = [i \in Ids |-> IF i = First THEN [ver |-> 1, by |-> None, day |-> Min(Days), part |-> p]
                                   ELSE None]
          /\ events = [i \in Ids |-> IF i = First THEN {[seq |-> 1, ver |-> 1, day |-> Min(Days), part |-> p]}
                                     ELSE {}]
          /\ parts = [t \in {"pnr", "pnr_event"} |-> {p} \ {Default}]
    BY DEF Init
  <1>2. /\ born = {First} /\ tx = [w \in Writers |-> Idle] /\ queue = [i \in Ids |-> "none"]
        /\ retire = [pc |-> "idle", cutoff |-> 0, drop |-> {}, here |-> FALSE]
    BY DEF Init
  <1>3. Idle \in CallType
    BY DEF Idle, CallType, Places, Default
  <1>4. [ver |-> 1, by |-> None, day |-> Min(Days), part |-> p] \in RowType
    BY DEF RowType, Places
  <1>5. [seq |-> 1, ver |-> 1, day |-> Min(Days), part |-> p] \in EventType
    BY DEF EventType, Places
  <1>6. TypeOK
    <2>1. rows \in [Ids -> RowType \cup {None}] /\ born \subseteq Ids
      BY <1>1, <1>2, <1>4
    <2>2. events \in [Ids -> SUBSET EventType]
      BY <1>1, <1>5
    <2>3. parts \in [Tables -> SUBSET Days]
      BY <1>1 DEF Tables
    <2>4. tx \in [Writers -> CallType] /\ queue \in [Ids -> {"none", "pending", "worked"}]
      BY <1>2, <1>3
    <2>5. retire \in RetireType
      BY <1>2 DEF RetireType
    <2> QED
      BY <2>1, <2>2, <2>3, <2>4, <2>5 DEF TypeOK
  <1>7. CallInv /\ NewInv /\ LockInv
    BY <1>2 DEF CallInv, NewInv, New, LockInv, Idle
  <1>8. BornInv
    BY <1>1, <1>2 DEF BornInv
  <1>9. PlaceInv
    BY <1>1, <1>2 DEF PlaceInv, Live
  <1>10. EventInv /\ EventsInOrder
    <2>1. \A i \in Ids : \A e \in events[i] : e.seq = 1 /\ e.ver = 1
      BY <1>1
    <2>2. \A i \in Live : i = First /\ rows[i].ver = 1
      BY <1>1 DEF Live
    <2> QED
      BY <2>1, <2>2 DEF EventInv, EventsInOrder, Live
  <1> QED
    BY <1>6, <1>7, <1>8, <1>9, <1>10 DEF IInv

(* What of the book a step of a call leaves alone. *)
Tabled == <<rows, born, events, parts, retire, queue>>

(* A call that goes on with what it carries, or is dropped, keeps the      *)
(* invariant; on the way to COMMIT it has found its row unlocked and at    *)
(* the version it expects.                                                 *)
LEMMA CallGoesOn ==
    ASSUME IInv, UNCHANGED Tabled, NEW w \in Writers, NEW t \in CallType,
           tx' = [tx EXCEPT ![w] = t],
           \/ t = Idle
           \/ /\ tx[w] # Idle /\ t.pc # "idle" /\ t.part \in {Default, t.day}
              /\ t.op = tx[w].op /\ t.id = tx[w].id /\ t.child = tx[w].child
              /\ t.day = tx[w].day /\ t.exp = tx[w].exp
              /\ t.pc = "commit" => /\ ~Locked(t.id)
                                    /\ t.op # "create" => rows[t.id] # None /\ rows[t.id].ver = t.exp
    PROVE  IInv'
  <1> USE NoneAssumption
  <1>1. TypeOK'
    BY DEF IInv, TypeOK, Tabled
  <1>2. CallInv'
    BY DEF IInv, TypeOK, CallInv, Tabled, Idle
  <1>3. NewInv'
    <2>1. \A v \in Writers : New(v)' \subseteq New(v)
      BY DEF IInv, TypeOK, New, Idle
    <2>2. \A v \in Writers : {tx'[v].id, tx'[v].child} \subseteq {tx[v].id, tx[v].child, None}
      BY DEF IInv, TypeOK, Idle
    <2>3. \A v \in Writers : New(v) \subseteq Ids
      BY DEF IInv, CallInv, New, Idle
    <2> QED
      BY <2>1, <2>2, <2>3 DEF IInv, NewInv, Tabled
  <1>4. LockInv'
    BY DEF IInv, TypeOK, LockInv, Locked, Tabled, Idle
  <1>5. BornInv' /\ PlaceInv' /\ EventInv' /\ EventsInOrder'
    BY DEF IInv, Tabled, BornInv, PlaceInv, EventInv, EventsInOrder, Live
  <1> QED
    BY <1>1, <1>2, <1>3, <1>4, <1>5 DEF IInv

(* What a statement of the retirement, of the partitions or of the queue   *)
(* may do: rows leave that nobody holds, events leave, nothing comes.      *)
Shrinks ==
    /\ tx' = tx /\ born' = born
    /\ \A i \in Ids : rows'[i] = rows[i] \/ (rows'[i] = None /\ ~Locked(i))
    /\ \A i \in Ids : events'[i] \subseteq events[i]
    /\ \A i \in Ids \ born : queue'[i] = "none"
    /\ \A p \in retire'.drop : Past(p[2], retire'.cutoff)

(* A step that only takes rows, events and partitions away keeps IInv. *)
LEMMA ShrinkingKeeps ==
    ASSUME IInv, Shrinks,
           rows' \in [Ids -> RowType \cup {None}], events' \in [Ids -> SUBSET EventType],
           parts' \in [Tables -> SUBSET Days], retire' \in RetireType,
           queue' \in [Ids -> {"none", "pending", "worked"}]
    PROVE  IInv'
  <1> USE DEF Shrinks
  <1>1. TypeOK'
    BY DEF IInv, TypeOK
  <1>2. CallInv' /\ NewInv'
    BY DEF IInv, CallInv, NewInv, New
  <1>3. LockInv'
    <2>1. \A w \in Writers : tx[w].pc = "commit" => Locked(tx[w].id) /\ tx[w].id \in Ids
      BY DEF IInv, CallInv, Locked, Idle
    <2> QED
      BY <2>1 DEF IInv, LockInv
  <1>4. BornInv'
    BY DEF IInv, BornInv
  <1>5. PlaceInv'
    BY DEF IInv, PlaceInv, Live
  <1>6. EventInv'
    <2>1. \A i \in Live' : i \in Live /\ rows'[i] = rows[i]
      BY DEF Live
    <2>2. \A i \in Live' : \A e \in events'[i] : e.ver <= rows'[i].ver
      BY <2>1 DEF IInv, EventInv, Live
    <2>3. ASSUME NEW i \in Ids PROVE \E n \in Nat : \A e \in events'[i] : e.seq <= n
      BY DEF IInv, EventInv
    <2> QED
      BY <2>2, <2>3 DEF EventInv
  <1>7. EventsInOrder'
    BY DEF IInv, EventsInOrder
  <1> QED
    BY <1>1, <1>2, <1>3, <1>4, <1>5, <1>6, <1>7 DEF IInv

(* CreatePNR, UpdatePNR and DividePNR begin: a new id is nobody else's.    *)
LEMMA CallStep ==
    ASSUME IInv, NEW w \in Writers, NEW op \in {"create", "update", "divide"},
           NEW id \in Ids, NEW child \in Ids, NEW d \in Days, Call(w, op, id, child, d)
    PROVE  IInv'
  <1> USE NoneAssumption, PostgresAssumption
  <1> DEFINE ch == IF op = "divide" THEN child ELSE None
             ex == IF op = "create" THEN 0 ELSE rows[id].ver
             t == [pc |-> "ensure", op |-> op, id |-> id, child |-> ch, day |-> d, exp |-> ex,
                   part |-> Default]
  <1>1. tx[w] = Idle /\ tx' = [tx EXCEPT ![w] = t] /\ UNCHANGED Tabled
    BY DEF Call, Tabled
  <1>2. op # "create" => id \in Live /\ id \in born /\ rows[id] \in RowType
    BY DEF Call, Live, IInv, BornInv, TypeOK
  <1>3. ch \in Ids \cup {None} /\ ex \in Nat
    BY <1>2 DEF RowType
  <1>4. /\ op = "create" => ex = 0 /\ ch = None
        /\ op = "update" => ch = None
        /\ op = "divide" => ch = child
    OBVIOUS
  <1> HIDE DEF ch, ex
  <1>5. /\ t.pc = "ensure" /\ t.op = op /\ t.id = id /\ t.child = ch
        /\ t.day = d /\ t.exp = ex /\ t.part = Default
    OBVIOUS
  <1>6. t \in CallType
    BY <1>3 DEF CallType, Places
  <1> HIDE DEF t
  <1>7. /\ op = "create" => Fresh(id)
        /\ op = "divide" => Fresh(child) /\ child # id
    BY <1>2 DEF Call, Fresh
  <1>8. TypeOK'
    BY <1>1, <1>6 DEF IInv, TypeOK, Tabled
  <1>9. CallInv'
    <2>1. tx'[w] = t /\ \A v \in Writers \ {w} : tx'[v] = tx[v]
      BY <1>1 DEF IInv, TypeOK
    <2> QED
      BY <1>1, <1>2, <1>4, <1>5, <1>7, <2>1 DEF IInv, CallInv, Tabled
  <1>10. NewInv'
    <2>1. tx'[w] = t /\ \A v \in Writers \ {w} : tx'[v] = tx[v]
      BY <1>1 DEF IInv, TypeOK
    <2>2. \A i \in New(w)' : i \notin born /\ \A v \in Writers \ {w} : i \notin {tx[v].id, tx[v].child}
      BY <1>4, <1>5, <1>7, <2>1 DEF New, Fresh
    <2>3. ASSUME NEW v \in Writers \ {w}, NEW i \in New(v)'
          PROVE  i \notin born /\ i \notin {t.id, t.child} /\ i \in Ids
                 /\ \A u \in Writers \ {v, w} : i \notin {tx[u].id, tx[u].child}
      <3>1. i \in New(v)
        BY <2>1, <2>3 DEF New
      <3>2. i \in {tx[v].id, tx[v].child} /\ i \in Ids
        BY <3>1 DEF New, IInv, CallInv, Idle
      <3>3. i \notin born /\ \A u \in Writers \ {v} : i \notin {tx[u].id, tx[u].child}
        BY <3>1 DEF IInv, NewInv
      <3>4. i # id
        BY <1>2, <1>7, <3>2, <3>3 DEF Fresh
      <3>5. i # ch
        BY <1>4, <1>7, <3>2, <3>3 DEF Fresh
      <3> QED
        BY <1>5, <3>2, <3>3, <3>4, <3>5
    <2> QED
      BY <1>1, <2>1, <2>2, <2>3 DEF NewInv, Tabled
  <1>11. LockInv'
    BY <1>1, <1>5 DEF IInv, TypeOK, LockInv, Tabled
  <1>12. BornInv' /\ PlaceInv' /\ EventInv' /\ EventsInOrder'
    BY <1>1 DEF IInv, Tabled, BornInv, PlaceInv, EventInv, EventsInOrder, Live
  <1> QED
    BY <1>8, <1>9, <1>10, <1>11, <1>12 DEF IInv

(* What COMMIT writes: its record under the next version, the child of a   *)
(* division under the first, an event for each, and nothing else.  The     *)
(* record was there at the version the call expects, or never was.         *)
LEMMA CommitWrites ==
    ASSUME IInv, NEW w \in Writers, Commit(w)
    PROVE  /\ tx[w].id \in Ids /\ tx[w].child \in Ids \cup {None} /\ tx[w].id # tx[w].child
           /\ rows'[tx[w].id] = Row(tx[w].exp + 1, w, tx[w])
           /\ events'[tx[w].id] = WithEvent(tx[w].id, tx[w].exp + 1, tx[w].day)
           /\ tx[w].child # None =>
                 /\ rows'[tx[w].child] = Row(1, w, tx[w])
                 /\ events'[tx[w].child] = WithEvent(tx[w].child, 1, tx[w].day)
                 /\ tx[w].child \notin born /\ tx[w].op = "divide"
           /\ \A i \in Ids \ {tx[w].id, tx[w].child} : rows'[i] = rows[i] /\ events'[i] = events[i]
           /\ born' = born \cup ({tx[w].id, tx[w].child} \ {None})
           /\ \/ tx[w].op = "create" /\ tx[w].id \notin born /\ tx[w].exp = 0 /\ tx[w].child = None
              \/ /\ tx[w].op # "create" /\ tx[w].id \in born
                 /\ rows[tx[w].id] \in RowType /\ rows[tx[w].id].ver = tx[w].exp
           /\ tx[w].exp \in Nat /\ tx[w].day \in Days /\ tx[w].part \in {Default, tx[w].day}
           /\ Row(tx[w].exp + 1, w, tx[w]) \in RowType /\ Row(1, w, tx[w]) \in RowType
           /\ rows' \in [Ids -> RowType \cup {None}] /\ events' \in [Ids -> SUBSET EventType]
  <1> USE NoneAssumption
  <1> DEFINE t == tx[w]
             ids == IF t.child = None THEN <<t.id>> ELSE <<t.child, t.id>>
  <1>1. t \in CallType /\ t # Idle /\ t.pc = "commit"
    BY DEF Commit, IInv, TypeOK, Idle
  <1>2. /\ t.id \in Ids /\ t.day \in Days /\ t.part \in {Default, t.day} /\ t.exp \in Nat
        /\ \/ t.op = "create" /\ t.exp = 0 /\ t.child = None
           \/ t.op = "update" /\ t.id \in born /\ t.child = None
           \/ t.op = "divide" /\ t.id \in born /\ t.child \in Ids /\ t.child # t.id
    BY <1>1 DEF IInv, CallInv, CallType
  <1>3. ToSet(ids) = {t.id, t.child} \ {None}
    <2>1. CASE t.child = None
      BY <1>2, <2>1 DEF ToSet
    <2>2. CASE t.child # None
      BY <1>2, <2>2 DEF ToSet
    <2> QED
      BY <2>1, <2>2
  <1>4. /\ t.op = "create" => t.id \notin born
        /\ t.op = "divide" => t.child \notin born
    BY DEF IInv, NewInv, New
  <1>5. t.op # "create" => rows[t.id] \in RowType /\ rows[t.id].ver = t.exp
    BY <1>1, <1>2 DEF IInv, LockInv, TypeOK
  <1>6. Row(t.exp + 1, w, t) \in RowType /\ Row(1, w, t) \in RowType
    BY <1>2 DEF Row, RowType, Places
  <1>7. rows' = [i \in Ids |-> CASE i = t.id -> Row(t.exp + 1, w, t)
                                 [] i = t.child -> Row(1, w, t)
                                 [] OTHER -> rows[i]]
    BY DEF Commit
  <1>8. events' = [i \in Ids |-> IF i \in ToSet(ids)
                                 THEN WithEvent(i, IF i = t.id THEN t.exp + 1 ELSE 1, t.day)
                                 ELSE events[i]]
    BY DEF Commit
  <1>9. born' = born \cup ToSet(ids)
    BY DEF Commit
  <1>10. ASSUME NEW i \in Ids, NEW v \in Nat PROVE WithEvent(i, v, t.day) \in SUBSET EventType
    <2>1. events[i] \in SUBSET EventType /\ lastSeq(i) + 1 \in Nat
      BY LastSeq DEF IInv, TypeOK
    <2>2. Routed("pnr_event", t.day) \in Places
      BY <1>2 DEF Routed, Places
    <2> QED
      BY <1>2, <2>1, <2>2 DEF WithEvent, EventType
  <1> HIDE DEF t, ids
  <1>11. rows'[t.id] = Row(t.exp + 1, w, t) /\ (t.child # None => rows'[t.child] = Row(1, w, t))
    BY <1>2, <1>7
  <1>12. /\ events'[t.id] = WithEvent(t.id, t.exp + 1, t.day)
         /\ t.child # None => events'[t.child] = WithEvent(t.child, 1, t.day)
    BY <1>2, <1>3, <1>8
  <1>13. \A i \in Ids \ {t.id, t.child} : rows'[i] = rows[i] /\ events'[i] = events[i]
    BY <1>3, <1>7, <1>8
  <1>14. rows' \in [Ids -> RowType \cup {None}]
    <2>1. \A i \in Ids : rows'[i] \in RowType \cup {None}
      BY <1>2, <1>6, <1>11, <1>13 DEF IInv, TypeOK
    <2> QED
      BY <1>7, <2>1
  <1>15. events' \in [Ids -> SUBSET EventType]
    <2>1. t.exp + 1 \in Nat /\ 1 \in Nat
      BY <1>2
    <2>2. \A i \in Ids : events'[i] \in SUBSET EventType
      BY <1>2, <1>10, <1>12, <1>13, <2>1 DEF IInv, TypeOK
    <2> QED
      BY <1>8, <2>2
  <1> QED
    BY <1>2, <1>3, <1>4, <1>5, <1>6, <1>9, <1>11, <1>12, <1>13, <1>14, <1>15 DEF t

(* COMMIT keeps the invariant. *)
LEMMA CommitStep ==
    ASSUME IInv, NEW w \in Writers, Commit(w)
    PROVE  IInv'
  <1> USE NoneAssumption
  <1> DEFINE t == tx[w]
  <1>1. /\ t.id \in Ids /\ t.child \in Ids \cup {None} /\ t.id # t.child
        /\ rows'[t.id] = Row(t.exp + 1, w, t)
        /\ events'[t.id] = WithEvent(t.id, t.exp + 1, t.day)
        /\ t.child # None =>
              /\ rows'[t.child] = Row(1, w, t)
              /\ events'[t.child] = WithEvent(t.child, 1, t.day)
              /\ t.child \notin born /\ t.op = "divide"
        /\ \A i \in Ids \ {t.id, t.child} : rows'[i] = rows[i] /\ events'[i] = events[i]
        /\ born' = born \cup ({t.id, t.child} \ {None})
        /\ \/ t.op = "create" /\ t.id \notin born /\ t.exp = 0 /\ t.child = None
           \/ t.op # "create" /\ t.id \in born /\ rows[t.id] \in RowType /\ rows[t.id].ver = t.exp
        /\ t.exp \in Nat /\ t.day \in Days /\ t.part \in {Default, t.day}
        /\ Row(t.exp + 1, w, t) \in RowType /\ Row(1, w, t) \in RowType
        /\ rows' \in [Ids -> RowType \cup {None}] /\ events' \in [Ids -> SUBSET EventType]
    BY CommitWrites
  <1>2. tx' = [tx EXCEPT ![w] = Idle] /\ UNCHANGED <<parts, retire, queue>> /\ t.pc = "commit"
    BY DEF Commit
  <1>3. tx'[w] = Idle /\ \A v \in Writers \ {w} : tx'[v] = tx[v]
    BY <1>2 DEF IInv, TypeOK
  <1>4. \A v \in Writers \ {w} : \A i \in New(v) : i \in Ids /\ i \notin {t.id, t.child} /\ i \notin born
    <2>1. \A v \in Writers : New(v) \subseteq Ids
      BY DEF IInv, CallInv, New, Idle
    <2> QED
      BY <2>1 DEF IInv, NewInv
  <1> HIDE DEF t
  <1>5. TypeOK'
    <2>1. Idle \in CallType
      BY DEF Idle, CallType, Places, Default
    <2> QED
      BY <1>1, <1>2, <2>1 DEF IInv, TypeOK
  <1>6. CallInv'
    BY <1>1, <1>3 DEF IInv, CallInv
  <1>7. NewInv'
    <2>1. New(w)' = {} /\ \A v \in Writers \ {w} : New(v)' = New(v)
      BY <1>3 DEF New, Idle
    <2>2. tx'[w].id = None /\ tx'[w].child = None
      BY <1>3 DEF Idle
    <2> QED
      BY <1>1, <1>3, <1>4, <2>1, <2>2 DEF IInv, NewInv
  <1>8. LockInv'
    <2>1. tx'[w].pc # "commit"
      BY <1>3 DEF Idle
    <2>2. ASSUME NEW v \in Writers \ {w}, tx[v].pc = "commit"
          PROVE  /\ tx[v].op # "create" => rows'[tx[v].id] = rows[tx[v].id]
                 /\ tx[v].id # t.id
      <3>1. tx[v].id \in Ids /\ (tx[v].op # "create" => tx[v].id \in born)
        BY <2>2 DEF IInv, CallInv, Idle
      <3>2. tx[v].id # t.id
        BY <1>2, <2>2 DEF IInv, LockInv, t
      <3> QED
        BY <1>1, <3>1, <3>2
    <2> QED
      BY <1>3, <2>1, <2>2 DEF IInv, LockInv
  <1>9. BornInv'
    BY <1>1, <1>2 DEF IInv, BornInv
  <1>10. PlaceInv'
    <2>1. \A i \in {t.id, t.child} \ {None} : rows'[i].part = t.part /\ rows'[i].day = t.day
      BY <1>1 DEF Row
    <2>2. \A i \in Ids \ {t.id, t.child} : i \in Live' => i \in Live /\ rows'[i] = rows[i]
      BY <1>1 DEF Live
    <2>3. \A i \in Live' : rows'[i].part \in {Default, rows'[i].day}
      BY <1>1, <2>1, <2>2 DEF IInv, PlaceInv, Live
    <2> QED
      BY <1>2, <2>3 DEF IInv, PlaceInv
  <1>11. ASSUME NEW i \in {t.id, t.child} \ {None}
         PROVE  /\ i \in Ids /\ \A e \in events[i] : e \in EventType /\ e.ver < rows'[i].ver
                /\ rows'[i].ver \in Nat
                /\ events'[i] = WithEvent(i, rows'[i].ver, t.day)
    <2>1. i \in Ids /\ events[i] \subseteq EventType
      BY <1>1 DEF IInv, TypeOK
    <2>2. CASE i \notin born
      <3>1. events[i] = {}
        BY <2>1, <2>2 DEF IInv, BornInv
      <3> QED
        BY <1>1, <2>1, <2>2, <3>1 DEF Row
    <2>3. CASE i \in born
      <3>1. i = t.id /\ rows[i] \in RowType /\ rows[i].ver = t.exp
        BY <1>1, <2>3
      <3>2. i \in Live
        BY <2>1, <3>1 DEF Live, RowType, Places, Default
      <3>3. \A e \in events[i] : e.ver <= t.exp
        BY <3>1, <3>2 DEF IInv, EventInv
      <3>4. rows'[i].ver = t.exp + 1 /\ t.exp \in Nat
        BY <1>1, <3>1 DEF Row
      <3> QED
        BY <1>1, <2>1, <3>1, <3>3, <3>4 DEF EventType
    <2> QED
      BY <2>2, <2>3
  <1>12. ASSUME NEW i \in {t.id, t.child} \ {None}
         PROVE  /\ \A e \in events'[i] :
                      \/ e \in events[i] /\ e \in EventType /\ e.seq <= lastSeq(i) /\ e.ver < rows'[i].ver
                      \/ e.seq = lastSeq(i) + 1 /\ e.ver = rows'[i].ver
                /\ lastSeq(i) \in Nat /\ rows'[i].ver \in Nat
    BY <1>11, LastSeq DEF WithEvent
  <1>13. EventInv'
    <2>1. ASSUME NEW i \in Live', NEW e \in events'[i] PROVE e.ver <= rows'[i].ver
      <3>1. CASE i \in {t.id, t.child}
        <4>1. i \in {t.id, t.child} \ {None}
          BY <2>1, <3>1 DEF Live
        <4> QED
          BY <1>12, <2>1, <4>1 DEF EventType
      <3>2. CASE i \notin {t.id, t.child}
        BY <1>1, <2>1, <3>2 DEF Live, IInv, EventInv
      <3> QED
        BY <3>1, <3>2
    <2>2. ASSUME NEW i \in Ids PROVE \E n \in Nat : \A e \in events'[i] : e.seq <= n
      <3>1. CASE i \in {t.id, t.child}
        <4>1. i \in {t.id, t.child} \ {None}
          BY <2>2, <3>1
        <4>2. lastSeq(i) + 1 \in Nat /\ \A e \in events'[i] : e.seq <= lastSeq(i) + 1
          BY <1>12, <4>1 DEF EventType
        <4> QED
          BY <4>2
      <3>2. CASE i \notin {t.id, t.child}
        BY <1>1, <2>2, <3>2 DEF IInv, EventInv
      <3> QED
        BY <3>1, <3>2
    <2> QED
      BY <2>1, <2>2 DEF EventInv
  <1>14. EventsInOrder'
    <2> SUFFICES ASSUME NEW i \in Ids, NEW e \in events'[i], NEW f \in events'[i], e.ver < f.ver
                 PROVE  e.seq < f.seq
      BY DEF EventsInOrder
    <2>1. CASE i \in {t.id, t.child}
      <3>1. i \in {t.id, t.child} \ {None}
        BY <2>1
      <3> QED
        BY <1>12, <3>1 DEF IInv, EventsInOrder, EventType
    <2>2. CASE i \notin {t.id, t.child}
      BY <1>1, <2>2 DEF IInv, EventsInOrder
    <2> QED
      BY <2>1, <2>2
  <1> QED
    BY <1>5, <1>6, <1>7, <1>8, <1>9, <1>10, <1>13, <1>14 DEF IInv

(* Every action keeps IInv. *)
LEMMA InvStep == IInv /\ [Next]_vars => IInv'
  <1> SUFFICES ASSUME IInv, [Next]_vars PROVE IInv'
    OBVIOUS
  <1> USE NoneAssumption, PostgresAssumption
  <1>0. /\ rows \in [Ids -> RowType \cup {None}] /\ born \subseteq Ids
        /\ events \in [Ids -> SUBSET EventType] /\ parts \in [Tables -> SUBSET Days]
        /\ tx \in [Writers -> CallType] /\ retire \in RetireType
        /\ queue \in [Ids -> {"none", "pending", "worked"}]
    BY DEF IInv, TypeOK
  <1>a. /\ \A i \in Ids \ born : queue[i] = "none"
        /\ \A p \in retire.drop : Past(p[2], retire.cutoff)
    BY DEF IInv, BornInv, PlaceInv
  <1>b. Idle \in CallType
    BY DEF Idle, CallType, Places, Default
  <1>1. ASSUME NEW w \in Writers, NEW op \in {"create", "update", "divide"},
               NEW id \in Ids, NEW child \in Ids, NEW d \in Days, Call(w, op, id, child, d)
        PROVE  IInv'
    BY <1>1, CallStep
  <1>2. ASSUME NEW w \in Writers, ensurePartitions(w) PROVE IInv'
    <2> DEFINE p == IF tx[w].day \in cache.have \cup cache.failed THEN "statement" ELSE "wait"
               t == [tx[w] EXCEPT !.pc = p]
    <2>1. tx' = [tx EXCEPT ![w] = t] /\ UNCHANGED Tabled /\ tx[w].pc = "ensure"
      BY <1>2 DEF ensurePartitions, Tabled
    <2>2. p \in {"statement", "wait"}
      OBVIOUS
    <2> HIDE DEF p
    <2>3. t \in CallType /\ t.pc \in {"statement", "wait"} /\ t.op = tx[w].op /\ t.id = tx[w].id
          /\ t.child = tx[w].child /\ t.day = tx[w].day /\ t.exp = tx[w].exp /\ t.part = tx[w].part
      BY <1>0, <2>2 DEF CallType
    <2>4. tx[w] # Idle /\ t.part \in {Default, t.day}
      BY <2>1, <2>3 DEF Idle, IInv, CallInv
    <2> HIDE DEF t
    <2> QED
      BY <2>1, <2>3, <2>4, CallGoesOn
  <1>3. ASSUME NEW w \in Writers, WaitOver(w) PROVE IInv'
    <2>1. UNCHANGED Tabled /\ tx[w].pc = "wait"
      BY <1>3 DEF WaitOver, Tabled
    <2>2. CASE tx' = [tx EXCEPT ![w].pc = "statement"]
      <3> DEFINE t == [tx[w] EXCEPT !.pc = "statement"]
      <3>1. tx' = [tx EXCEPT ![w] = t]
        BY <2>2
      <3>2. t \in CallType /\ t.pc = "statement" /\ t.op = tx[w].op /\ t.id = tx[w].id
            /\ t.child = tx[w].child /\ t.day = tx[w].day /\ t.exp = tx[w].exp /\ t.part = tx[w].part
        BY <1>0 DEF CallType
      <3>3. tx[w] # Idle /\ t.part \in {Default, t.day}
        BY <2>1, <3>2 DEF Idle, IInv, CallInv
      <3> HIDE DEF t
      <3> QED
        BY <2>1, <3>1, <3>2, <3>3, CallGoesOn
    <2>3. CASE tx' = [tx EXCEPT ![w] = Idle]
      BY <1>b, <2>1, <2>3, CallGoesOn
    <2> QED
      BY <1>3, <2>2, <2>3 DEF WaitOver
  <1>4. ASSUME NEW w \in Writers, Statements(w) PROVE IInv'
    <2>1. UNCHANGED Tabled /\ tx[w].pc = "statement" /\ ~Locked(tx[w].id)
      BY <1>4 DEF Statements, Tabled
    <2>2. CASE Refused(tx[w])
      <3>1. tx' = [tx EXCEPT ![w] = Idle]
        BY <1>4, <2>2 DEF Statements
      <3> QED
        BY <1>b, <2>1, <3>1, CallGoesOn
    <2>3. CASE ~Refused(tx[w])
      <3> DEFINE r == Routed("pnr", tx[w].day)
                 t == [tx[w] EXCEPT !.pc = "commit", !.part = r]
      <3>1. tx' = [tx EXCEPT ![w] = t]
        BY <1>4, <2>3 DEF Statements
      <3>2. r \in {Default, tx[w].day} /\ r \in Places
        BY <1>0 DEF Routed, Places, CallType
      <3> HIDE DEF r
      <3>3. t \in CallType /\ t.pc = "commit" /\ t.op = tx[w].op /\ t.id = tx[w].id
            /\ t.child = tx[w].child /\ t.day = tx[w].day /\ t.exp = tx[w].exp /\ t.part = r
        <4>1. tx[w] \in CallType
          BY <1>0
        <4>2. t \in CallType
          BY <3>2, <4>1 DEF CallType
        <4> QED
          BY <4>1, <4>2 DEF CallType
      <3>4. tx[w] # Idle
        BY <2>1 DEF Idle
      <3>5. tx[w].op # "create" => rows[tx[w].id] # None /\ rows[tx[w].id].ver = tx[w].exp
        BY <2>3 DEF Refused
      <3> HIDE DEF t
      <3> QED
        BY <2>1, <3>1, <3>2, <3>3, <3>4, <3>5, CallGoesOn
    <2> QED
      BY <2>2, <2>3
  <1>5. ASSUME NEW w \in Writers, Commit(w) PROVE IInv'
    BY <1>5, CommitStep
  <1>6. ASSUME NEW w \in Writers, Rollback(w) PROVE IInv'
    <2>1. UNCHANGED Tabled /\ tx' = [tx EXCEPT ![w] = Idle]
      BY <1>6 DEF Rollback, Tabled
    <2> QED
      BY <1>b, <2>1, CallGoesOn
  <1>7. ASSUME NEW d \in Days, LookAtDefault(d) \/ RetryDue(d) PROVE IInv'
    <2>1. UNCHANGED <<rows, born, events, parts, tx, retire, queue>>
      BY <1>7 DEF LookAtDefault, RetryDue
    <2> QED
      BY <1>0, <1>a, <2>1, ShrinkingKeeps DEF Shrinks
  <1>8. ASSUME NEW d \in Days, MakePartition(d) PROVE IInv'
    <2>1. UNCHANGED <<rows, born, events, tx, retire, queue>>
      BY <1>8 DEF MakePartition
    <2>2. parts' \in [Tables -> SUBSET Days]
      <3>1. parts' = parts \/ parts' = [t \in DOMAIN parts |-> parts[t] \cup {d}]
        BY <1>8 DEF MakePartition
      <3> QED
        BY <1>0, <3>1
    <2> QED
      BY <1>0, <1>a, <2>1, <2>2, ShrinkingKeeps DEF Shrinks
  <1>9. ASSUME NEW c \in Cutoffs, NEW here \in BOOLEAN, RetireBefore(c, here) PROVE IInv'
    <2> DEFINE drop == {p \in (DOMAIN parts) \X Days : p[2] \in parts[p[1]] /\ Past(p[2], c)}
    <2>1. UNCHANGED <<rows, born, events, parts, tx, queue>>
          /\ retire' = [pc |-> "drop", cutoff |-> c, here |-> here, drop |-> drop]
      BY <1>9 DEF RetireBefore
    <2>2. drop \in SUBSET (Tables \X Days) /\ \A p \in drop : Past(p[2], c)
      BY <1>0
    <2> HIDE DEF drop
    <2>3. retire' \in RetireType /\ retire'.drop = drop /\ retire'.cutoff = c
      BY <2>1, <2>2 DEF RetireType
    <2> QED
      BY <1>0, <1>a, <2>1, <2>2, <2>3, ShrinkingKeeps DEF Shrinks
  <1>10. ASSUME NEW t \in Tables, NEW d \in Days, DropPartition(t, d) PROVE IInv'
    <2>1. UNCHANGED <<born, tx, queue>> /\ parts' = [parts EXCEPT ![t] = @ \ {d}]
          /\ retire' = [retire EXCEPT !.drop = @ \ {<<t, d>>}] /\ TablesFree
      BY <1>10 DEF DropPartition
    <2>2. parts' \in [Tables -> SUBSET Days]
      BY <1>0, <2>1
    <2>3. retire' \in RetireType /\ \A p \in retire'.drop : Past(p[2], retire'.cutoff)
      BY <1>0, <1>a, <2>1 DEF RetireType
    <2>4. \A i \in Ids : ~Locked(i)
      BY <2>1 DEF TablesFree, Locked
    <2>5. rows' \in [Ids -> RowType \cup {None}] /\ \A i \in Ids : rows'[i] = rows[i] \/ rows'[i] = None
      BY <1>0, <1>10 DEF DropPartition, RowsGone
    <2>6. events' \in [Ids -> SUBSET EventType] /\ \A i \in Ids : events'[i] \subseteq events[i]
      BY <1>0, <1>10 DEF DropPartition
    <2> QED
      BY <1>0, <1>a, <2>1, <2>2, <2>3, <2>4, <2>5, <2>6, ShrinkingKeeps DEF Shrinks
  <1>11. CASE RetireRecords
    <2>1. UNCHANGED <<born, events, parts, tx, queue>> /\ retire' = [retire EXCEPT !.pc = "events"]
      BY <1>11 DEF RetireRecords
    <2>2. retire' \in RetireType /\ retire'.drop = retire.drop /\ retire'.cutoff = retire.cutoff
      BY <1>0, <2>1 DEF RetireType
    <2>3. rows' \in [Ids -> RowType \cup {None}]
          /\ \A i \in Ids : rows'[i] = rows[i] \/ (rows'[i] = None /\ ~Locked(i))
      BY <1>0, <1>11 DEF RetireRecords, RowsGone
    <2> QED
      BY <1>0, <1>a, <2>1, <2>2, <2>3, ShrinkingKeeps DEF Shrinks
  <1>12. CASE RetireEvents
    <2>1. UNCHANGED <<rows, born, parts, tx, queue>> /\ retire' = [retire EXCEPT !.pc = "queue"]
      BY <1>12 DEF RetireEvents
    <2>2. retire' \in RetireType /\ retire'.drop = retire.drop /\ retire'.cutoff = retire.cutoff
      BY <1>0, <2>1 DEF RetireType
    <2>3. events' \in [Ids -> SUBSET EventType] /\ \A i \in Ids : events'[i] \subseteq events[i]
      BY <1>0, <1>12 DEF RetireEvents
    <2> QED
      BY <1>0, <1>a, <2>1, <2>2, <2>3, ShrinkingKeeps DEF Shrinks
  <1>13. CASE RetireQueue
    <2>1. UNCHANGED <<rows, born, events, parts, tx>> /\ retire' = [retire EXCEPT !.pc = "count"]
          /\ queue' = [i \in Ids |-> IF i \in Live THEN queue[i] ELSE "none"]
      BY <1>13 DEF RetireQueue
    <2>2. retire' \in RetireType /\ retire'.drop = retire.drop /\ retire'.cutoff = retire.cutoff
      BY <1>0, <2>1 DEF RetireType
    <2> QED
      BY <1>0, <1>a, <2>1, <2>2, ShrinkingKeeps DEF Shrinks
  <1>14. CASE RetireFails
    <2>1. UNCHANGED <<rows, born, events, parts, tx, queue>>
          /\ retire' = [retire EXCEPT !.pc = "idle", !.drop = {}]
      BY <1>14 DEF RetireFails
    <2>2. retire' \in RetireType /\ retire'.drop = {}
      BY <1>0, <2>1 DEF RetireType
    <2> QED
      BY <1>0, <1>a, <2>1, <2>2, ShrinkingKeeps DEF Shrinks
  <1>15. ASSUME NEW i \in Ids, Enqueue(i) \/ WorkQueueItem(i) PROVE IInv'
    <2>1. UNCHANGED <<rows, born, events, parts, tx, retire>> /\ i \in born
          /\ queue' \in [Ids -> {"none", "pending", "worked"}] /\ \A j \in Ids \ {i} : queue'[j] = queue[j]
      BY <1>0, <1>a, <1>15 DEF Enqueue, WorkQueueItem
    <2> QED
      BY <1>0, <1>a, <2>1, ShrinkingKeeps DEF Shrinks
  <1>16. CASE UNCHANGED vars
    BY <1>0, <1>a, <1>16, ShrinkingKeeps DEF vars, Shrinks
  <1>17. CASE CountRecords \/ CountEvents
    <2>1. UNCHANGED <<rows, born, events, parts, tx, queue>>
          /\ \E pc \in {"truncate", "countEvents", "truncateEvents", "idle"} :
                retire' = [retire EXCEPT !.pc = pc]
      BY <1>17 DEF CountRecords, CountEvents
    <2>2. retire' \in RetireType /\ retire'.drop = retire.drop /\ retire'.cutoff = retire.cutoff
      BY <1>0, <2>1 DEF RetireType
    <2> QED
      BY <1>0, <1>a, <2>1, <2>2, ShrinkingKeeps DEF Shrinks
  <1>18. CASE TruncateRecords
    <2>1. UNCHANGED <<born, events, parts, tx, queue>> /\ TablesFree
          /\ retire' = [retire EXCEPT !.pc = "countEvents"]
      BY <1>18 DEF TruncateRecords
    <2>2. retire' \in RetireType /\ retire'.drop = retire.drop /\ retire'.cutoff = retire.cutoff
      BY <1>0, <2>1 DEF RetireType
    <2>3. \A i \in Ids : ~Locked(i)
      BY <2>1 DEF TablesFree, Locked
    <2>4. rows' \in [Ids -> RowType \cup {None}] /\ \A i \in Ids : rows'[i] = rows[i] \/ rows'[i] = None
      BY <1>0, <1>18 DEF TruncateRecords, RowsGone
    <2> QED
      BY <1>0, <1>a, <2>1, <2>2, <2>3, <2>4, ShrinkingKeeps DEF Shrinks
  <1>19. CASE TruncateEvents
    <2>1. UNCHANGED <<rows, born, parts, tx, queue>> /\ retire' = [retire EXCEPT !.pc = "idle"]
      BY <1>19 DEF TruncateEvents
    <2>2. retire' \in RetireType /\ retire'.drop = retire.drop /\ retire'.cutoff = retire.cutoff
      BY <1>0, <2>1 DEF RetireType
    <2>3. events' \in [Ids -> SUBSET EventType] /\ \A i \in Ids : events'[i] \subseteq events[i]
      BY <1>0, <1>19 DEF TruncateEvents
    <2> QED
      BY <1>0, <1>a, <2>1, <2>2, <2>3, ShrinkingKeeps DEF Shrinks
  <1> QED
    BY <1>1, <1>2, <1>3, <1>4, <1>5, <1>6, <1>7, <1>8, <1>9, <1>10, <1>11, <1>12, <1>13, <1>14,
       <1>15, <1>16, <1>17, <1>18, <1>19 DEF Next, Step, Tables

(* Rows, events, partitions and transactions keep their types. *)
THEOREM TypeCorrect == Spec => []TypeOK
  <1>1. IInv => TypeOK
    BY DEF IInv
  <1> QED
    BY InitInv, InvStep, <1>1, PTL DEF Spec

(* Two writes of a record never number their events alike, nor against     *)
(* their order, whichever partitions the events went to and whatever was   *)
(* retired between (postgres.go insertEvents, lastSeq).                    *)
THEOREM EventsNumberedInOrder == Spec => []EventsInOrder
  <1>1. IInv => EventsInOrder
    BY DEF IInv
  <1> QED
    BY InitInv, InvStep, <1>1, PTL DEF Spec

(* Between the count and the TRUNCATE, all there is in the default         *)
(* partition was committed to it since.                                    *)
LateInv == retire.pc = "truncate" => \A i \in Live : rows[i].part = Default => i \in late

(* COMMIT notes what it brings to the default partition. *)
LEMMA CommitLate ==
    ASSUME IInv, LateInv, NEW w \in Writers, Commit(w)
    PROVE  LateInv'
  <1> USE NoneAssumption
  <1> DEFINE t == tx[w]
             ids == IF t.child = None THEN <<t.id>> ELSE <<t.child, t.id>>
  <1> SUFFICES ASSUME retire'.pc = "truncate", NEW i \in Live', rows'[i].part = Default
               PROVE  i \in late'
    BY DEF LateInv
  <1>1. /\ retire.pc = "truncate"
        /\ late' = IF retire.pc = "truncate" /\ t.part = Default THEN late \cup ToSet(ids) ELSE late
    BY DEF Commit
  <1>2. i \in Ids /\ rows'[i] # None
    BY DEF Live
  <1>3. /\ rows'[t.id] = Row(t.exp + 1, w, t) /\ t.id \in Ids
        /\ t.child # None => rows'[t.child] = Row(1, w, t)
        /\ \A j \in Ids \ {t.id, t.child} : rows'[j] = rows[j]
    BY CommitWrites
  <1>4. CASE i \in {t.id, t.child}
    <2>1. t.part = Default
      BY <1>2, <1>3, <1>4 DEF Row
    <2>2. i \in ToSet(ids)
      <3>1. CASE t.child = None
        BY <1>2, <1>4, <3>1 DEF ToSet
      <3>2. CASE t.child # None
        BY <1>2, <1>4, <3>2 DEF ToSet
      <3> QED
        BY <3>1, <3>2
    <2> QED
      BY <1>1, <2>1, <2>2
  <1>5. CASE i \notin {t.id, t.child}
    <2>1. i \in Live /\ rows[i].part = Default
      BY <1>2, <1>3, <1>5 DEF Live
    <2> QED
      BY <1>1, <2>1 DEF LateInv
  <1> QED
    BY <1>4, <1>5

(* The other steps bring nothing there. *)
LEMMA LateStep == IInv /\ LateInv /\ [Next]_vars => LateInv'
  <1> SUFFICES ASSUME IInv, LateInv, [Next]_vars PROVE LateInv'
    OBVIOUS
  <1> DEFINE Quiet == rows' = rows /\ late' = late /\ (retire'.pc = "truncate" => retire.pc = "truncate")
  <1>1. ASSUME Quiet PROVE LateInv'
    BY <1>1 DEF LateInv, Live
  <1>0. retire \in RetireType
    BY DEF IInv, TypeOK
  <1>2. ASSUME NEW w \in Writers, Commit(w) PROVE LateInv'
    BY <1>2, CommitLate
  <1>3. ASSUME NEW t \in Tables, NEW d \in Days, DropPartition(t, d) PROVE LateInv'
    BY <1>0, <1>3 DEF DropPartition, LateInv, RetireType
  <1>4. CASE RetireRecords \/ RetireEvents \/ RetireQueue \/ RetireFails \/ CountEvents \/ TruncateEvents
             \/ TruncateRecords
    BY <1>0, <1>4 DEF RetireRecords, RetireEvents, RetireQueue, RetireFails, CountEvents, TruncateEvents,
       TruncateRecords, LateInv, RetireType
  <1>5. CASE CountRecords
    <2>1. CASE retire' = [retire EXCEPT !.pc = "truncate"] /\ \A i \in Live : rows[i].part # Default
      BY <1>5, <2>1 DEF CountRecords, LateInv, Live
    <2>2. CASE retire' = [retire EXCEPT !.pc = "countEvents"]
      BY <1>0, <2>2 DEF LateInv, RetireType
    <2> QED
      BY <1>5, <2>1, <2>2 DEF CountRecords
  <1>6. CASE \E c \in Cutoffs, here \in BOOLEAN : RetireBefore(c, here)
    BY <1>6 DEF RetireBefore, LateInv
  <1>7. CASE \E w \in Writers, op \in {"create", "update", "divide"}, id, child \in Ids, d \in Days :
                Call(w, op, id, child, d)
    BY <1>1, <1>7 DEF Call
  <1>8. ASSUME NEW w \in Writers, ensurePartitions(w) \/ WaitOver(w) \/ Statements(w) \/ Rollback(w)
        PROVE  LateInv'
    BY <1>1, <1>8 DEF ensurePartitions, WaitOver, Statements, Rollback
  <1>9. ASSUME NEW d \in Days, LookAtDefault(d) \/ MakePartition(d) \/ RetryDue(d) PROVE LateInv'
    BY <1>1, <1>9 DEF LookAtDefault, MakePartition, RetryDue
  <1>10. ASSUME NEW i \in Ids, Enqueue(i) \/ WorkQueueItem(i) PROVE LateInv'
    BY <1>1, <1>10 DEF Enqueue, WorkQueueItem
  <1>11. CASE UNCHANGED vars
    BY <1>1, <1>11 DEF vars
  <1> QED
    BY <1>2, <1>3, <1>4, <1>5, <1>6, <1>7, <1>8, <1>9, <1>10, <1>11 DEF Next, Step, Tables

(* Retirement takes no record whose day has not begun by the cutoff,       *)
(* though records are written and moved between its statements, except     *)
(* what was committed to the default partition between the count that      *)
(* found it empty and its TRUNCATE (postgres.go RetireBefore).             *)
THEOREM RetiresOnlyTheDue == Spec => OnlyTheDue
  <1> DEFINE P == \A i \in Ids : rows[i] # None /\ rows'[i] = None =>
                     \/ retire.pc = "drop" /\ 2 * rows[i].day < retire.cutoff
                     \/ i \in late
  <1>1. IInv /\ LateInv /\ [Next]_vars => [P]_vars
    <2> SUFFICES ASSUME IInv, LateInv, Next, NEW i \in Ids, rows[i] # None, rows'[i] = None
                 PROVE  \/ retire.pc = "drop" /\ 2 * rows[i].day < retire.cutoff
                        \/ i \in late
      OBVIOUS
    <2> USE NoneAssumption, PostgresAssumption
    <2>1. /\ i \in Live /\ rows[i] \in RowType /\ rows[i].day \in Nat
          /\ rows[i].part \in {Default, rows[i].day} /\ retire.cutoff \in Nat
      BY DEF Live, IInv, TypeOK, PlaceInv, RowType, RetireType
    <2>2. rows' # rows
      OBVIOUS
    <2>3. ASSUME NEW w \in Writers, Commit(w) PROVE FALSE
      <3>1. /\ rows'[tx[w].id] \in RowType
            /\ tx[w].child # None => rows'[tx[w].child] \in RowType
            /\ \A j \in Ids \ {tx[w].id, tx[w].child} : rows'[j] = rows[j]
        BY <2>3, CommitWrites
      <3>2. None \notin RowType
        BY DEF RowType, Places, Default
      <3> QED
        BY <3>1, <3>2
    <2>4. ASSUME NEW t \in Tables, NEW d \in Days, DropPartition(t, d)
          PROVE  retire.pc = "drop" /\ 2 * rows[i].day < retire.cutoff
      <3>1. rows[i].part = d /\ retire.pc = "drop" /\ <<t, d>> \in retire.drop
        BY <2>2, <2>4 DEF DropPartition, RowsGone
      <3>2. Past(d, retire.cutoff)
        BY <3>1 DEF IInv, PlaceInv
      <3>3. rows[i].day = d /\ d \in Nat
        BY <2>1, <3>1 DEF Default
      <3> QED
        BY <2>1, <3>1, <3>2, <3>3 DEF Past
    <2>5. CASE RetireRecords
      BY <2>5 DEF RetireRecords, RowsGone, DueInDefault
    <2>6. CASE TruncateRecords
      BY <2>1, <2>6 DEF TruncateRecords, RowsGone, LateInv
    <2> QED
      BY <2>2, <2>3, <2>4, <2>5, <2>6 DEF Next, Step, Tables, Call, ensurePartitions, WaitOver, Statements,
         Rollback, LookAtDefault, MakePartition, RetryDue, RetireBefore, RetireEvents, RetireQueue,
         RetireFails, CountRecords, CountEvents, TruncateEvents, Enqueue, WorkQueueItem
  <1>2. Init => LateInv
    BY DEF Init, LateInv
  <1> QED
    BY InitInv, InvStep, LateStep, <1>1, <1>2, PTL DEF Spec, OnlyTheDue

---------------------------------------------------------------------------
(* The refinement.                                                         *)

(* The book starts with what the database holds. *)
LEMMA InitBook == Init => B!Init
  <1> SUFFICES ASSUME Init PROVE B!Init
    OBVIOUS
  <1> USE PostgresAssumption, NoneAssumption, MinDay
  <1>1. PICK p \in {Min(Days), Default} :
          rows = [i \in Ids |-> IF i = First THEN [ver |-> 1, by |-> None, day |-> Min(Days), part |-> p]
                                ELSE None]
    BY DEF Init
  <1>2. queue = [i \in Ids |-> "none"]
    BY DEF Init
  <1>3. \A i \in Ids : rows[i] # None => rows[i].ver = 1 /\ rows[i].by = None
    BY <1>1
  <1> QED
    BY <1>2, <1>3 DEF B!Init

(* A creation and a division of the in-memory store are steps of the book. *)
LEMMA BookCalls ==
    ASSUME NEW w \in Writers, NEW i \in Ids, NEW child \in Ids
    PROVE  /\ B!CreatePNR(w, i) => B!Next
           /\ i # child /\ B!DividePNR(w, i, [j \in Ids |-> IF rows[j] = None THEN None ELSE rows[j].ver][i],
                                       child) => B!Next
  BY Zenon DEF B!Next

(* A COMMIT is the call of the in-memory store it stands for. *)
LEMMA CommitBook ==
    ASSUME IInv, NEW w \in Writers, Commit(w)
    PROVE  B!Next
  <1> USE NoneAssumption
  <1> DEFINE t == tx[w]
             V == [i \in Ids |-> IF rows[i] = None THEN None ELSE rows[i].ver]
             Y == [i \in Ids |-> IF rows[i] = None THEN None ELSE rows[i].by]
             Q == [i \in Ids |-> IF rows[i] = None THEN "none" ELSE queue[i]]
  <1>1. /\ t.id \in Ids /\ t.child \in Ids \cup {None} /\ t.id # t.child
        /\ rows'[t.id] = Row(t.exp + 1, w, t)
        /\ t.child # None =>
              rows'[t.child] = Row(1, w, t) /\ t.child \notin born /\ t.op = "divide"
        /\ \A i \in Ids \ {t.id, t.child} : rows'[i] = rows[i]
        /\ \/ t.op = "create" /\ t.id \notin born /\ t.exp = 0 /\ t.child = None
           \/ t.op # "create" /\ t.id \in born /\ rows[t.id] \in RowType /\ rows[t.id].ver = t.exp
        /\ t.exp \in Nat /\ Row(t.exp + 1, w, t) \in RowType /\ Row(1, w, t) \in RowType
    BY CommitWrites
  <1>2. queue' = queue
    BY DEF Commit
  <1>3. None \notin RowType
    BY DEF RowType, Places, Default
  <1>4. \A i \in Ids \ born : rows[i] = None /\ queue[i] = "none"
    BY DEF IInv, BornInv
  <1> HIDE DEF t
  <1>5. V'[t.id] = t.exp + 1 /\ Y'[t.id] = w
    BY <1>1, <1>3 DEF Row
  <1>6. t.child # None => V'[t.child] = 1 /\ Y'[t.child] = w /\ V[t.child] = None
    BY <1>1, <1>3, <1>4 DEF Row
  <1>7. \A i \in Ids \ {t.id, t.child} : V'[i] = V[i] /\ Y'[i] = Y[i]
    BY <1>1
  <1>8. Q' = Q
    <2>1. \A i \in Ids : Q'[i] = Q[i]
      BY <1>1, <1>2, <1>3, <1>4
    <2> QED
      BY <2>1
  <1>d. /\ V = [i \in Ids |-> V[i]] /\ V' = [i \in Ids |-> V'[i]]
        /\ Y = [i \in Ids |-> Y[i]] /\ Y' = [i \in Ids |-> Y'[i]]
    OBVIOUS
  <1>i. PICK id \in Ids : id = t.id
    BY <1>1
  <1>9. CASE t.op = "create"
    <2>1. V[id] = None /\ V'[id] = 1
      BY <1>1, <1>4, <1>5, <1>9, <1>i
    <2>2. V' = [V EXCEPT ![id] = 1] /\ Y' = [Y EXCEPT ![id] = w]
      <3> HIDE DEF V, Y
      <3> QED
        BY <1>d, <1>1, <1>5, <1>7, <1>9, <1>i, <2>1
    <2>3. B!CreatePNR(w, id)
      BY <1>8, <2>1, <2>2 DEF B!CreatePNR
    <2> QED
      BY <2>3, BookCalls
  <1>10. CASE t.op # "create" /\ t.child = None
    <2>1. V[id] = t.exp /\ V[id] # None
      BY <1>1, <1>3, <1>10, <1>i
    <2>2. V' = [V EXCEPT ![id] = V[id] + 1] /\ Y' = [Y EXCEPT ![id] = w]
      <3> HIDE DEF V, Y
      <3> QED
        BY <1>d, <1>1, <1>5, <1>7, <1>10, <1>i, <2>1
    <2>3. B!UpdatePNR(w, id, V[id])
      BY <1>8, <2>1, <2>2 DEF B!UpdatePNR
    <2> QED
      BY <2>3, Zenon DEF B!Next, B!UpdatePNR
  <1>11. CASE t.child # None
    <2>1. V[id] = t.exp /\ V[id] # None
      BY <1>1, <1>3, <1>11, <1>i
    <2>2. PICK child \in Ids : child = t.child /\ child # id
      BY <1>1, <1>11, <1>i
    <2>3. /\ V' = [V EXCEPT ![id] = V[id] + 1, ![child] = 1]
          /\ Y' = [Y EXCEPT ![id] = w, ![child] = w]
      <3> HIDE DEF V, Y
      <3> QED
        BY <1>d, <1>1, <1>5, <1>6, <1>7, <1>11, <1>i, <2>1, <2>2
    <2>4. B!DividePNR(w, id, V[id], child)
      BY <1>6, <1>8, <1>11, <2>1, <2>2, <2>3 DEF B!DividePNR
    <2> QED
      BY <2>2, <2>4, BookCalls
  <1> QED
    BY <1>1, <1>9, <1>10, <1>11

(* Rows that go together leave the book together, and take what is queued  *)
(* for them along.                                                         *)
LEMMA GoneBook ==
    ASSUME IInv, NEW gone \in SUBSET Live, RowsGone(gone), queue' = queue
    PROVE  B!Next
  <1>1. gone \in SUBSET Ids /\ \A i \in gone : rows[i] # None
    BY DEF Live
  <1>2. \A i \in gone : rows[i].ver # None
    BY <1>1, NoneAssumption DEF IInv, TypeOK, RowType
  <1>3. B!Leave(gone)
    BY <1>1, <1>2 DEF B!Leave, RowsGone
  <1> QED
    BY <1>1, <1>3 DEF B!Next

(* Every step of the database is a step of the book, or none. *)
LEMMA StepBook == IInv /\ [Next]_vars => [B!Next]_(B!vars)
  <1> SUFFICES ASSUME IInv, [Next]_vars PROVE [B!Next]_(B!vars)
    OBVIOUS
  <1>1. ASSUME rows' = rows, queue' = queue PROVE B!vars' = B!vars
    BY <1>1 DEF B!vars
  <1>2. ASSUME NEW w \in Writers, Commit(w) PROVE B!Next
    BY <1>2, CommitBook
  <1>3. ASSUME NEW t \in Tables, NEW d \in Days, DropPartition(t, d) PROVE [B!Next]_(B!vars)
    <2>1. queue' = queue /\ (rows' = rows \/ RowsGone({i \in Live : rows[i].part = d}))
      BY <1>3 DEF DropPartition
    <2>2. {i \in Live : rows[i].part = d} \in SUBSET Live
      OBVIOUS
    <2> QED
      BY <1>1, <2>1, <2>2, GoneBook
  <1>4. CASE RetireRecords
    <2> DEFINE gone == {i \in Live : rows[i].part = Default /\ DueInDefault(rows[i].day, retire.cutoff)}
    <2>1. queue' = queue /\ RowsGone(gone) /\ gone \in SUBSET Live
      BY <1>4 DEF RetireRecords
    <2> QED
      BY <2>1, GoneBook
  <1>5. CASE RetireQueue
    <2>1. rows' = rows /\ queue' = [i \in Ids |-> IF i \in Live THEN queue[i] ELSE "none"]
      BY <1>5 DEF RetireQueue
    <2> QED
      BY <2>1 DEF B!vars, Live
  <1>6. ASSUME NEW i \in Ids, Enqueue(i) PROVE [B!Next]_(B!vars)
    <2>1. rows' = rows /\ queue' = [queue EXCEPT ![i] = "pending"] /\ queue[i] # "pending"
          /\ queue \in [Ids -> {"none", "pending", "worked"}]
      BY <1>6 DEF Enqueue, IInv, TypeOK
    <2>2. CASE rows[i] = None
      BY <2>1, <2>2 DEF B!vars
    <2>3. CASE rows[i] # None
      <3>1. rows[i].ver # None
        BY <2>3, NoneAssumption DEF IInv, TypeOK, RowType
      <3>2. B!Enqueue(i)
        BY <2>1, <2>3, <3>1 DEF B!Enqueue
      <3> QED
        BY <3>2 DEF B!Next
    <2> QED
      BY <2>2, <2>3
  <1>7. ASSUME NEW i \in Ids, WorkQueueItem(i) PROVE [B!Next]_(B!vars)
    <2>1. rows' = rows /\ queue' = [queue EXCEPT ![i] = "worked"] /\ queue[i] = "pending"
          /\ queue \in [Ids -> {"none", "pending", "worked"}]
      BY <1>7 DEF WorkQueueItem, IInv, TypeOK
    <2>2. CASE rows[i] = None
      BY <2>1, <2>2 DEF B!vars
    <2>3. CASE rows[i] # None
      <3>1. B!WorkQueueItem(i)
        BY <2>1, <2>3 DEF B!WorkQueueItem
      <3> QED
        BY <3>1 DEF B!Next
    <2> QED
      BY <2>2, <2>3
  <1>8. CASE UNCHANGED vars
    BY <1>1, <1>8 DEF vars
  <1>10. CASE TruncateRecords
    <2> DEFINE gone == {i \in Live : rows[i].part = Default}
    <2>1. queue' = queue /\ RowsGone(gone) /\ gone \in SUBSET Live
      BY <1>10 DEF TruncateRecords
    <2> QED
      BY <2>1, GoneBook
  <1>9. \/ \E w \in Writers : Commit(w)
        \/ \E t \in Tables, d \in Days : DropPartition(t, d)
        \/ RetireRecords \/ RetireQueue \/ TruncateRecords
        \/ \E i \in Ids : Enqueue(i) \/ WorkQueueItem(i)
        \/ UNCHANGED vars
        \/ rows' = rows /\ queue' = queue
    BY DEF Next, Step, Tables, Call, ensurePartitions, WaitOver, Statements, Rollback, LookAtDefault,
       MakePartition, RetryDue, RetireBefore, RetireEvents, RetireFails, CountRecords, CountEvents,
       TruncateEvents
  <1> QED
    BY <1>1, <1>2, <1>3, <1>4, <1>5, <1>6, <1>7, <1>8, <1>9, <1>10

(* What is committed is a book as the in-memory store keeps it: a record   *)
(* is replaced under the version its writer read, a division changes both  *)
(* records or neither, and what leaves takes its queue items with it,      *)
(* through overlapping transactions, partitions made and dropped, and      *)
(* retirement in several statements (postgres.go against mem.go).       *)
THEOREM DatabaseIsABook == Spec => BookSpec
  BY InitInv, InvStep, InitBook, StepBook, PTL DEF Spec, BookSpec, B!Spec

=============================================================================
