--------------------------- MODULE PipelineProofs ---------------------------
(***************************************************************************)
(* For any number of concurrent calls of IngestWith, any messages, any     *)
(* bound on the rows, the records, the retries and the faults: no update   *)
(* is lost, no failure is recorded as a success, and copies of a message   *)
(* that do not overlap are applied once.                                   *)
(***************************************************************************)
EXTENDS Pipeline, TLAPS

Active(w) == wk[w].pc # "idle"

(* The copy a worker holds is that of its record, with its own change, as  *)
(* long as the versions agree; the record never falls behind the copy.     *)
CopyFresh(w) ==
    LET c == wk[w].copy
        r == wk[w].rec
    IN  /\ c \in Record
        /\ wk[w].pc = "write" /\ r = 0 => c.state = {Applied(wk[w].row)}
        /\ wk[w].pc = "decide" \/ r # 0 =>
             /\ r \in DOMAIN recs /\ c.ver <= recs[r].ver
             /\ c.ver = recs[r].ver =>
                  /\ c.events = recs[r].events
                  /\ c.state = IF wk[w].pc = "write" THEN recs[r].state \cup {Applied(wk[w].row)}
                                                     ELSE recs[r].state

(* What a row that may be called applied has behind it. *)
Earned(i) ==
    /\ log[i].wire \notin Filed => Took(i)
    /\ log[i].wire \in Sells => i \in answered

(* What a call of IngestWith has done so far. *)
WorkerInv(w) ==
    /\ Active(w) => wk[w].row \in DOMAIN log
    /\ wk[w].pc \in {"write", "decide"} => CopyFresh(w)
    /\ wk[w].pc = "write" /\ wk[w].rec # 0 => Wire(w) \notin Sells
    /\ wk[w].pc \in {"decide", "answer"} => Took(wk[w].row)
    /\ wk[w].pc = "outcome" /\ wk[w].out = "applied" => Earned(wk[w].row)
    /\ wk[w].pc = "outcome" => wk[w].out \in Outcomes
    /\ wk[w].pc \in {"read", "write", "decide", "answer"} => Wire(w) \notin Junk \cup Filed

(* The trails name rows that were captured, and none that could not be     *)
(* read or that concerns no record.                                        *)
TrailInv == \A i \in Rows : Took(i) => i \in DOMAIN log /\ log[i].wire \notin Junk \cup Filed

(* Until an outcome or a lookup is lost: two calls with copies of a        *)
(* message are noted, a row that changed a record is indexed or still in   *)
(* the pipeline, and a call that passed the duplicate check is the only    *)
(* one of its message's copies to change a record.                         *)
OnceInv ==
    ~forgot =>
        /\ \A v, w \in Workers : v # w /\ Active(v) /\ Active(w) /\ Wire(v) = Wire(w)
                                     => Wire(w) \in crossed
        /\ \A i \in DOMAIN log : Took(i) => i \in indexed \/ \E w \in Workers : Active(w) /\ wk[w].row = i
        /\ \A w \in Workers : wk[w].pc \in {"read", "write"} /\ Wire(w) \notin crossed =>
              \A j \in DOMAIN log : j # wk[w].row /\ log[j].wire = Wire(w) => ~Took(j)

IInv ==
    /\ TypeOK /\ NoLostUpdate /\ StatusHonest /\ TrailInv
    /\ \A w \in Workers : WorkerInv(w)
    /\ OnceInv /\ AppliedOnce

---------------------------------------------------------------------------
(* Records and calls.                                                      *)

(* A record written under the next version with an effect in its trail. *)
LEMMA Updated ==
    ASSUME NEW c \in Record, NEW e \in Effects, NEW n,
           n = [c EXCEPT !.ver = @ + 1, !.events = @ \cup {e}]
    PROVE  n \in Record /\ n.ver = c.ver + 1 /\ n.state = c.state /\ n.events = c.events \cup {e}
  <1>1. c.booking \in Bookings /\ c.ver \in Nat /\ c.state \subseteq Effects /\ c.events \subseteq Effects
    BY DEF Record
  <1>2. n.ver = c.ver + 1 /\ n.state = c.state /\ n.events = c.events \cup {e}
    BY DEF Record
  <1>3. n \in Record
    <2> DEFINE v == c.ver + 1
    <2> DEFINE t == c.events \cup {e}
    <2>1. v \in Nat /\ t \in SUBSET Effects /\ n = [c EXCEPT !.ver = v, !.events = t]
      BY <1>1
    <2> HIDE DEF v, t
    <2> QED
      BY <1>1, <2>1 DEF Record
  <1> QED
    BY <1>2, <1>3

(* A record as CreatePNR writes it. *)
LEMMA Created ==
    ASSUME NEW c \in Record, NEW e \in Effects, NEW n, n = [c EXCEPT !.ver = 1, !.events = {e}]
    PROVE  n \in Record /\ n.ver = 1 /\ n.state = c.state /\ n.events = {e}
  <1>1. c.booking \in Bookings /\ c.ver \in Nat /\ c.state \subseteq Effects /\ c.events \subseteq Effects
    BY DEF Record
  <1>2. n.ver = 1 /\ n.state = c.state /\ n.events = {e}
    BY DEF Record
  <1>3. n \in Record
    BY <1>1, <1>2 DEF Record
  <1> QED
    BY <1>2, <1>3

(* A copy with an effect in its state. *)
LEMMA Touched ==
    ASSUME NEW c \in Record, NEW e \in Effects, NEW n, n = [c EXCEPT !.state = @ \cup {e}]
    PROVE  n \in Record /\ n.ver = c.ver /\ n.state = c.state \cup {e} /\ n.events = c.events
  <1>1. c.booking \in Bookings /\ c.ver \in Nat /\ c.state \subseteq Effects /\ c.events \subseteq Effects
    BY DEF Record
  <1>2. n.ver = c.ver /\ n.state = c.state \cup {e} /\ n.events = c.events
    BY DEF Record
  <1>3. n \in Record
    BY <1>1, <1>2 DEF Record
  <1> QED
    BY <1>2, <1>3

(* The records after a write whose effect is e: the record written has e   *)
(* in its trail under the next version, or is new with e alone, and every  *)
(* record still says what its trail says.                                  *)
Grows(e) ==
    /\ recs' \in Seq(Record) /\ Len(recs') <= MaxRecords
    /\ DOMAIN recs \subseteq DOMAIN recs'
    /\ \A r \in DOMAIN recs :
         \/ recs'[r] = recs[r]
         \/ recs'[r].ver = recs[r].ver + 1 /\ recs'[r].events = recs[r].events \cup {e}
    /\ \A r \in DOMAIN recs' \ DOMAIN recs : recs'[r].events = {e}
    /\ NoLostUpdate'

(* A write under the version that was read. *)
LEMMA UpdateGrows ==
    ASSUME TypeOK, NoLostUpdate, NEW r \in DOMAIN recs, NEW c \in Record, NEW e \in Effects,
           UpdatePNR(r, c, e),
           c.ver = recs[r].ver => c.events = recs[r].events /\ c.state = recs[r].state \cup {e}
    PROVE  Grows(e) /\ recs' = [recs EXCEPT ![r] = recs'[r]] /\ e \in recs'[r].events
  <1>1. recs \in Seq(Record) /\ Len(recs) <= MaxRecords
    BY DEF TypeOK
  <1>2. PICK n : n = [c EXCEPT !.ver = @ + 1, !.events = @ \cup {e}]
    OBVIOUS
  <1>3. n \in Record /\ n.ver = c.ver + 1 /\ n.state = c.state /\ n.events = c.events \cup {e}
    BY <1>2, Updated
  <1>4. recs' = [recs EXCEPT ![r] = n] /\ recs[r].ver = c.ver
    BY <1>2 DEF UpdatePNR
  <1>5. /\ recs' \in Seq(Record) /\ Len(recs') = Len(recs) /\ DOMAIN recs' = DOMAIN recs
        /\ recs'[r] = n /\ \A q \in DOMAIN recs : q # r => recs'[q] = recs[q]
    BY <1>1, <1>3, <1>4
  <1>6. n.ver = recs[r].ver + 1 /\ n.events = recs[r].events \cup {e} /\ n.state = n.events
    BY <1>3, <1>4 DEF NoLostUpdate
  <1>7. NoLostUpdate'
    BY <1>5, <1>6 DEF NoLostUpdate
  <1> QED
    BY <1>1, <1>4, <1>5, <1>6, <1>7 DEF Grows

(* A record is created. *)
LEMMA CreateGrows ==
    ASSUME TypeOK, NoLostUpdate, NEW c \in Record, NEW e \in Effects, CreatePNR(c, e),
           c.state = {e}, Len(recs) < MaxRecords
    PROVE  /\ Grows(e)
           /\ Len(recs) + 1 \in 1..MaxRecords /\ Len(recs) + 1 \in DOMAIN recs'
           /\ recs'[Len(recs) + 1] \in Record /\ recs'[Len(recs) + 1].events = {e}
  <1>1. recs \in Seq(Record) /\ Len(recs) <= MaxRecords
    BY DEF TypeOK
  <1>2. PICK n : n = [c EXCEPT !.ver = 1, !.events = {e}]
    OBVIOUS
  <1>3. n \in Record /\ n.state = n.events /\ n.events = {e}
    BY <1>2, Created
  <1>4. recs' = Append(recs, n)
    BY <1>2 DEF CreatePNR
  <1>5. /\ recs' \in Seq(Record) /\ Len(recs') = Len(recs) + 1
        /\ \A r \in DOMAIN recs : r \in DOMAIN recs' /\ recs'[r] = recs[r]
        /\ \A r \in DOMAIN recs' \ DOMAIN recs : recs'[r] = n
        /\ Len(recs) + 1 \in DOMAIN recs' /\ recs'[Len(recs) + 1] = n
    BY <1>1, <1>3, <1>4
  <1>6. Len(recs') <= MaxRecords /\ Len(recs) + 1 \in 1..MaxRecords
    BY <1>1, <1>5, PipelineAssumption
  <1>7. NoLostUpdate'
    BY <1>3, <1>5 DEF NoLostUpdate
  <1> QED
    BY <1>3, <1>5, <1>6, <1>7 DEF Grows

(* Trails only grow, and by the effect written. *)
LEMMA TookGrows ==
    ASSUME NEW e, Grows(e)
    PROVE  /\ \A i : Took(i) => Took(i)'
           /\ \A i : Took(i)' => Took(i) \/ e = Applied(i)
  BY DEF Grows, Took, Changed

(* A step that writes no record. *)
LEMMA StayGrows ==
    ASSUME TypeOK, NoLostUpdate, UNCHANGED recs
    PROVE  Grows(Local(0)) /\ \A i : Local(0) # Applied(i)
  BY DEF TypeOK, Grows, NoLostUpdate, Local, Applied

(* Rows are added to the log, and keep the message they hold. *)
LogGrows ==
    DOMAIN log \subseteq DOMAIN log' /\ \A i \in DOMAIN log : log'[i].wire = log[i].wire

(* What a row earned it keeps. *)
LEMMA EarnedKept ==
    ASSUME NEW e, Grows(e), LogGrows, answered \subseteq answered',
           NEW i \in DOMAIN log, Earned(i)
    PROVE  Earned(i)'
  BY TookGrows DEF LogGrows, Earned

(* A copy stays as fresh as its version says while others write. *)
LEMMA CopyKept ==
    ASSUME TypeOK, NEW e, Grows(e), NEW v \in Workers, wk'[v] = wk[v],
           wk[v].pc \in {"write", "decide"}, CopyFresh(v)
    PROVE  CopyFresh(v)'
  <1>1. PICK k : k = wk[v]
    OBVIOUS
  <1>2. PICK c, q : c = k.copy /\ q = k.rec
    OBVIOUS
  <1>3. CASE ~(k.pc = "decide" \/ q # 0)
    BY <1>1, <1>2, <1>3 DEF CopyFresh
  <1>4. CASE k.pc = "decide" \/ q # 0
    <2>1. /\ c \in Record /\ q \in DOMAIN recs /\ c.ver <= recs[q].ver
          /\ k.pc = "write" /\ q = 0 => c.state = {Applied(k.row)}
          /\ c.ver = recs[q].ver =>
               /\ c.events = recs[q].events
               /\ c.state = IF k.pc = "write" THEN recs[q].state \cup {Applied(k.row)} ELSE recs[q].state
      BY <1>1, <1>2, <1>4 DEF CopyFresh
    <2>2. q \in DOMAIN recs' /\ c.ver \in Nat /\ recs[q].ver \in Nat
      <3>1. recs \in Seq(Record) /\ DOMAIN recs \subseteq DOMAIN recs'
        BY DEF Grows, TypeOK
      <3>2. q \in DOMAIN recs' /\ recs[q] \in Record
        BY <2>1, <3>1
      <3> QED
        BY <2>1, <3>2 DEF Record
    <2>3. /\ c.ver <= recs'[q].ver
          /\ c.ver = recs'[q].ver => c.ver = recs[q].ver /\ recs'[q] = recs[q]
      BY <2>1, <2>2 DEF Grows
    <2> QED
      BY <1>1, <1>2, <2>1, <2>2, <2>3 DEF CopyFresh
  <1> QED
    BY <1>3, <1>4

(* What every step keeps: of the records, of the log, and of the calls     *)
(* that do not move.                                                       *)
LEMMA Common ==
    ASSUME IInv, NEW e, Grows(e), LogGrows, answered \subseteq answered',
           \A i \in DOMAIN log' : log'[i].status = "applied" =>
                (i \in DOMAIN log /\ log[i].status = "applied") \/ Earned(i)',
           \A i : e = Applied(i) => i \in DOMAIN log /\ log[i].wire \notin Junk \cup Filed
    PROVE  /\ NoLostUpdate' /\ StatusHonest' /\ TrailInv'
           /\ \A v \in Workers : wk'[v] = wk[v] => WorkerInv(v)'
  <1>1. NoLostUpdate'
    BY DEF Grows
  <1>2. StatusHonest'
    <2>1. \A i \in DOMAIN log : log[i].status = "applied" => Earned(i)
      BY DEF IInv, StatusHonest, Earned
    <2>2. \A i \in DOMAIN log' : log'[i].status = "applied" => Earned(i)'
      BY <2>1, EarnedKept
    <2> QED
      BY <2>2 DEF StatusHonest, Earned
  <1>3. TrailInv'
    BY TookGrows DEF IInv, TrailInv, LogGrows
  <1>4. ASSUME NEW v \in Workers, wk'[v] = wk[v]
        PROVE  WorkerInv(v)'
    <2>1. WorkerInv(v) /\ TypeOK
      BY DEF IInv
    <2>2. Active(v) => wk[v].row \in DOMAIN log /\ log'[wk[v].row].wire = Wire(v)
      BY <2>1 DEF WorkerInv, LogGrows, Wire
    <2>3. Active(v)' = Active(v) /\ (Active(v) => Wire(v)' = Wire(v))
      BY <1>4, <2>2 DEF Active, Wire
    <2>4. Active(v)' => wk'[v].row \in DOMAIN log'
      BY <1>4, <2>2, <2>3 DEF LogGrows
    <2>5. wk'[v].pc \in {"write", "decide"} => CopyFresh(v)'
      BY <1>4, <2>1, CopyKept DEF WorkerInv
    <2>6. wk'[v].pc = "write" /\ wk'[v].rec # 0 => Wire(v)' \notin Sells
      BY <1>4, <2>1, <2>3 DEF WorkerInv, Active
    <2>7. wk'[v].pc \in {"decide", "answer"} => Took(wk[v].row)'
      BY <1>4, <2>1, TookGrows DEF WorkerInv
    <2>8. wk'[v].pc = "outcome" /\ wk'[v].out = "applied" => Earned(wk[v].row)'
      <3> SUFFICES ASSUME wk[v].pc = "outcome", wk[v].out = "applied"
                   PROVE  Earned(wk[v].row)'
        BY <1>4
      <3>1. PICK i \in DOMAIN log : i = wk[v].row
        BY <2>2 DEF Active
      <3>2. Earned(i)
        BY <2>1, <3>1 DEF WorkerInv
      <3>3. Earned(i)'
        BY <3>2, EarnedKept
      <3> QED
        BY <3>1, <3>3, <1>4 DEF Earned, Took, Changed
    <2>9. /\ wk'[v].pc = "outcome" => wk'[v].out \in Outcomes
          /\ wk'[v].pc \in {"read", "write", "decide", "answer"} => Wire(v)' \notin Junk \cup Filed
      BY <1>4, <2>1, <2>3 DEF WorkerInv, Active
    <2> QED
      BY <1>4, <2>4, <2>5, <2>6, <2>7, <2>8, <2>9 DEF WorkerInv
  <1> QED
    BY <1>1, <1>2, <1>3, <1>4

---------------------------------------------------------------------------
(* Calls that move.                                                        *)

(* The call of w moves, keeps its row, and no other does. *)
Moves(w) ==
    /\ wk' \in [Workers -> Call] /\ wk'[w].row = wk[w].row
    /\ \A v \in Workers : v # w => wk'[v] = wk[v]

(* A call that has its outcome, and has not recorded it yet. *)
LEMMA Settles ==
    ASSUME TypeOK, NEW w \in Workers, NEW st \in Outcomes, Settle(w, st)
    PROVE  Moves(w) /\ wk'[w].pc = "outcome" /\ wk'[w].out = st
  <1>1. wk \in [Workers -> Call] /\ wk[w] \in Call
    BY DEF TypeOK
  <1>2. PICK k : k = [wk[w] EXCEPT !.pc = "outcome", !.copy = None, !.out = st]
    OBVIOUS
  <1>3. k \in Call
    BY <1>1, <1>2 DEF Call, PCs
  <1>4. k.row = wk[w].row /\ k.pc = "outcome" /\ k.out = st
    BY <1>1, <1>2 DEF Call
  <1>5. wk' = [wk EXCEPT ![w] = k]
    BY <1>2 DEF Settle
  <1> QED
    BY <1>1, <1>3, <1>4, <1>5 DEF Moves

(* A call that only moves on. *)
LEMMA Goes ==
    ASSUME TypeOK, NEW w \in Workers, NEW pc \in PCs, Goto(w, pc)
    PROVE  /\ Moves(w) /\ wk'[w].pc = pc /\ wk'[w].out = wk[w].out
           /\ wk'[w].rec = wk[w].rec /\ wk'[w].copy = wk[w].copy
  <1>1. wk \in [Workers -> Call] /\ wk[w] \in Call
    BY DEF TypeOK
  <1>2. PICK k : k = [wk[w] EXCEPT !.pc = pc]
    OBVIOUS
  <1>3. k \in Call
    BY <1>1, <1>2 DEF Call
  <1>4. k.row = wk[w].row /\ k.pc = pc /\ k.out = wk[w].out /\ k.rec = wk[w].rec /\ k.copy = wk[w].copy
    BY <1>1, <1>2 DEF Call
  <1>5. wk' = [wk EXCEPT ![w] = k]
    BY <1>1, <1>2 DEF Goto
  <1> QED
    BY <1>1, <1>3, <1>4, <1>5 DEF Moves

(* A call that moves, with the row it has and the log as it is, keeps      *)
(* copies apart: it leaves with its key indexed if it changed a record,    *)
(* changes one at its write only, and comes to apply past the check.       *)
LEMMA OnceKept ==
    ASSUME IInv, NEW w \in Workers, Active(w), forgot' = forgot, crossed' = crossed,
           LogGrows, DOMAIN log' = DOMAIN log, indexed \subseteq indexed',
           \A v \in Workers : v # w => wk'[v] = wk[v],
           Active(w)' => wk'[w].row = wk[w].row,
           ~Active(w)' /\ Took(wk[w].row) => wk[w].row \in indexed',
           ~Active(w)' => wk[w].pc = "outcome",
           \A i : Took(i)' => Took(i) \/ (i = wk[w].row /\ wk[w].pc = "write"),
           wk'[w].pc \in {"read", "write"} =>
               wk[w].pc \in {"read", "write"} \/ FindByDedupKey(Wire(w)) = {}
    PROVE  OnceInv' /\ AppliedOnce'
  <1> SUFFICES ASSUME ~forgot
               PROVE  OnceInv' /\ AppliedOnce'
    BY DEF OnceInv, AppliedOnce
  <1>1. wk[w].row \in DOMAIN log /\ \A v \in Workers : Active(v) => wk[v].row \in DOMAIN log
    BY DEF IInv, WorkerInv
  <1>2. \A v \in Workers : Active(v)' => Active(v) /\ wk'[v].row = wk[v].row /\ Wire(v)' = Wire(v)
    BY <1>1 DEF Active, Wire, LogGrows
  <1>3. \A v, u \in Workers : v # u /\ Active(v)' /\ Active(u)' /\ Wire(v)' = Wire(u)'
                                 => Wire(u)' \in crossed'
    BY <1>2 DEF IInv, OnceInv
  <1>4. ASSUME NEW i \in DOMAIN log, Took(i)'
        PROVE  i \in indexed' \/ \E v \in Workers : Active(v)' /\ wk'[v].row = i
    <2>1. CASE i = wk[w].row
      BY <1>4, <2>1 DEF Active
    <2>2. CASE i # wk[w].row
      <3>1. Took(i)
        BY <1>4, <2>2
      <3>2. CASE i \in indexed
        BY <3>2
      <3>3. CASE \E v \in Workers : Active(v) /\ wk[v].row = i
        BY <2>2, <3>3 DEF Active
      <3> QED
        BY <3>1, <3>2, <3>3 DEF IInv, OnceInv
    <2> QED
      BY <2>1, <2>2
  <1>5. ASSUME NEW v \in Workers, wk'[v].pc \in {"read", "write"}, Wire(v)' \notin crossed',
               NEW j \in DOMAIN log, j # wk'[v].row, log'[j].wire = Wire(v)'
        PROVE  ~Took(j)'
    <2>1. Active(v) /\ wk'[v].row = wk[v].row /\ Wire(v)' = Wire(v) /\ log[j].wire = Wire(v)
      BY <1>2, <1>5 DEF Active, LogGrows
    <2>2. CASE v # w
      <3>1. ~Took(j)
        BY <1>5, <2>1, <2>2 DEF IInv, OnceInv
      <3>2. j = wk[w].row => FALSE
        BY <1>5, <2>1, <2>2 DEF IInv, OnceInv, Wire
      <3> QED
        BY <3>1, <3>2
    <2>3. CASE v = w /\ wk[w].pc \in {"read", "write"}
      BY <1>5, <2>1, <2>3 DEF IInv, OnceInv
    <2>4. CASE v = w /\ FindByDedupKey(Wire(w)) = {}
      <3>1. j \notin indexed
        BY <2>1, <2>4 DEF FindByDedupKey
      <3>2. ASSUME NEW u \in Workers, Active(u), wk[u].row = j PROVE FALSE
        BY <1>5, <2>1, <2>4, <3>2 DEF IInv, OnceInv, Wire
      <3>3. ~Took(j)
        BY <3>1, <3>2 DEF IInv, OnceInv
      <3> QED
        BY <1>5, <2>1, <2>4, <3>3
    <2> QED
      BY <1>5, <2>2, <2>3, <2>4
  <1>6. ASSUME NEW i \in DOMAIN log, NEW j \in DOMAIN log, i # j, log'[i].wire = log'[j].wire,
               log'[i].wire \notin crossed', Took(i)', Took(j)'
        PROVE  FALSE
    <2>1. log[i].wire = log[j].wire /\ log[i].wire \notin crossed
      BY <1>6 DEF LogGrows
    <2>2. ~(Took(i) /\ Took(j))
      BY <1>6, <2>1 DEF IInv, AppliedOnce
    <2>3. ASSUME NEW x \in DOMAIN log, NEW y \in DOMAIN log, x # y, log[x].wire = log[y].wire,
                 log[x].wire \notin crossed, x = wk[w].row, wk[w].pc = "write"
          PROVE  ~Took(y)
      BY <2>3 DEF IInv, OnceInv, Wire
    <2> QED
      BY <1>6, <2>1, <2>2, <2>3
  <1>7. OnceInv'
    BY <1>3, <1>4, <1>5 DEF OnceInv
  <1>8. AppliedOnce'
    BY <1>6 DEF AppliedOnce
  <1> QED
    BY <1>7, <1>8

(* A step of one call, between the capture and the outcome. *)
Between(w, e) ==
    /\ Active(w) /\ Moves(w) /\ Active(w)' /\ WorkerInv(w)'
    /\ Grows(e) /\ \A i : e = Applied(i) => i = wk[w].row /\ wk[w].pc = "write"
    /\ wk'[w].pc \in {"read", "write"} =>
           wk[w].pc \in {"read", "write"} \/ FindByDedupKey(Wire(w)) = {}
    /\ UNCHANGED <<log, indexed, locals, forgot, crossed>>
    /\ answered \subseteq answered' /\ answered' \subseteq DOMAIN log
    /\ faults' \in 0..MaxFaults

(* A call that writes nothing: only its own part of the invariant is at    *)
(* stake.                                                                  *)
LEMMA BetweenInv ==
    ASSUME IInv, NEW w \in Workers, NEW e, Between(w, e)
    PROVE  IInv'
  <1>1. TypeOK'
    BY DEF IInv, TypeOK, Between, Moves, Grows
  <1>2. LogGrows /\ DOMAIN log' = DOMAIN log
    BY DEF LogGrows, Between
  <1>3. \A i : e = Applied(i) => i \in DOMAIN log /\ log[i].wire \notin Junk \cup Filed
    BY DEF Between, IInv, WorkerInv, Wire
  <1>4. /\ NoLostUpdate' /\ StatusHonest' /\ TrailInv'
        /\ \A v \in Workers : wk'[v] = wk[v] => WorkerInv(v)'
    <2>1. \A i \in DOMAIN log' : log'[i].status = "applied" => i \in DOMAIN log /\ log[i].status = "applied"
      BY DEF Between
    <2> QED
      BY <1>2, <1>3, <2>1, Common DEF Between
  <1>5. \A v \in Workers : WorkerInv(v)'
    BY <1>4 DEF Between, Moves
  <1>6. \A i : Took(i)' => Took(i) \/ (i = wk[w].row /\ wk[w].pc = "write")
    BY TookGrows DEF Between
  <1>7. OnceInv' /\ AppliedOnce'
    BY <1>2, <1>6, OnceKept DEF Between, Moves
  <1> QED
    BY <1>1, <1>4, <1>5, <1>7 DEF IInv

(* A call that settles on a status it is entitled to. *)
LEMMA SettledInv ==
    ASSUME IInv, NEW w \in Workers, Active(w), NEW st \in Outcomes, Settle(w, st),
           st = "applied" => Earned(wk[w].row)'
    PROVE  /\ Moves(w) /\ Active(w)' /\ wk'[w].pc = "outcome"
           /\ LogGrows => WorkerInv(w)'
  <1>1. Moves(w) /\ wk'[w].pc = "outcome" /\ wk'[w].out = st
    BY Settles DEF IInv
  <1>2. wk'[w].row = wk[w].row /\ wk[w].row \in DOMAIN log
    BY <1>1 DEF Moves, IInv, WorkerInv
  <1>3. LogGrows => WorkerInv(w)'
    BY <1>1, <1>2 DEF WorkerInv, LogGrows
  <1> QED
    BY <1>1, <1>3 DEF Active

(* process. *)
LEMMA DispatchBetween ==
    ASSUME IInv, NEW w \in Workers, wk[w].pc = "process", Wire(w) \notin Junk, Dispatch(w),
           UNCHANGED <<log, recs, answered>>
    PROVE  Moves(w) /\ Active(w)' /\ WorkerInv(w)'
  <1>1. Active(w) /\ LogGrows
    BY DEF Active, LogGrows
  <1>2. CASE Settle(w, "rejected")
    BY <1>1, <1>2, SettledInv DEF Outcomes
  <1>3. CASE Wire(w) \in Filed \ Tests /\ Settle(w, "applied")
    <2>1. Moves(w)
      BY <1>3, Settles DEF IInv, Outcomes
    <2>2. Earned(wk[w].row)'
      BY <1>3, <2>1, PipelineAssumption DEF Moves, Earned, Wire
    <2> QED
      BY <1>1, <1>3, <2>2, SettledInv DEF Outcomes
  <1>4. CASE Wire(w) \notin Tests \cup Filed /\ Goto(w, "read")
    <2>1. Moves(w) /\ wk'[w].pc = "read"
      BY <1>4, Goes DEF IInv, PCs
    <2>2. wk'[w].row = wk[w].row /\ wk[w].row \in DOMAIN log /\ Wire(w)' = Wire(w)
      BY <1>1, <2>1 DEF Moves, IInv, WorkerInv, Wire
    <2>3. WorkerInv(w)'
      BY <1>4, <2>1, <2>2 DEF WorkerInv
    <2> QED
      BY <2>1, <2>3 DEF Active
  <1> QED
    BY <1>2, <1>3, <1>4 DEF Dispatch

(* process decides by class and by the dedup index. *)
LEMMA ProcessInv ==
    ASSUME IInv, NEW w \in Workers, Process(w)
    PROVE  IInv'
  <1>1. /\ wk[w].pc = "process" /\ Active(w) /\ LogGrows
        /\ UNCHANGED <<log, indexed, recs, answered, locals, faults, forgot, crossed>>
    BY DEF Process, Active, LogGrows
  <1>2. Grows(Local(0)) /\ \A i : Local(0) # Applied(i)
    BY <1>1, StayGrows DEF IInv
  <1>3. /\ Moves(w) /\ Active(w)' /\ WorkerInv(w)'
        /\ wk'[w].pc \in {"read", "write"} => FindByDedupKey(Wire(w)) = {}
    <2>1. CASE Settle(w, "dlq") \/ Settle(w, "rejected")
      BY <1>1, <2>1, SettledInv DEF Outcomes
    <2>2. CASE Wire(w) \notin Junk /\ FindByDedupKey(Wire(w)) = {} /\ Dispatch(w)
      BY <1>1, <2>2, DispatchBetween
    <2> QED
      BY <2>1, <2>2 DEF Process
  <1>4. Between(w, Local(0))
    BY <1>1, <1>2, <1>3 DEF Between, IInv, TypeOK
  <1> QED
    BY <1>4, BetweenInv

(* process with the lookup failed: from then on copies are not told apart. *)
LEMMA ProcessUncheckedInv ==
    ASSUME IInv, NEW w \in Workers, ProcessUnchecked(w)
    PROVE  IInv'
  <1>1. /\ wk[w].pc = "process" /\ Wire(w) \notin Junk /\ Dispatch(w) /\ forgot' = TRUE /\ LogGrows
        /\ UNCHANGED <<log, indexed, recs, answered, locals, crossed>>
        /\ faults < MaxFaults /\ faults' = faults + 1
    BY DEF ProcessUnchecked, Fault, LogGrows
  <1>2. Grows(Local(0)) /\ \A i : Local(0) # Applied(i)
    BY <1>1, StayGrows DEF IInv
  <1>3. Moves(w) /\ Active(w)' /\ WorkerInv(w)'
    BY <1>1, DispatchBetween
  <1>4. TypeOK'
    <2>1. faults' \in 0..MaxFaults
      BY <1>1, PipelineAssumption DEF IInv, TypeOK
    <2> QED
      BY <1>1, <1>3, <2>1 DEF IInv, TypeOK, Moves
  <1>5. /\ NoLostUpdate' /\ StatusHonest' /\ TrailInv'
        /\ \A v \in Workers : wk'[v] = wk[v] => WorkerInv(v)'
    BY <1>1, <1>2, Common
  <1>6. \A v \in Workers : WorkerInv(v)'
    BY <1>3, <1>5 DEF Moves
  <1> QED
    BY <1>1, <1>4, <1>5, <1>6 DEF IInv, OnceInv, AppliedOnce

(* apply. *)

(* What a row changes and decides are effects. *)
LEMMA RowEffects ==
    ASSUME IInv, NEW w \in Workers, Active(w)
    PROVE  Applied(wk[w].row) \in Effects /\ Decided(wk[w].row) \in Effects
  <1>1. log \in Seq([wire : Wires, status : Outcomes \cup {"received"}]) /\ Len(log) <= MaxRows
    BY DEF IInv, TypeOK
  <1>2. wk[w].row \in DOMAIN log
    BY DEF IInv, WorkerInv
  <1>3. wk[w].row \in Rows
    BY <1>1, <1>2, PipelineAssumption DEF Rows
  <1> QED
    BY <1>3 DEF Effects, Applied, Decided

(* A call with a copy to write. *)
LEMMA ToWrite ==
    ASSUME TypeOK, NEW w \in Workers, NEW r \in 0..MaxRecords, NEW c \in Record,
           wk' = [wk EXCEPT ![w] = [@ EXCEPT !.pc = "write", !.rec = r, !.copy = c]]
    PROVE  Moves(w) /\ wk'[w].pc = "write" /\ wk'[w].rec = r /\ wk'[w].copy = c
  <1>1. wk \in [Workers -> Call] /\ wk[w] \in Call
    BY DEF TypeOK
  <1>2. PICK k : k = [wk[w] EXCEPT !.pc = "write", !.rec = r, !.copy = c]
    OBVIOUS
  <1>3. k \in Call
    BY <1>1, <1>2 DEF Call, PCs
  <1>4. k.row = wk[w].row /\ k.pc = "write" /\ k.rec = r /\ k.copy = c
    BY <1>1, <1>2 DEF Call
  <1>5. wk' = [wk EXCEPT ![w] = k]
    BY <1>2
  <1> QED
    BY <1>1, <1>3, <1>4, <1>5 DEF Moves

(* apply finds the record or starts one, and changes its copy. *)
LEMMA ResolveInv ==
    ASSUME IInv, NEW w \in Workers, Resolve(w)
    PROVE  IInv'
  <1>1. /\ wk[w].pc = "read" /\ Active(w) /\ LogGrows
        /\ UNCHANGED <<log, indexed, recs, answered, locals, faults, forgot, crossed>>
    BY DEF Resolve, Active, LogGrows
  <1>2. Grows(Local(0)) /\ \A i : Local(0) # Applied(i)
    BY <1>1, StayGrows DEF IInv
  <1>3. Applied(wk[w].row) \in Effects /\ TypeOK /\ wk[w].row \in DOMAIN log /\ Wire(w) \notin Junk \cup Filed
    BY <1>1, RowEffects DEF IInv, WorkerInv
  <1>4. Moves(w) /\ Active(w)' /\ WorkerInv(w)'
    <2>1. CASE Settle(w, "dlq")
      BY <1>1, <2>1, SettledInv DEF Outcomes
    <2>2. ASSUME Wire(w) \in Sells,
                 wk' = [wk EXCEPT ![w] = [@ EXCEPT !.pc = "write", !.rec = 0,
                          !.copy = [booking |-> booking[Wire(w)], ver |-> 0,
                                    state |-> {Applied(wk[w].row)}, events |-> {}]]]
          PROVE  Moves(w) /\ Active(w)' /\ WorkerInv(w)'
      <3>1. PICK c : c = [booking |-> booking[Wire(w)], ver |-> 0,
                          state |-> {Applied(wk[w].row)}, events |-> {}]
        OBVIOUS
      <3>2. c \in Record /\ c.state = {Applied(wk[w].row)}
        BY <1>3, <2>2, <3>1, PipelineAssumption DEF Record
      <3>3. 0 \in 0..MaxRecords
        BY PipelineAssumption
      <3>4. Moves(w) /\ wk'[w].pc = "write" /\ wk'[w].rec = 0 /\ wk'[w].copy = c
        BY <1>3, <2>2, <3>1, <3>2, <3>3, ToWrite
      <3>5. wk'[w].row = wk[w].row /\ Wire(w)' = Wire(w)
        BY <1>1, <3>4 DEF Moves, Wire
      <3>6. CopyFresh(w)'
        BY <3>2, <3>4, <3>5 DEF CopyFresh
      <3> QED
        BY <1>1, <1>3, <3>4, <3>5, <3>6 DEF WorkerInv, Active
    <2>3. ASSUME Wire(w) \notin Sells, NEW r \in Held(Wire(w)),
                 wk' = [wk EXCEPT ![w] = [@ EXCEPT !.pc = "write", !.rec = r,
                          !.copy = [recs[r] EXCEPT !.state = @ \cup {Applied(wk[w].row)}]]]
          PROVE  Moves(w) /\ Active(w)' /\ WorkerInv(w)'
      <3>1. recs \in Seq(Record) /\ Len(recs) <= MaxRecords /\ r \in DOMAIN recs
        BY <1>3 DEF TypeOK, Held
      <3>2. r \in 0..MaxRecords /\ recs[r] \in Record
        BY <3>1, PipelineAssumption
      <3>3. PICK c : c = [recs[r] EXCEPT !.state = @ \cup {Applied(wk[w].row)}]
        OBVIOUS
      <3>4. PICK o, e : o = recs[r] /\ e = Applied(wk[w].row)
        OBVIOUS
      <3>5. c \in Record /\ c.ver = o.ver /\ c.state = o.state \cup {e} /\ c.events = o.events
        BY <1>3, <3>2, <3>3, <3>4, Touched
      <3>6. Moves(w) /\ wk'[w].pc = "write" /\ wk'[w].rec = r /\ wk'[w].copy = c
        <4>1. wk' = [wk EXCEPT ![w] = [@ EXCEPT !.pc = "write", !.rec = r, !.copy = c]]
          BY <2>3, <3>3
        <4>2. TypeOK /\ r \in 0..MaxRecords /\ c \in Record
          BY <1>3, <3>2, <3>5
        <4> QED
          BY <4>1, <4>2, ToWrite, Zenon
      <3>7. wk'[w].row = wk[w].row /\ Wire(w)' = Wire(w)
        BY <1>1, <3>6 DEF Moves, Wire
      <3>8. CopyFresh(w)'
        <4>1. r # 0 /\ r \in DOMAIN recs'
          BY <1>1, <3>1
        <4>2. c.ver <= recs'[r].ver
          BY <1>1, <3>2, <3>4, <3>5 DEF Record
        <4> QED
          BY <1>1, <3>4, <3>5, <3>6, <3>7, <4>1, <4>2 DEF CopyFresh
      <3> QED
        BY <1>1, <1>3, <2>3, <3>6, <3>7, <3>8 DEF WorkerInv, Active
    <2> QED
      BY <2>1, <2>2, <2>3 DEF Resolve
  <1>5. Between(w, Local(0))
    BY <1>1, <1>2, <1>4 DEF Between, IInv, TypeOK
  <1> QED
    BY <1>5, BetweenInv

(* The write lands: the versions agreed, so the copy had the whole trail. *)
LEMMA WriteInv ==
    ASSUME IInv, NEW w \in Workers, Write(w)
    PROVE  IInv'
  <1>1. /\ wk[w].pc = "write" /\ Active(w) /\ LogGrows
        /\ UNCHANGED <<log, indexed, answered, locals, faults, forgot, crossed>>
    BY DEF Write, Active, LogGrows
  <1>2. PICK c, e, r, i : c = wk[w].copy /\ e = Applied(i) /\ r = wk[w].rec /\ i = wk[w].row
    OBVIOUS
  <1>3. /\ e \in Effects /\ TypeOK /\ NoLostUpdate /\ i \in DOMAIN log /\ Wire(w) \notin Junk \cup Filed
        /\ CopyFresh(w) /\ wk \in [Workers -> Call] /\ wk[w] \in Call
    BY <1>1, <1>2, RowEffects DEF IInv, WorkerInv, TypeOK
  <1>4. c \in Record
    BY <1>2, <1>3 DEF CopyFresh
  <1>5. \A j : e = Applied(j) => j = i
    BY <1>2 DEF Applied
  <1>6. ASSUME r = 0, Len(recs) < MaxRecords, CreatePNR(c, e),
               wk' = [wk EXCEPT ![w] = [@ EXCEPT !.pc = "decide", !.rec = Len(recs) + 1,
                                        !.copy = recs'[Len(recs) + 1]]]
        PROVE  Grows(e) /\ Moves(w) /\ Active(w)' /\ WorkerInv(w)' /\ wk'[w].pc = "decide"
    <2>1. c.state = {e}
      BY <1>1, <1>2, <1>3, <1>6 DEF CopyFresh
    <2>2. PICK q, n : q = Len(recs) + 1 /\ n = recs'[q]
      OBVIOUS
    <2>3. Grows(e) /\ q \in 1..MaxRecords /\ q \in DOMAIN recs' /\ n \in Record /\ n.events = {e}
      BY <1>3, <1>4, <1>6, <2>1, <2>2, CreateGrows
    <2>4. PICK k : k = [wk[w] EXCEPT !.pc = "decide", !.rec = q, !.copy = n]
      OBVIOUS
    <2>5. k \in Call
      <3>1. q \in 0..MaxRecords /\ n \in Record \cup {None} /\ "decide" \in PCs
        BY <2>3, PipelineAssumption DEF PCs
      <3> QED
        BY <1>3, <2>4, <3>1 DEF Call
    <2>6. k.row = i /\ k.pc = "decide" /\ k.rec = q /\ k.copy = n
      BY <1>2, <1>3, <2>4 DEF Call
    <2>7. wk' = [wk EXCEPT ![w] = k]
      BY <1>6, <2>2, <2>4
    <2>8. Moves(w) /\ wk'[w] = k
      BY <1>2, <1>3, <2>5, <2>6, <2>7 DEF Moves
    <2>9. Took(i)'
      BY <1>2, <2>2, <2>3 DEF Took, Changed
    <2>10. CopyFresh(w)'
      <3>1. n.ver <= n.ver
        BY <2>3 DEF Record
      <3> QED
        BY <2>2, <2>3, <2>6, <2>8, <3>1 DEF CopyFresh
    <2>11. Wire(w)' = Wire(w)
      BY <1>1, <1>2, <2>6, <2>8 DEF Wire
    <2>12. WorkerInv(w)'
      BY <1>1, <1>3, <2>6, <2>8, <2>9, <2>10, <2>11 DEF WorkerInv
    <2> QED
      BY <2>3, <2>6, <2>8, <2>12 DEF Active
  <1>7. ASSUME r # 0, UpdatePNR(r, c, e), Settle(w, "applied")
        PROVE  Grows(e) /\ Moves(w) /\ Active(w)' /\ WorkerInv(w)' /\ wk'[w].pc = "outcome"
    <2>1. /\ r \in DOMAIN recs
          /\ c.ver = recs[r].ver => c.events = recs[r].events /\ c.state = recs[r].state \cup {e}
      BY <1>1, <1>2, <1>3, <1>7 DEF CopyFresh
    <2>2. Grows(e) /\ recs' = [recs EXCEPT ![r] = recs'[r]] /\ e \in recs'[r].events
      BY <1>3, <1>4, <1>7, <2>1, UpdateGrows
    <2>3. Took(i)'
      BY <1>2, <2>1, <2>2 DEF Took, Changed, Grows
    <2>4. Wire(w) \notin Sells
      BY <1>1, <1>2, <1>7 DEF IInv, WorkerInv
    <2>5. Moves(w)
      BY <1>3, <1>7, Settles DEF Outcomes
    <2>6. Earned(wk[w].row)'
      BY <1>1, <1>2, <2>3, <2>4, <2>5 DEF Earned, Wire, Moves, Took, Changed
    <2> QED
      BY <1>1, <1>7, <2>2, <2>6, SettledInv DEF Outcomes
  <1>8. Grows(e) /\ Moves(w) /\ Active(w)' /\ WorkerInv(w)' /\ wk'[w].pc \in {"decide", "outcome"}
    BY <1>2, <1>6, <1>7 DEF Write
  <1>9. Between(w, e)
    BY <1>1, <1>2, <1>5, <1>8 DEF Between, IInv, TypeOK
  <1> QED
    BY <1>9, BetweenInv

(* The write does not land: the record is read again, or the message given *)
(* up.                                                                     *)
LEMMA ConflictInv ==
    ASSUME IInv, NEW w \in Workers, Conflict(w)
    PROVE  IInv'
  <1>1. /\ wk[w].pc = "write" /\ Active(w) /\ LogGrows /\ TypeOK
        /\ UNCHANGED <<log, indexed, recs, answered, locals, faults, forgot, crossed>>
    BY DEF Conflict, Active, LogGrows, IInv
  <1>2. Grows(Local(0)) /\ \A i : Local(0) # Applied(i)
    BY <1>1, StayGrows DEF IInv
  <1>3. Moves(w) /\ Active(w)' /\ WorkerInv(w)'
    <2>1. CASE Settle(w, "dlq")
      BY <1>1, <2>1, SettledInv DEF Outcomes
    <2>2. ASSUME wk[w].tries + 1 < MaxAttempts,
                 wk' = [wk EXCEPT ![w] = [@ EXCEPT !.pc = "read", !.copy = None,
                                          !.tries = wk[w].tries + 1]]
          PROVE  Moves(w) /\ Active(w)' /\ WorkerInv(w)'
      <3>1. wk \in [Workers -> Call] /\ wk[w] \in Call
        BY <1>1 DEF TypeOK
      <3>2. PICK t : t = wk[w].tries + 1
        OBVIOUS
      <3>3. t \in 0..(MaxAttempts - 1)
        BY <2>2, <3>1, <3>2, PipelineAssumption DEF Call
      <3>4. PICK k : k = [wk[w] EXCEPT !.pc = "read", !.copy = None, !.tries = t]
        OBVIOUS
      <3>5. k \in Call
        BY <3>1, <3>3, <3>4 DEF Call, PCs
      <3>6. k.row = wk[w].row /\ k.pc = "read"
        BY <3>1, <3>4 DEF Call
      <3>7. wk' = [wk EXCEPT ![w] = k]
        BY <2>2, <3>2, <3>4
      <3>8. Moves(w) /\ wk'[w].pc = "read"
        BY <3>1, <3>5, <3>6, <3>7 DEF Moves
      <3>9. wk'[w].row = wk[w].row /\ Wire(w)' = Wire(w)
        BY <1>1, <3>8 DEF Moves, Wire
      <3> QED
        BY <1>1, <3>8, <3>9 DEF IInv, WorkerInv, Active
    <2> QED
      BY <2>1, <2>2 DEF Conflict
  <1>4. Between(w, Local(0))
    BY <1>1, <1>2, <1>3 DEF Between, IInv, TypeOK
  <1> QED
    BY <1>4, BetweenInv

(* respond. *)
LEMMA DecideInv ==
    ASSUME IInv, NEW w \in Workers, Decide(w)
    PROVE  IInv'
  <1>1. /\ wk[w].pc = "decide" /\ Active(w) /\ LogGrows
        /\ UNCHANGED <<log, indexed, answered, locals, faults, forgot, crossed>>
    BY DEF Decide, Active, LogGrows
  <1>2. PICK o, e, r : o = wk[w].copy /\ e = Decided(wk[w].row) /\ r = wk[w].rec
    OBVIOUS
  <1>3. /\ e \in Effects /\ TypeOK /\ NoLostUpdate /\ Took(wk[w].row) /\ CopyFresh(w)
        /\ wk[w].row \in DOMAIN log /\ Wire(w) \notin Junk \cup Filed
    BY <1>1, <1>2, RowEffects DEF IInv, WorkerInv
  <1>4. /\ o \in Record /\ r \in DOMAIN recs
        /\ o.ver = recs[r].ver => o.events = recs[r].events /\ o.state = recs[r].state
    BY <1>1, <1>2, <1>3 DEF CopyFresh
  <1>5. PICK c : c = [o EXCEPT !.state = @ \cup {e}]
    OBVIOUS
  <1>6. c \in Record /\ c.ver = o.ver /\ c.state = o.state \cup {e} /\ c.events = o.events
    BY <1>3, <1>4, <1>5, Touched
  <1>7. \A j : e # Applied(j)
    BY <1>2 DEF Decided, Applied
  <1>8. ASSUME UpdatePNR(r, c, e), Goto(w, "answer")
        PROVE  Grows(e) /\ Moves(w) /\ Active(w)' /\ WorkerInv(w)' /\ wk'[w].pc = "answer"
    <2>1. Grows(e)
      BY <1>3, <1>4, <1>6, <1>8, UpdateGrows
    <2>2. Moves(w) /\ wk'[w].pc = "answer"
      BY <1>3, <1>8, Goes DEF PCs
    <2>3. wk'[w].row = wk[w].row /\ Wire(w)' = Wire(w)
      BY <1>1, <2>2 DEF Moves, Wire
    <2>4. Took(wk[w].row)'
      BY <1>3, <2>1, <2>3, TookGrows DEF Took, Changed
    <2>5. WorkerInv(w)'
      BY <1>1, <1>3, <2>2, <2>3, <2>4 DEF WorkerInv
    <2> QED
      BY <2>1, <2>2, <2>5 DEF Active
  <1>9. ASSUME UNCHANGED recs, Settle(w, "dlq")
        PROVE  Grows(Local(0)) /\ Moves(w) /\ Active(w)' /\ WorkerInv(w)' /\ wk'[w].pc = "outcome"
    BY <1>1, <1>3, <1>9, SettledInv, StayGrows DEF Outcomes
  <1>10. (UpdatePNR(r, c, e) /\ Goto(w, "answer")) \/ (UNCHANGED recs /\ Settle(w, "dlq"))
    BY <1>2, <1>5 DEF Decide
  <1>11. Between(w, e) \/ Between(w, Local(0))
    BY <1>1, <1>3, <1>7, <1>8, <1>9, <1>10, StayGrows DEF Between, IInv, TypeOK
  <1> QED
    BY <1>11, BetweenInv

(* respond answers a request that was applied. *)
LEMMA AnswerInv ==
    ASSUME IInv, NEW w \in Workers, Answer(w)
    PROVE  IInv'
  <1>1. /\ wk[w].pc = "answer" /\ Active(w) /\ LogGrows /\ TypeOK
        /\ answered' = answered \cup {wk[w].row} /\ Settle(w, "applied")
        /\ UNCHANGED <<log, indexed, recs, locals, faults, forgot, crossed>>
    BY DEF Answer, Active, LogGrows, IInv
  <1>2. Grows(Local(0)) /\ \A i : Local(0) # Applied(i)
    BY <1>1, StayGrows DEF IInv
  <1>3. Took(wk[w].row) /\ wk[w].row \in DOMAIN log
    BY <1>1 DEF IInv, WorkerInv
  <1>4. Moves(w)
    BY <1>1, Settles DEF Outcomes
  <1>5. Earned(wk[w].row)'
    BY <1>1, <1>3, <1>4 DEF Earned, Moves, Took, Changed
  <1>6. Active(w)' /\ WorkerInv(w)' /\ wk'[w].pc = "outcome"
    BY <1>1, <1>5, SettledInv DEF Outcomes
  <1>7. Between(w, Local(0))
    BY <1>1, <1>2, <1>3, <1>4, <1>6 DEF Between, TypeOK
  <1> QED
    BY <1>7, BetweenInv

(* A store call fails, and with it the message. *)
LEMMA FailsInv ==
    ASSUME IInv, NEW w \in Workers, Fails(w)
    PROVE  IInv'
  <1>1. /\ Active(w) /\ LogGrows /\ Settle(w, "dlq") /\ TypeOK
        /\ UNCHANGED <<log, indexed, recs, answered, locals, forgot, crossed>>
        /\ faults < MaxFaults /\ faults' = faults + 1
    BY DEF Fails, Fault, Active, LogGrows, IInv
  <1>2. Grows(Local(0)) /\ \A i : Local(0) # Applied(i)
    BY <1>1, StayGrows DEF IInv
  <1>3. Moves(w) /\ Active(w)' /\ WorkerInv(w)' /\ wk'[w].pc = "outcome"
    BY <1>1, SettledInv DEF Outcomes
  <1>4. faults' \in 0..MaxFaults
    BY <1>1, PipelineAssumption DEF TypeOK
  <1>5. Between(w, Local(0))
    BY <1>1, <1>2, <1>3, <1>4 DEF Between, TypeOK
  <1> QED
    BY <1>5, BetweenInv

---------------------------------------------------------------------------
(* The ends of a call.                                                     *)

(* A worker without a message is idle. *)
LEMMA IdleCall == Idle \in Call /\ Idle.pc = "idle"
  BY PipelineAssumption DEF Idle, Call, PCs

(* A call that is over, or none at all. *)
LEMMA IdleWorker ==
    ASSUME NEW w \in Workers, wk'[w].pc = "idle"
    PROVE  WorkerInv(w)' /\ ~Active(w)'
  BY DEF WorkerInv, Active

(* The outcome is recorded and the row indexed. *)
LEMMA OutcomeInv ==
    ASSUME IInv, NEW w \in Workers, Outcome(w)
    PROVE  IInv'
  <1>1. PICK i, st : i = wk[w].row /\ st = wk[w].out
    OBVIOUS
  <1>2. /\ wk[w].pc = "outcome" /\ Active(w) /\ TypeOK
        /\ log' = [log EXCEPT ![i].status = st]
        /\ indexed' = IF Wire(w) \in Junk \cup Filed THEN indexed ELSE indexed \cup {i}
        /\ wk' = [wk EXCEPT ![w] = Idle]
        /\ UNCHANGED <<recs, answered, locals, faults, forgot, crossed>>
    BY <1>1 DEF Outcome, Active, IInv
  <1>3. i \in DOMAIN log /\ st \in Outcomes /\ (st = "applied" => Earned(i))
    BY <1>1, <1>2 DEF IInv, WorkerInv
  <1>4. log \in Seq([wire : Wires, status : Outcomes \cup {"received"}]) /\ Len(log) <= MaxRows
    BY <1>2 DEF TypeOK
  <1>5. /\ log' \in Seq([wire : Wires, status : Outcomes \cup {"received"}])
        /\ Len(log') <= MaxRows /\ DOMAIN log' = DOMAIN log
        /\ \A j \in DOMAIN log : log'[j].wire = log[j].wire
        /\ \A j \in DOMAIN log : j # i => log'[j] = log[j]
        /\ log'[i].status = st
    <2>1. PICK n : n = [log[i] EXCEPT !.status = st]
      OBVIOUS
    <2>2. log[i] \in [wire : Wires, status : Outcomes \cup {"received"}]
      <3> DEFINE R == [wire : Wires, status : Outcomes \cup {"received"}]
      <3>1. log \in Seq(R)
        BY <1>4
      <3> HIDE DEF R
      <3>2. log[i] \in R
        BY <1>3, <3>1
      <3> QED
        BY <3>2 DEF R
    <2>3. /\ n \in [wire : Wires, status : Outcomes \cup {"received"}]
          /\ n.wire = log[i].wire /\ n.status = st
      BY <1>3, <2>1, <2>2
    <2>4. log' = [log EXCEPT ![i] = n]
      BY <1>2, <2>1
    <2> QED
      BY <1>3, <1>4, <2>3, <2>4
  <1>6. LogGrows
    BY <1>5 DEF LogGrows
  <1>7. Grows(Local(0)) /\ \A j : Local(0) # Applied(j)
    BY <1>2, StayGrows DEF IInv
  <1>8. wk \in [Workers -> Call] /\ wk' \in [Workers -> Call] /\ wk'[w].pc = "idle"
        /\ \A v \in Workers : v # w => wk'[v] = wk[v]
    BY <1>2, IdleCall DEF TypeOK
  <1>9. TypeOK'
    BY <1>2, <1>3, <1>5, <1>8 DEF TypeOK
  <1>10. st = "applied" => Earned(i)'
    BY <1>2, <1>3, <1>6, <1>7, EarnedKept
  <1>11. /\ NoLostUpdate' /\ StatusHonest' /\ TrailInv'
         /\ \A v \in Workers : wk'[v] = wk[v] => WorkerInv(v)'
    BY <1>2, <1>5, <1>6, <1>7, <1>10, Common
  <1>12. \A v \in Workers : WorkerInv(v)'
    BY <1>8, <1>11, IdleWorker
  <1>13. OnceInv' /\ AppliedOnce'
    <2>1. ~Active(w)' /\ wk'[w].pc = "idle"
      BY <1>8, IdleWorker
    <2>2. Took(i) => i \in indexed'
      <3>1. i \in Rows
        BY <1>3, <1>4, PipelineAssumption DEF Rows
      <3> QED
        BY <1>1, <1>2, <3>1 DEF IInv, TrailInv, Wire
    <2>3. \A j : Took(j)' => Took(j)
      BY <1>7, TookGrows
    <2> QED
      BY <1>1, <1>2, <1>5, <1>6, <1>8, <2>1, <2>2, <2>3, OnceKept
  <1> QED
    BY <1>9, <1>11, <1>12, <1>13 DEF IInv

(* A step that leaves the log and the records and forgets calls. *)
LEMMA ForgetInv ==
    ASSUME IInv, wk' \in [Workers -> Call], forgot' = TRUE, Fault,
           \A v \in Workers : wk'[v] = wk[v] \/ wk'[v].pc = "idle",
           UNCHANGED <<log, indexed, recs, answered, locals, crossed>>
    PROVE  IInv'
  <1>1. Grows(Local(0)) /\ (\A i : Local(0) # Applied(i)) /\ LogGrows
    BY StayGrows DEF IInv, LogGrows
  <1>2. faults' \in 0..MaxFaults
    BY PipelineAssumption DEF IInv, TypeOK, Fault
  <1>3. TypeOK'
    BY <1>2 DEF IInv, TypeOK
  <1>4. /\ NoLostUpdate' /\ StatusHonest' /\ TrailInv'
        /\ \A v \in Workers : wk'[v] = wk[v] => WorkerInv(v)'
    BY <1>1, Common
  <1>5. \A v \in Workers : WorkerInv(v)'
    BY <1>4, IdleWorker
  <1> QED
    BY <1>3, <1>4, <1>5 DEF IInv, OnceInv, AppliedOnce

(* The outcome is not recorded: the row stays received. *)
LEMMA OutcomeLostInv ==
    ASSUME IInv, NEW w \in Workers, OutcomeLost(w)
    PROVE  IInv'
  <1>1. wk' \in [Workers -> Call] /\ \A v \in Workers : wk'[v] = wk[v] \/ wk'[v].pc = "idle"
    BY IdleCall DEF OutcomeLost, IInv, TypeOK
  <1> QED
    BY <1>1, ForgetInv DEF OutcomeLost

(* All calls end where they are. *)
LEMMA CrashInv == ASSUME IInv, Crash PROVE IInv'
  <1>1. wk' \in [Workers -> Call] /\ \A v \in Workers : wk'[v] = wk[v] \/ wk'[v].pc = "idle"
    BY IdleCall DEF Crash
  <1> QED
    BY <1>1, ForgetInv DEF Crash

---------------------------------------------------------------------------
(* The start of a call, and local operations.                              *)

(* A message is captured under a new row, which nothing names yet. *)
LEMMA CaptureInv ==
    ASSUME IInv, NEW w \in Workers, NEW m \in Wires, Capture(w, m)
    PROVE  IInv'
  <1> DEFINE R == [wire : Wires, status : Outcomes \cup {"received"}]
  <1>1. PICK i, n : i = Len(log) + 1 /\ n = [wire |-> m, status |-> "received"]
    OBVIOUS
  <1>2. /\ wk[w].pc = "idle" /\ Len(log) < MaxRows /\ log' = Append(log, n)
        /\ wk' = [wk EXCEPT ![w] = [Idle EXCEPT !.pc = "process", !.row = i]]
        /\ UNCHANGED <<indexed, recs, answered, locals, faults, forgot>> /\ TypeOK
        /\ log \in Seq(R) /\ Len(log) <= MaxRows
        /\ crossed \subseteq crossed' /\ crossed' \subseteq Wires
        /\ (\E v \in Workers : Active(v) /\ Wire(v) = m) => m \in crossed'
    BY <1>1 DEF Capture, IInv, TypeOK, Active, Wire
  <1>3. n \in R /\ n.wire = m /\ n.status = "received"
    BY <1>1
  <1> HIDE DEF R
  <1>4. /\ log' \in Seq(R) /\ Len(log') = i /\ i \in 1..MaxRows
        /\ i \notin DOMAIN log /\ DOMAIN log' = DOMAIN log \cup {i} /\ log'[i] = n
        /\ \A j \in DOMAIN log : log'[j] = log[j]
    BY <1>1, <1>2, <1>3, PipelineAssumption
  <1>5. LogGrows
    BY <1>4 DEF LogGrows
  <1>6. Grows(Local(0)) /\ \A j : Local(0) # Applied(j)
    BY <1>2, StayGrows DEF IInv
  <1>7. PICK k : k = [Idle EXCEPT !.pc = "process", !.row = i]
    OBVIOUS
  <1>8. k \in Call /\ k.pc = "process" /\ k.row = i
    <2>1. k = [pc |-> "process", row |-> i, rec |-> 0, copy |-> None, tries |-> 0, out |-> None]
      BY <1>7 DEF Idle
    <2>2. i \in 0..MaxRows /\ 0 \in 0..MaxRecords /\ 0 \in 0..(MaxAttempts - 1) /\ "process" \in PCs
      BY <1>4, PipelineAssumption DEF PCs
    <2> QED
      BY <2>1, <2>2 DEF Call
  <1>9. /\ wk' \in [Workers -> Call] /\ wk'[w].pc = "process" /\ wk'[w].row = i
        /\ \A v \in Workers : v # w => wk'[v] = wk[v]
    BY <1>2, <1>7, <1>8 DEF TypeOK
  <1>10. TypeOK'
    <2>1. Len(log') <= MaxRows
      BY <1>4, PipelineAssumption
    <2>2. indexed' \subseteq DOMAIN log' /\ answered' \subseteq DOMAIN log'
      BY <1>2, <1>4 DEF TypeOK
    <2> QED
      BY <1>2, <1>4, <1>9, <2>1, <2>2 DEF TypeOK, R
  <1>11. /\ NoLostUpdate' /\ StatusHonest' /\ TrailInv'
         /\ \A v \in Workers : wk'[v] = wk[v] => WorkerInv(v)'
    <2>1. \A j \in DOMAIN log' : log'[j].status = "applied" => j \in DOMAIN log /\ log[j].status = "applied"
      BY <1>3, <1>4
    <2> QED
      BY <1>2, <1>5, <1>6, <2>1, Common
  <1>12. WorkerInv(w)'
    BY <1>4, <1>9 DEF WorkerInv
  <1>13. \A v \in Workers : WorkerInv(v)'
    BY <1>9, <1>11, <1>12
  <1>14. OnceInv' /\ AppliedOnce'
    <2> SUFFICES ASSUME ~forgot PROVE OnceInv' /\ AppliedOnce'
      BY <1>2 DEF OnceInv, AppliedOnce
    <2>1. \A j : Took(j)' => Took(j)
      BY <1>6, TookGrows
    <2>2. ~Took(i)'
      <3>1. i \in Rows
        BY <1>4 DEF Rows
      <3> QED
        BY <1>4, <2>1, <3>1 DEF IInv, TrailInv
    <2>3. Wire(w)' = m /\ \A v \in Workers : v # w =>
             /\ Active(v)' = Active(v)
             /\ Active(v) => Wire(v)' = Wire(v) /\ wk'[v].row = wk[v].row /\ wk[v].row \in DOMAIN log
      BY <1>3, <1>4, <1>9 DEF Wire, Active, IInv, WorkerInv
    <2>4. ~Active(w)
      BY <1>2 DEF Active
    <2>5. ASSUME NEW u \in Workers, NEW v \in Workers, v # u, Active(v)', Active(u)', Wire(v)' = Wire(u)'
          PROVE  Wire(u)' \in crossed'
      <3>1. CASE u = w
        BY <1>2, <2>3, <2>5, <3>1
      <3>2. CASE v = w
        BY <1>2, <2>3, <2>5, <3>2
      <3>3. CASE u # w /\ v # w
        <4>1. Wire(u) \in crossed
          BY <2>3, <2>5, <3>3 DEF IInv, OnceInv
        <4> QED
          BY <1>2, <2>3, <2>5, <3>3, <4>1
      <3> QED
        BY <3>1, <3>2, <3>3
    <2>6. ASSUME NEW j \in DOMAIN log', Took(j)'
          PROVE  j \in indexed' \/ \E v \in Workers : Active(v)' /\ wk'[v].row = j
      <3>1. j \in DOMAIN log /\ Took(j)
        BY <1>4, <2>1, <2>2, <2>6
      <3>2. CASE j \in indexed
        BY <1>2, <3>2
      <3>3. CASE \E v \in Workers : Active(v) /\ wk[v].row = j
        BY <2>3, <2>4, <3>3
      <3> QED
        BY <3>1, <3>2, <3>3 DEF IInv, OnceInv
    <2>7. ASSUME NEW v \in Workers, wk'[v].pc \in {"read", "write"}, Wire(v)' \notin crossed',
                 NEW j \in DOMAIN log', j # wk'[v].row, log'[j].wire = Wire(v)'
          PROVE  ~Took(j)'
      <3>1. v # w /\ Active(v)' /\ wk'[v] = wk[v]
        BY <1>9, <2>7 DEF Active
      <3>2. CASE j = i
        BY <2>2, <3>2
      <3>3. CASE j \in DOMAIN log
        <4>1. ~Took(j)
          BY <1>2, <1>4, <2>3, <2>7, <3>1, <3>3 DEF IInv, OnceInv
        <4> QED
          BY <2>1, <4>1
      <3> QED
        BY <1>4, <3>2, <3>3
    <2>8. OnceInv'
      BY <2>5, <2>6, <2>7 DEF OnceInv
    <2>9. ASSUME NEW x \in DOMAIN log', NEW y \in DOMAIN log', x # y, log'[x].wire = log'[y].wire,
                 log'[x].wire \notin crossed', Took(x)', Took(y)'
          PROVE  FALSE
      <3>1. x \in DOMAIN log /\ y \in DOMAIN log /\ Took(x) /\ Took(y)
        BY <1>4, <2>1, <2>2, <2>9
      <3> QED
        BY <1>2, <1>4, <2>9, <3>1 DEF IInv, AppliedOnce
    <2>10. AppliedOnce'
      BY <2>9 DEF AppliedOnce
    <2> QED
      BY <2>8, <2>10
  <1> QED
    BY <1>10, <1>11, <1>13, <1>14 DEF IInv

(* A local operation reads and writes a record under its version. *)
LEMMA LocalWriteInv == ASSUME IInv, LocalWrite PROVE IInv'
  <1>1. /\ locals < MaxLocal /\ locals' = locals + 1 /\ LogGrows /\ TypeOK /\ NoLostUpdate
        /\ UNCHANGED <<log, indexed, answered, wk, faults, forgot, crossed>>
    BY DEF LocalWrite, LogGrows, IInv
  <1>2. PICK e : e = Local(locals + 1)
    OBVIOUS
  <1>3. e \in Effects /\ locals' \in 0..MaxLocal /\ \A i : e # Applied(i)
    BY <1>1, <1>2, PipelineAssumption DEF TypeOK, Effects, Local, Applied
  <1>4. PICK r \in DOMAIN recs : UpdatePNR(r, [recs[r] EXCEPT !.state = @ \cup {e}], e)
    BY <1>2 DEF LocalWrite
  <1>5. PICK o, c : o = recs[r] /\ c = [o EXCEPT !.state = @ \cup {e}]
    OBVIOUS
  <1>6. o \in Record
    BY <1>1, <1>4, <1>5 DEF TypeOK
  <1>7. c \in Record /\ c.ver = o.ver /\ c.state = o.state \cup {e} /\ c.events = o.events
    BY <1>3, <1>5, <1>6, Touched
  <1>8. Grows(e)
    BY <1>1, <1>3, <1>4, <1>5, <1>7, UpdateGrows
  <1>9. TypeOK'
    BY <1>1, <1>3, <1>8 DEF TypeOK, Grows
  <1>10. /\ NoLostUpdate' /\ StatusHonest' /\ TrailInv'
         /\ \A v \in Workers : wk'[v] = wk[v] => WorkerInv(v)'
    BY <1>1, <1>3, <1>8, Common
  <1>11. \A i : Took(i)' => Took(i)
    BY <1>3, <1>8, TookGrows
  <1>12. OnceInv'
    BY <1>1, <1>11 DEF IInv, OnceInv, Active, Wire
  <1>13. AppliedOnce'
    BY <1>1, <1>11 DEF IInv, AppliedOnce
  <1> QED
    BY <1>1, <1>9, <1>10, <1>12, <1>13 DEF IInv

---------------------------------------------------------------------------
(* The theorems.                                                           *)

(* At the start the log and the book are empty. *)
LEMMA InitInv == Init => IInv
  <1> SUFFICES ASSUME Init PROVE IInv
    OBVIOUS
  <1>1. TypeOK
    <2>1. wk \in [Workers -> Call]
      BY IdleCall DEF Init
    <2>2. locals \in 0..MaxLocal /\ faults \in 0..MaxFaults /\ Len(log) <= MaxRows /\ Len(recs) <= MaxRecords
      BY PipelineAssumption DEF Init
    <2>3. /\ log \in Seq([wire : Wires, status : Outcomes \cup {"received"}]) /\ recs \in Seq(Record)
      BY DEF Init
    <2>4. indexed \subseteq DOMAIN log /\ answered \subseteq DOMAIN log /\ crossed \subseteq Wires
      BY DEF Init
    <2>5. forgot \in BOOLEAN
      BY DEF Init
    <2> QED
      BY <2>1, <2>2, <2>3, <2>4, <2>5 DEF TypeOK
  <1>2. NoLostUpdate /\ StatusHonest /\ TrailInv
    BY DEF Init, NoLostUpdate, StatusHonest, TrailInv, Took
  <1>3. \A w \in Workers : WorkerInv(w)
    BY IdleCall DEF Init, WorkerInv, Active
  <1>4. OnceInv /\ AppliedOnce
    BY IdleCall DEF Init, OnceInv, AppliedOnce, Active
  <1> QED
    BY <1>1, <1>2, <1>3, <1>4 DEF IInv

(* IInv is inductive. *)
LEMMA NextInv == IInv /\ [Next]_vars => IInv'
  <1> SUFFICES ASSUME IInv, [Next]_vars PROVE IInv'
    OBVIOUS
  <1>1. CASE UNCHANGED vars
    <2>1. Grows(Local(0)) /\ (\A i : Local(0) # Applied(i)) /\ LogGrows
      BY <1>1, StayGrows DEF IInv, vars, LogGrows
    <2>2. NoLostUpdate' /\ StatusHonest' /\ TrailInv' /\ \A v \in Workers : WorkerInv(v)'
      BY <1>1, <2>1, Common DEF vars
    <2>3. TypeOK'
      BY <1>1 DEF vars, IInv, TypeOK
    <2>4. OnceInv' /\ AppliedOnce'
      BY <1>1 DEF vars, IInv, OnceInv, AppliedOnce, Active, Wire, Took, Changed
    <2> QED
      BY <2>2, <2>3, <2>4 DEF IInv
  <1>2. ASSUME NEW w \in Workers, Deliver(w) PROVE IInv'
    BY <1>2, CaptureInv DEF Deliver
  <1>3. ASSUME NEW w \in Workers, Replay(w) PROVE IInv'
    <2>1. PICK i \in DOMAIN log : Capture(w, log[i].wire)
      BY <1>3 DEF Replay
    <2>2. log[i].wire \in Wires
      <3> DEFINE R == [wire : Wires, status : Outcomes \cup {"received"}]
      <3>1. log \in Seq(R)
        BY DEF IInv, TypeOK
      <3> HIDE DEF R
      <3>2. log[i] \in R
        BY <2>1, <3>1
      <3> QED
        BY <3>2 DEF R
    <2>3. PICK m \in Wires : m = log[i].wire
      BY <2>2
    <2> QED
      BY <2>1, <2>3, CaptureInv
  <1>4. ASSUME NEW w \in Workers, Step(w) PROVE IInv'
    BY <1>4, ProcessInv, ResolveInv, WriteInv, ConflictInv, DecideInv, AnswerInv, OutcomeInv DEF Step
  <1>5. ASSUME NEW w \in Workers, ProcessUnchecked(w) \/ Fails(w) \/ OutcomeLost(w) PROVE IInv'
    BY <1>5, ProcessUncheckedInv, FailsInv, OutcomeLostInv
  <1>6. CASE LocalWrite \/ Crash
    BY <1>6, LocalWriteInv, CrashInv
  <1> QED
    BY <1>1, <1>2, <1>3, <1>4, <1>5, <1>6 DEF Next

(* IInv is an invariant of the specification. *)
LEMMA Invariant == Spec => []IInv
  BY InitInv, NextInv, PTL DEF Spec

(* The log, the index, the records and every call keep their types. *)
THEOREM TypeCorrect == Spec => []TypeOK
  <1>1. IInv => TypeOK
    BY DEF IInv
  <1> QED
    BY <1>1, Invariant, PTL

(* apply, respond and store UpdatePNR: whatever number of calls and local  *)
(* operations write to a record, and however they interleave, crash or     *)
(* retry, its stored state is what its event trail says: a write under a   *)
(* version that is not the one read never lands.                           *)
THEOREM UpdatesKept == Spec => []NoLostUpdate
  <1>1. IInv => NoLostUpdate
    BY DEF IInv
  <1> QED
    BY <1>1, Invariant, PTL

(* IngestWith and the update of the outcome: no interleaving of calls,     *)
(* failures and crashes makes the log say applied of a message that        *)
(* changed no record it should have, or of a request nobody answered.      *)
THEOREM NoFalseSuccess == Spec => []StatusHonest
  <1>1. IInv => StatusHonest
    BY DEF IInv
  <1> QED
    BY <1>1, Invariant, PTL

(* process and the dedup index: any number of copies of a message, each    *)
(* captured after the others left the pipeline, change records once, as    *)
(* long as every outcome and every lookup reached the store.               *)
THEOREM CopiesAppliedOnce == Spec => []AppliedOnce
  <1>1. IInv => AppliedOnce
    BY DEF IInv
  <1> QED
    BY <1>1, Invariant, PTL

=============================================================================
