------------------------- MODULE ConversationProofs -------------------------
(***************************************************************************)
(* For any flights, carriers, agents and bounds: a passenger the engine    *)
(* moved holds the new leg, or it was cancelled, or its refusal is on the  *)
(* worklist.                                                               *)
(*                                                                         *)
(* This is not inductive.  The engine acts on a status it read earlier, so *)
(* between the two the leg must already be held in this sense; and a reply *)
(* names a flight and is applied to the record's first segment on it,      *)
(* while the change is noticed by comparing with the last one, so it       *)
(* matters which statuses a segment that is not the first can have.        *)
(***************************************************************************)
EXTENDS Conversation, TLAPS, NaturalsInduction, WellFoundedInduction

(* What a carrier answers with. *)
Codes == {"KK", "US", "UC", "UN", "NO"}

(* The statuses a segment has until a reply changes it. *)
Unanswered == {"HN", "HK", "TK", "XX"}

IsSeq(s) == s \in Seq({s[i] : i \in DOMAIN s})

IsSeg(s) == s = [f |-> s.f, st |-> s.st, seats |-> s.seats]

IsSegs(segs) == IsSeq(segs) /\ \A i \in DOMAIN segs : IsSeg(segs[i])

(* Replies never reach a segment behind another one on the same flight. *)
BehindUnanswered(segs) == \A i \in DOMAIN segs :
    i # SegmentByKey(segs, segs[i].f) => segs[i].st \in Unanswered

IsRec(rec) ==
    /\ rec = [pax |-> rec.pax, segs |-> rec.segs, open |-> rec.open, locs |-> rec.locs,
              asks |-> rec.asks, n |-> rec.n]
    /\ IsSegs(rec.segs) /\ BehindUnanswered(rec.segs)

RecsInv == IsSeq(recs) /\ \A r \in DOMAIN recs : IsRec(recs[r])

(* A Book in progress has only decided between HK and HN. *)
ApiInv ==
    /\ api = [a \in Agents |-> api[a]]
    /\ \A a \in Agents : api[a] # None =>
          IsSegs(api[a].segs) /\ \A i \in DOMAIN api[a].segs : api[a].segs[i].st \in {"HN", "HK"}

(* Carriers answer with codes. *)
OutsInv(rd) == rd.outs # None => \A f \in DOMAIN rd.outs : rd.outs[f] \in Codes
ReaderInv ==
    /\ reader = [x \in Carriers \X Readers |-> reader[x]]
    /\ \A x \in Carriers \X Readers :
          /\ reader[x] = [k |-> reader[x].k, outs |-> reader[x].outs, ver |-> reader[x].ver,
                         segs |-> reader[x].segs]
          /\ OutsInv(reader[x])
NetInv == \A m \in net : m.kind = "reply" => \A f \in DOMAIN m.codes : m.codes[f] \in Codes

(* A task of a cancelled flight is about a record there is. *)
ItemInv == \A it \in items : it.code = "schedule_cnl" => it.rec \in DOMAIN recs

HasSeg(r, i) == r \in DOMAIN recs /\ i \in DOMAIN recs[r].segs

(* What MovedIsHeld says of one leg. *)
Noticed(r, i) == \E it \in items : it.rec = r /\ it.seg = i /\ it.code \in {"unable", "waitlisted"}
Held(r, i) == recs[r].segs[i].st \in Confirmed \cup {"XX"} \/ Noticed(r, i)

(* The leg the engine is about to call confirmed is held, by now perhaps   *)
(* only in the sense that its refusal has been noticed.                    *)
EngInv ==
    /\ eng = [pc |-> eng.pc, r |-> eng.r, dead |-> eng.dead, at |-> eng.at, ask |-> eng.ask,
              alt |-> eng.alt, st |-> eng.st, wl |-> eng.wl]
    /\ eng.pc # "idle" => eng.r \in DOMAIN recs
    /\ eng.pc \in {"await", "act"} => HasSeg(eng.r, eng.alt)
    /\ eng.pc = "act" /\ eng.st \in Confirmed => Held(eng.r, eng.alt)

WorkedInv == \A x \in worked : HasSeg(x.rec, x.to) /\ Held(x.rec, x.to)

IInv == RecsInv /\ ApiInv /\ ReaderInv /\ NetInv /\ ItemInv /\ EngInv /\ WorkedInv

(* What no step does: lose a segment, or take a leg from a passenger       *)
(* unnoticed.                                                              *)
Keeps == \A r, i : HasSeg(r, i) =>
    /\ HasSeg(r, i)'
    /\ Held(r, i) => Held(r, i)'

---------------------------------------------------------------------------
(* Sequences.                                                              *)

(* The length of a sequence, and that its domain is what it says. *)
LEMMA SeqDomain ==
    ASSUME NEW s, IsSeq(s)
    PROVE  Len(s) \in Nat /\ DOMAIN s = 1..Len(s) /\ s = [i \in DOMAIN s |-> s[i]]
  BY DEF IsSeq

(* A function over 1..n is a sequence. *)
LEMMA SeqByDomain ==
    ASSUME NEW s, NEW n \in Nat, DOMAIN s = 1..n, s = [i \in DOMAIN s |-> s[i]]
    PROVE  IsSeq(s) /\ Len(s) = n
  <1> DEFINE R == {s[i] : i \in DOMAIN s}
  <1>1. s \in [1..n -> R]
    OBVIOUS
  <1> HIDE DEF R
  <1>2. s \in Seq(R) /\ Len(s) = n
    BY <1>1
  <1> QED
    BY <1>2 DEF IsSeq, R

(* A function over a sequence's domain is one. *)
LEMMA SeqLike ==
    ASSUME NEW s, IsSeq(s), NEW t, DOMAIN t = DOMAIN s, t = [i \in DOMAIN t |-> t[i]]
    PROVE  IsSeq(t) /\ Len(t) = Len(s)
  BY SeqDomain, SeqByDomain

(* Append adds one place at the end and leaves the others. *)
LEMMA SeqAppend ==
    ASSUME NEW s, IsSeq(s), NEW e
    PROVE  /\ IsSeq(Append(s, e)) /\ Len(s) \in Nat /\ Len(Append(s, e)) = Len(s) + 1
           /\ DOMAIN s = 1..Len(s) /\ DOMAIN Append(s, e) = 1..(Len(s) + 1)
           /\ \A i \in DOMAIN s : Append(s, e)[i] = s[i]
           /\ Append(s, e)[Len(s) + 1] = e
  <1> DEFINE R == {s[i] : i \in DOMAIN s} \cup {e}
             t == Append(s, e)
  <1>1. s \in Seq(R) /\ e \in R
    <2>1. s = [i \in 1..Len(s) |-> s[i]] /\ Len(s) \in Nat
      BY SeqDomain
    <2>2. \A i \in 1..Len(s) : s[i] \in R
      BY SeqDomain
    <2> HIDE DEF R
    <2>3. s \in Seq(R)
      BY <2>1, <2>2
    <2> QED
      BY <2>3 DEF R
  <1> HIDE DEF R
  <1>2. t \in Seq(R) /\ Len(t) = Len(s) + 1 /\ Len(s) \in Nat
    BY <1>1
  <1>3. DOMAIN t = 1..(Len(s) + 1) /\ t = [i \in DOMAIN t |-> t[i]] /\ Len(s) + 1 \in Nat
    <2> HIDE DEF t
    <2>1. t \in [1..Len(t) -> R]
      BY <1>2
    <2> QED
      BY <1>2, <2>1
  <1>4. IsSeq(t)
    BY <1>3, SeqByDomain
  <1>5. DOMAIN s = 1..Len(s) /\ (\A i \in DOMAIN s : t[i] = s[i]) /\ t[Len(s) + 1] = e
    BY <1>1
  <1> QED
    BY <1>2, <1>3, <1>4, <1>5

---------------------------------------------------------------------------
(* The first and the last of a set of places.                              *)

(* A set of naturals has a least element. *)
LEMMA Least ==
    ASSUME NEW S \in SUBSET Nat, S # {}
    PROVE  \E x \in S : \A y \in S : x <= y
  <1> DEFINE R == OpToRel(<, Nat)
  <1>1. IsWellFoundedOn(R, Nat)
    BY NatLessThanWellFounded
  <1>2. \A x, y \in Nat : <<x, y>> \in R <=> x < y
    BY DEF OpToRel
  <1> HIDE DEF R
  <1>3. PICK x \in S : \A y \in S : ~(<<y, x>> \in R)
    BY <1>1, WFMin
  <1>4. ASSUME NEW y \in S PROVE x <= y
    <2>1. x \in Nat /\ y \in Nat
      OBVIOUS
    <2>2. ~(y < x)
      BY <1>2, <1>3, <2>1, Zenon
    <2> QED
      BY <2>1, <2>2
  <1> QED
    BY <1>4

(* A set of numbers that is not empty has a least one, and Min is it. *)
LEMMA MinIs ==
    ASSUME NEW S \in SUBSET Nat, S # {}
    PROVE  Min(S) \in S /\ \A y \in S : Min(S) <= y
  BY Least DEF Min

(* The greatest of a bounded set is the least of its bounds. *)
LEMMA MaxIn ==
    ASSUME NEW n \in Nat, NEW S \in SUBSET (1..n), S # {}
    PROVE  Max(S) \in S
  <1> DEFINE B == {b \in Nat : \A x \in S : x <= b}
  <1>1. B \in SUBSET Nat /\ B # {}
    OBVIOUS
  <1>2. PICK b \in B : \A c \in B : b <= c
    BY <1>1, Least
  <1>3. PICK x \in S : TRUE
    OBVIOUS
  <1>4. b \in S
    <2> SUFFICES ASSUME b \notin S PROVE FALSE
      OBVIOUS
    <2>1. \A y \in S : y <= b - 1
      OBVIOUS
    <2>2. x \in Nat /\ b \in Nat /\ x <= b - 1
      BY <2>1
    <2>3. b - 1 \in B
      BY <2>1, <2>2
    <2> QED
      BY <1>2, <2>2, <2>3
  <1>5. \A y \in S : b >= y
    OBVIOUS
  <1> QED
    BY <1>4, <1>5 DEF Max

---------------------------------------------------------------------------
(* Segments and records.                                                   *)

(* SegmentByKey finds the first segment on a segment's flight. *)
LEMMA KeyFirst ==
    ASSUME NEW segs, IsSeq(segs), NEW i \in DOMAIN segs
    PROVE  /\ SegmentByKey(segs, segs[i].f) \in DOMAIN segs
           /\ segs[SegmentByKey(segs, segs[i].f)].f = segs[i].f
           /\ SegmentByKey(segs, segs[i].f) <= i
           /\ \A j \in DOMAIN segs : segs[j].f = segs[i].f => SegmentByKey(segs, segs[i].f) <= j
  <1> DEFINE at == {j \in DOMAIN segs : segs[j].f = segs[i].f}
  <1>1. at \in SUBSET Nat /\ i \in at
    BY SeqDomain
  <1>2. Min(at) \in at /\ \A j \in at : Min(at) <= j
    BY <1>1, MinIs
  <1>3. SegmentByKey(segs, segs[i].f) = Min(at)
    BY <1>1 DEF SegmentByKey
  <1> QED
    BY <1>1, <1>2, <1>3

(* It goes by the flights alone. *)
LEMMA KeySame ==
    ASSUME NEW was, NEW now, DOMAIN now = DOMAIN was, \A i \in DOMAIN was : now[i].f = was[i].f, NEW f
    PROVE  SegmentByKey(now, f) = SegmentByKey(was, f)
  <1>1. {i \in DOMAIN now : now[i].f = f} = {i \in DOMAIN was : was[i].f = f}
    OBVIOUS
  <1> QED
    BY <1>1 DEF SegmentByKey

(* A segment added is the first on its flight only if there was none. *)
LEMMA KeyAppend ==
    ASSUME NEW segs, IsSeq(segs), NEW seg, NEW i \in DOMAIN segs
    PROVE  SegmentByKey(Append(segs, seg), segs[i].f) = SegmentByKey(segs, segs[i].f)
  <1> DEFINE now == Append(segs, seg)
             k   == SegmentByKey(segs, segs[i].f)
             l   == SegmentByKey(now, segs[i].f)
  <1>1. /\ IsSeq(now) /\ Len(segs) \in Nat /\ DOMAIN segs = 1..Len(segs)
        /\ DOMAIN now = 1..(Len(segs) + 1) /\ \A j \in DOMAIN segs : now[j] = segs[j]
    BY SeqAppend
  <1>2. i \in DOMAIN now /\ now[i].f = segs[i].f
    BY <1>1
  <1> HIDE DEF now
  <1>3. /\ k \in DOMAIN segs /\ segs[k].f = segs[i].f /\ k <= i
        /\ \A j \in DOMAIN segs : segs[j].f = segs[i].f => k <= j
    BY KeyFirst
  <1>4. /\ l \in DOMAIN now /\ now[l].f = segs[i].f /\ l <= i
        /\ \A j \in DOMAIN now : now[j].f = segs[i].f => l <= j
    BY <1>1, <1>2, KeyFirst
  <1> HIDE DEF k, l
  <1>5. l \in DOMAIN segs
    BY <1>1, <1>4
  <1>6. l <= k /\ k <= l
    BY <1>1, <1>3, <1>4, <1>5
  <1>7. l = k
    BY <1>1, <1>3, <1>5, <1>6
  <1> QED
    BY <1>7 DEF now, k, l

(* A segment with another status. *)
LEMMA SegWith ==
    ASSUME NEW s, IsSeg(s), NEW st
    PROVE  IsSeg([s EXCEPT !.st = st]) /\ [s EXCEPT !.st = st].f = s.f /\ [s EXCEPT !.st = st].st = st
  <1>1. PICK a, b, c : a = s.f /\ b = s.st /\ c = s.seats
    OBVIOUS
  <1>2. s = [f |-> a, st |-> b, seats |-> c]
    BY <1>1 DEF IsSeg
  <1>3. [s EXCEPT !.st = st] = [f |-> a, st |-> st, seats |-> c]
    BY <1>2
  <1> QED
    BY <1>1, <1>3 DEF IsSeg

(* Statuses changed in place, of segments that are behind another only to  *)
(* one that is no answer.                                                  *)
Restated(was, now) ==
    /\ DOMAIN now = DOMAIN was /\ now = [i \in DOMAIN now |-> now[i]]
    /\ \A i \in DOMAIN was : /\ IsSeg(now[i]) /\ now[i].f = was[i].f
                             /\ \/ now[i].st = was[i].st
                                \/ now[i].st \in Unanswered
                                \/ i = SegmentByKey(was, was[i].f)

(* Segments with other statuses are segments still. *)
LEMMA RestatedKeeps ==
    ASSUME NEW was, NEW now, IsSegs(was), BehindUnanswered(was), Restated(was, now)
    PROVE  IsSegs(now) /\ BehindUnanswered(now)
  <1>1. IsSegs(now)
    BY SeqLike DEF IsSegs, Restated
  <1>2. ASSUME NEW i \in DOMAIN now, i # SegmentByKey(now, now[i].f)
        PROVE  now[i].st \in Unanswered
    <2>1. i \in DOMAIN was /\ now[i].f = was[i].f /\ SegmentByKey(now, now[i].f) = SegmentByKey(was, was[i].f)
      BY KeySame DEF Restated
    <2>2. was[i].st \in Unanswered
      BY <1>2, <2>1 DEF BehindUnanswered
    <2> QED
      BY <1>2, <2>1, <2>2 DEF Restated
  <1> QED
    BY <1>1, <1>2 DEF BehindUnanswered

(* A value with the fields of a record, these segments among them. *)
Shaped(rec, segs) == \E a, c, d, e, g :
    rec = [pax |-> a, segs |-> segs, open |-> c, locs |-> d, asks |-> e, n |-> g]

(* A record has the shape of one with its own segments. *)
LEMMA RecShaped ==
    ASSUME NEW rec, IsRec(rec)
    PROVE  Shaped(rec, rec.segs)
  <1>1. rec = [pax |-> rec.pax, segs |-> rec.segs, open |-> rec.open, locs |-> rec.locs,
               asks |-> rec.asks, n |-> rec.n]
    BY DEF IsRec
  <1> QED
    BY <1>1, Zenon DEF Shaped

(* A shape with good segments is a good record. *)
LEMMA ShapedRec ==
    ASSUME NEW rec, NEW segs, Shaped(rec, segs), IsSegs(segs), BehindUnanswered(segs)
    PROVE  IsRec(rec) /\ rec.segs = segs
  <1>1. PICK a, c, d, e, g :
           rec = [pax |-> a, segs |-> segs, open |-> c, locs |-> d, asks |-> e, n |-> g]
    BY DEF Shaped
  <1> QED
    BY <1>1 DEF IsRec

(* What is left of the shape by a change of each field. *)
LEMMA ShapedSet ==
    ASSUME NEW rec, NEW segs, Shaped(rec, segs), NEW x
    PROVE  /\ Shaped([rec EXCEPT !.segs = x], x)
           /\ Shaped([rec EXCEPT !.open = x], segs)
           /\ Shaped([rec EXCEPT !.asks = x], segs)
           /\ Shaped([rec EXCEPT !.locs = x], segs)
           /\ Shaped([rec EXCEPT !.n = x], segs)
  <1>1. PICK a, c, d, e, g :
           rec = [pax |-> a, segs |-> segs, open |-> c, locs |-> d, asks |-> e, n |-> g]
    BY DEF Shaped
  <1>2. ASSUME NEW y, NEW s, NEW o, NEW l, NEW k, NEW m,
               y = [pax |-> a, segs |-> s, open |-> o, locs |-> l, asks |-> k, n |-> m]
        PROVE  Shaped(y, s)
    BY <1>2, Zenon DEF Shaped
  <1>3. PICK y : y = [rec EXCEPT !.segs = x]
    OBVIOUS
  <1>4. Shaped(y, x)
    BY <1>1, <1>2, <1>3
  <1>5. PICK z : z = [rec EXCEPT !.open = x]
    OBVIOUS
  <1>6. Shaped(z, segs)
    BY <1>1, <1>2, <1>5
  <1>7. PICK u : u = [rec EXCEPT !.asks = x]
    OBVIOUS
  <1>8. Shaped(u, segs)
    BY <1>1, <1>2, <1>7
  <1>9. PICK v : v = [rec EXCEPT !.locs = x]
    OBVIOUS
  <1>10. Shaped(v, segs)
    BY <1>1, <1>2, <1>9
  <1>11. PICK w : w = [rec EXCEPT !.n = x]
    OBVIOUS
  <1>12. Shaped(w, segs)
    BY <1>1, <1>2, <1>11
  <1> QED
    BY <1>3, <1>4, <1>5, <1>6, <1>7, <1>8, <1>9, <1>10, <1>11, <1>12

(* Recompute closes or opens a record and keeps its shape. *)
LEMMA RecomputeShaped ==
    ASSUME NEW rec, NEW segs, Shaped(rec, segs)
    PROVE  Shaped(Recompute(rec), segs)
  <1>1. PICK o : Recompute(rec) = [rec EXCEPT !.open = o]
    BY Zenon DEF Recompute
  <1>2. Shaped([rec EXCEPT !.open = o], segs)
    BY ShapedSet
  <1> QED
    BY <1>1, <1>2

(* Noting whom a record asked keeps its shape. *)
LEMMA AskedShaped ==
    ASSUME NEW rec, NEW segs, Shaped(rec, segs), NEW cs
    PROVE  Shaped(Asked(rec, cs), segs)
  <1>1. PICK x, y : Asked(rec, cs) = [[rec EXCEPT !.asks = x] EXCEPT !.n = y]
    BY Zenon DEF Asked
  <1>2. Shaped([rec EXCEPT !.asks = x], segs)
    BY ShapedSet
  <1>3. Shaped([[rec EXCEPT !.asks = x] EXCEPT !.n = y], segs)
    BY <1>2, ShapedSet
  <1> QED
    BY <1>1, <1>3

(* Cancel *)
LEMMA CancelledIs ==
    ASSUME NEW rec, IsRec(rec), NEW refs
    PROVE  /\ IsRec(Cancelled(rec, refs))
           /\ DOMAIN Cancelled(rec, refs).segs = DOMAIN rec.segs
           /\ \A i \in DOMAIN rec.segs :
                 Cancelled(rec, refs).segs[i].st \in {rec.segs[i].st, "XX"}
  <1> DEFINE was == rec.segs
             now == [i \in DOMAIN was |-> IF i \in refs THEN [was[i] EXCEPT !.st = "XX"] ELSE was[i]]
             new == Cancelled(rec, refs)
  <1>1. Shaped(new, now)
    <2>1. PICK x, y : new = [[[rec EXCEPT !.segs = now] EXCEPT !.open = x] EXCEPT !.n = y]
      BY Zenon DEF Cancelled
    <2> HIDE DEF now, new
    <2>2. Shaped([rec EXCEPT !.segs = now], now)
      BY RecShaped, ShapedSet
    <2>3. Shaped([[rec EXCEPT !.segs = now] EXCEPT !.open = x], now)
      BY <2>2, ShapedSet
    <2> QED
      BY <2>1, <2>3, ShapedSet
  <1>2. \A i \in DOMAIN was : IsSeg(was[i])
    BY DEF IsRec, IsSegs
  <1>3. \A i \in DOMAIN was : IsSeg(now[i]) /\ now[i].f = was[i].f /\ now[i].st \in {was[i].st, "XX"}
    BY <1>2, SegWith
  <1>4. Restated(was, now)
    BY <1>3 DEF Restated, Unanswered
  <1>5. IsSegs(now) /\ BehindUnanswered(now)
    BY <1>4, RestatedKeeps DEF IsRec
  <1>6. IsRec(new) /\ new.segs = now
    BY <1>1, <1>5, ShapedRec
  <1> QED
    BY <1>3, <1>6

(* applySchedule *)
LEMMA RetimeIs ==
    ASSUME NEW rec, IsRec(rec), NEW f
    PROVE  /\ IsRec(retime(rec, f))
           /\ DOMAIN retime(rec, f).segs = DOMAIN rec.segs
           /\ \A i \in DOMAIN rec.segs :
                 \/ retime(rec, f).segs[i].st = rec.segs[i].st
                 \/ rec.segs[i].st = "HK" /\ retime(rec, f).segs[i].st = "TK"
  <1> DEFINE was == rec.segs
             now == [i \in DOMAIN was |-> IF was[i].f = f /\ was[i].st = "HK"
                                          THEN [was[i] EXCEPT !.st = "TK"] ELSE was[i]]
             new == retime(rec, f)
  <1>1. Shaped(new, now)
    <2>1. new = [rec EXCEPT !.segs = now]
      BY DEF retime
    <2> HIDE DEF now, new
    <2> QED
      BY <2>1, RecShaped, ShapedSet
  <1>2. \A i \in DOMAIN was : IsSeg(was[i])
    BY DEF IsRec, IsSegs
  <1>3. \A i \in DOMAIN was : /\ IsSeg(now[i]) /\ now[i].f = was[i].f
                              /\ now[i].st = was[i].st \/ (was[i].st = "HK" /\ now[i].st = "TK")
    BY <1>2, SegWith
  <1>4. Restated(was, now)
    BY <1>3 DEF Restated, Unanswered
  <1>5. IsSegs(now) /\ BehindUnanswered(now)
    BY <1>4, RestatedKeeps DEF IsRec
  <1>6. IsRec(new) /\ new.segs = now
    BY <1>1, <1>5, ShapedRec
  <1> QED
    BY <1>3, <1>6

(* Book *)
LEMMA BookedIs ==
    ASSUME NEW segs, IsSegs(segs), \A i \in DOMAIN segs : segs[i].st \in {"HN", "HK"},
           NEW rec, Shaped(rec, segs), NEW cs
    PROVE  IsRec(Asked(rec, cs))
  <1>1. BehindUnanswered(segs)
    BY DEF BehindUnanswered, Unanswered
  <1> QED
    BY <1>1, AskedShaped, ShapedRec

(* AddSegment *)
Added(rec, seg, cs) == Asked(Recompute([rec EXCEPT !.segs = Append(rec.segs, seg)]), cs)

(* AddSegment puts a segment nobody has answered yet behind the others. *)
LEMMA AddedIs ==
    ASSUME NEW rec, IsRec(rec), NEW seg, IsSeg(seg), seg.st \in {"HN", "HK"}, NEW cs
    PROVE  /\ IsRec(Added(rec, seg, cs))
           /\ Len(rec.segs) + 1 \in DOMAIN Added(rec, seg, cs).segs
           /\ \A i \in DOMAIN rec.segs : /\ i \in DOMAIN Added(rec, seg, cs).segs
                                         /\ Added(rec, seg, cs).segs[i] = rec.segs[i]
  <1> DEFINE was == rec.segs
             now == Append(was, seg)
             new == Added(rec, seg, cs)
  <1>1. Shaped(new, now)
    <2>1. new = Asked(Recompute([rec EXCEPT !.segs = now]), cs)
      BY DEF Added
    <2> HIDE DEF now, new
    <2>2. Shaped([rec EXCEPT !.segs = now], now)
      BY RecShaped, ShapedSet
    <2>3. Shaped(Recompute([rec EXCEPT !.segs = now]), now)
      BY <2>2, RecomputeShaped
    <2> QED
      BY <2>1, <2>3, AskedShaped
  <1>2. IsSegs(was) /\ BehindUnanswered(was)
    BY DEF IsRec
  <1>3. /\ IsSeq(now) /\ Len(was) \in Nat /\ DOMAIN was = 1..Len(was)
        /\ DOMAIN now = 1..(Len(was) + 1)
        /\ (\A i \in DOMAIN was : now[i] = was[i]) /\ now[Len(was) + 1] = seg
    BY <1>2, SeqAppend DEF IsSegs
  <1>4. \A i \in DOMAIN was : SegmentByKey(now, was[i].f) = SegmentByKey(was, was[i].f)
    BY <1>2, KeyAppend DEF IsSegs
  <1> HIDE DEF now
  <1>5. \A i \in DOMAIN now : i \in DOMAIN was \/ now[i] = seg
    BY <1>3
  <1>6. IsSegs(now)
    BY <1>2, <1>3, <1>5 DEF IsSegs
  <1>7. BehindUnanswered(now)
    BY <1>2, <1>3, <1>4, <1>5 DEF BehindUnanswered, Unanswered
  <1>8. IsRec(new) /\ new.segs = now
    BY <1>1, <1>6, <1>7, ShapedRec
  <1> QED
    BY <1>3, <1>8

---------------------------------------------------------------------------
(* Replies.                                                                *)

(* applySegment: what a code makes of a status. *)
LEMMA ApplySegmentIs ==
    ASSUME NEW seg, IsSeg(seg), NEW code \in Codes
    PROVE  /\ IsSeg(applySegment(seg, code)) /\ applySegment(seg, code).f = seg.f
           /\ \/ applySegment(seg, code).st \in {seg.st, "HK"}
              \/ applySegment(seg, code).st \in {"HL", "UC", "UN", "NO"}
  <1>1. \/ code = "KK" /\ ReplyTo(code) = "HK"
        \/ code = "US" /\ ReplyTo(code) = "HL"
        \/ code \in {"UC", "UN", "NO"} /\ ReplyTo(code) = None
    BY NoneAssumption DEF Codes, ReplyTo, Refusals
  <1>2. CASE ReplyTo(code) = None
    <2>1. applySegment(seg, code) = [seg EXCEPT !.st = code] /\ code \in {"UC", "UN", "NO"}
      BY <1>1, <1>2, NoneAssumption DEF applySegment
    <2> QED
      BY <2>1, SegWith DEF Refusals
  <1>3. CASE ReplyTo(code) # None /\ seg.st = "XX"
    BY <1>3 DEF applySegment
  <1>4. CASE ReplyTo(code) # None /\ seg.st # "XX"
    <2>1. PICK st : st = ReplyTo(code)
      OBVIOUS
    <2>2. applySegment(seg, code) = [seg EXCEPT !.st = st] /\ st \in {"HK", "HL"}
      BY <1>1, <1>4, <2>1 DEF applySegment
    <2> QED
      BY <1>4, <2>2, SegWith
  <1> QED
    BY <1>2, <1>3, <1>4

(* What apply does to the segments: one at most changes, the first on its  *)
(* flight.                                                                 *)
LEMMA AnsweredIs ==
    ASSUME NEW was, IsSegs(was), NEW codes, \A f \in DOMAIN codes : codes[f] \in Codes
    PROVE  /\ Restated(was, Answered(was, codes))
           /\ \A i \in DOMAIN was :
                 /\ \/ Answered(was, codes)[i].st = was[i].st
                    \/ /\ i = SegmentByKey(was, was[i].f)
                       /\ \/ Answered(was, codes)[i].st = "HK"
                          \/ Answered(was, codes)[i].st \in {"HL", "UC", "UN", "NO"}
  <1> DEFINE now == Answered(was, codes)
  <1>1. now = [i \in DOMAIN was |-> IF was[i].f \in DOMAIN codes /\ i = SegmentByKey(was, was[i].f)
                                    THEN applySegment(was[i], codes[was[i].f]) ELSE was[i]]
    BY DEF Answered
  <1>2. ASSUME NEW i \in DOMAIN was
        PROVE  /\ IsSeg(now[i]) /\ now[i].f = was[i].f
               /\ \/ now[i].st = was[i].st
                  \/ /\ i = SegmentByKey(was, was[i].f)
                     /\ now[i].st = "HK" \/ now[i].st \in {"HL", "UC", "UN", "NO"}
    <2>1. IsSeg(was[i])
      BY DEF IsSegs
    <2>2. CASE was[i].f \in DOMAIN codes /\ i = SegmentByKey(was, was[i].f)
      <3>1. now[i] = applySegment(was[i], codes[was[i].f]) /\ codes[was[i].f] \in Codes
        BY <1>1, <2>2
      <3> QED
        BY <2>1, <2>2, <3>1, ApplySegmentIs
    <2>3. CASE ~(was[i].f \in DOMAIN codes /\ i = SegmentByKey(was, was[i].f))
      <3>1. now[i] = was[i]
        BY <1>1, <2>3
      <3> QED
        BY <2>1, <3>1
    <2> QED
      BY <2>2, <2>3
  <1>3. DOMAIN now = DOMAIN was /\ now = [i \in DOMAIN now |-> now[i]]
    BY <1>1
  <1> HIDE DEF now
  <1>4. Restated(was, now)
    BY <1>2, <1>3 DEF Restated
  <1> QED
    BY <1>2, <1>4 DEF now

(* enqueueStatusChanges: what is taken from a passenger becomes a task.    *)
(* The last segment on the flight, which the comparison looks at, is the   *)
(* segment itself or one behind it that no reply has reached.              *)
LEMMA LossQueued ==
    ASSUME NEW was, IsSegs(was), BehindUnanswered(was), NEW now, Restated(was, now), NEW r,
           NEW i \in DOMAIN was, i = SegmentByKey(was, was[i].f),
           was[i].st \in Confirmed \cup {"XX"}, now[i].st \in {"HL", "UC", "UN", "NO"}
    PROVE  \E it \in StatusItems(r, was, now) :
              it.rec = r /\ it.seg = i /\ it.code \in {"unable", "waitlisted"}
  <1> DEFINE at == {j \in DOMAIN was : was[j].f = now[i].f}
             before == was[Max(at)].st
  <1>1. now[i].f = was[i].f /\ i \in DOMAIN now
    BY DEF Restated
  <1>2. Len(was) \in Nat /\ at \in SUBSET (1..Len(was)) /\ i \in at
    BY <1>1, SeqDomain DEF IsSegs
  <1>3. Max(at) \in at
    BY <1>2, MaxIn
  <1>4. before \in Confirmed \cup Unanswered
    <2>1. PICK j : j = Max(at)
      OBVIOUS
    <2>2. j \in DOMAIN was /\ was[j].f = was[i].f
      BY <1>1, <1>3, <2>1
    <2>3. CASE j = i
      BY <2>1, <2>3 DEF Unanswered
    <2>4. CASE j # i
      <3>1. j # SegmentByKey(was, was[j].f)
        BY <2>2, <2>4
      <3>2. was[j].st \in Unanswered
        BY <2>2, <3>1 DEF BehindUnanswered
      <3> QED
        BY <2>1, <3>2
    <2> QED
      BY <2>3, <2>4
  <1>5. before # now[i].st
    BY <1>4 DEF Confirmed, Unanswered
  <1>6. ForStatus(now[i].st) \in {"unable", "waitlisted"} /\ ForStatus(now[i].st) # None
    BY NoneAssumption DEF ForStatus, Waitlisted, Refusals
  <1>7. at # {}
    BY <1>2
  <1>8. PICK it : it = Item(r, i, ForStatus(now[i].st), carrierOf[now[i].f])
    OBVIOUS
  <1>9. it \in StatusItems(r, was, now)
    BY <1>1, <1>5, <1>6, <1>7, <1>8 DEF StatusItems
  <1>10. it.rec = r /\ it.seg = i /\ it.code = ForStatus(now[i].st)
    BY <1>8 DEF Item
  <1> QED
    BY <1>6, <1>9, <1>10

---------------------------------------------------------------------------
(* Steps.  First what they have in common.                                 *)

(* Only tasks of cancelled flights ever leave the worklist. *)
ItemsKept == \A it \in items : it \in items' \/ it.code = "schedule_cnl"

(* New ones of those are about records there are. *)
ItemsNew == \A it \in items' : it \in items \/ (it.code = "schedule_cnl" => it.rec \in DOMAIN recs')

(* New messages are no replies. *)
NetNew == \A m \in net' : m \in net \/ m.kind # "reply"

(* Messages taken and requests sent say nothing of replies. *)
LEMMA NetKept == NetInv /\ NetNew => NetInv'
  BY DEF NetInv, NetNew

(* A notice stays noticed while items are only added or worked. *)
LEMMA NoticedKept ==
    ASSUME ItemsKept, NEW r, NEW i, Noticed(r, i)
    PROVE  Noticed(r, i)'
  BY DEF ItemsKept, Noticed

(* A step that leaves the records revives nothing and takes nothing. *)
LEMMA SameKeeps ==
    ASSUME UNCHANGED recs, ItemsKept
    PROVE  Keeps
  <1> SUFFICES ASSUME NEW r, NEW i, HasSeg(r, i)
               PROVE  /\ HasSeg(r, i)'
                      /\ Held(r, i) => Held(r, i)'
    BY DEF Keeps
  <1>1. Noticed(r, i) => Noticed(r, i)'
    BY NoticedKept
  <1> QED
    BY <1>1 DEF HasSeg, Held

(* One record is written. *)
LEMMA OneKeeps ==
    ASSUME RecsInv, ItemsKept, NEW r, NEW new, IsRec(new), recs' = [recs EXCEPT ![r] = new],
           \A i \in DOMAIN recs[r].segs :
              /\ i \in DOMAIN new.segs
              /\ \/ new.segs[i].st = recs[r].segs[i].st
                 \/ new.segs[i].st \in Confirmed \cup {"XX"}
                 \/ recs[r].segs[i].st \notin Confirmed \cup {"XX"}
                 \/ Noticed(r, i)'
    PROVE  RecsInv' /\ Keeps
  <1>1. DOMAIN recs' = DOMAIN recs /\ recs' = [q \in DOMAIN recs' |-> recs'[q]]
    OBVIOUS
  <1>2. \A q \in DOMAIN recs : recs'[q] = IF q = r THEN new ELSE recs[q]
    OBVIOUS
  <1>3. IsSeq(recs')
    BY <1>1, SeqLike DEF RecsInv
  <1>4. RecsInv'
    BY <1>1, <1>2, <1>3 DEF RecsInv
  <1>5. ASSUME NEW q, NEW i, HasSeg(q, i)
        PROVE  /\ HasSeg(q, i)'
               /\ Held(q, i) => Held(q, i)'
    <2>1. Noticed(q, i) => Noticed(q, i)'
      BY NoticedKept
    <2>2. q \in DOMAIN recs /\ i \in DOMAIN recs[q].segs
      BY <1>5 DEF HasSeg
    <2>3. CASE q = r
      <3>1. recs'[q] = new
        BY <1>2, <2>2, <2>3
      <3> QED
        BY <1>1, <2>1, <2>2, <2>3, <3>1 DEF HasSeg, Held
    <2>4. CASE q # r
      <3>1. recs'[q] = recs[q]
        BY <1>2, <2>2, <2>4
      <3> QED
        BY <1>1, <2>1, <2>2, <3>1 DEF HasSeg, Held
    <2> QED
      BY <2>3, <2>4
  <1> QED
    BY <1>4, <1>5 DEF Keeps

(* What follows for the worklist, the engine and its reports. *)
LEMMA KeepsRest ==
    ASSUME RecsInv, ItemInv, EngInv, WorkedInv, Keeps, ItemsNew, DOMAIN recs \subseteq DOMAIN recs'
    PROVE  /\ ItemInv'
           /\ UNCHANGED eng => EngInv'
           /\ UNCHANGED worked => WorkedInv'
  <1>1. ItemInv'
    BY DEF ItemInv, ItemsNew
  <1>2. ASSUME UNCHANGED eng PROVE EngInv'
    <2>1. eng'.pc # "idle" => eng'.r \in DOMAIN recs'
      BY <1>2 DEF EngInv
    <2>2. eng'.pc \in {"await", "act"} => HasSeg(eng.r, eng.alt)'
      BY <1>2 DEF EngInv, Keeps
    <2>3. eng'.pc = "act" /\ eng'.st \in Confirmed => Held(eng.r, eng.alt)'
      BY <1>2 DEF EngInv, Keeps
    <2>4. eng' = [pc |-> eng'.pc, r |-> eng'.r, dead |-> eng'.dead, at |-> eng'.at, ask |-> eng'.ask,
                  alt |-> eng'.alt, st |-> eng'.st, wl |-> eng'.wl]
      BY <1>2 DEF EngInv
    <2> QED
      BY <1>2, <2>1, <2>2, <2>3, <2>4 DEF EngInv
  <1>3. UNCHANGED worked => WorkedInv'
    BY DEF WorkedInv, Keeps
  <1> QED
    BY <1>1, <1>2, <1>3

(* A step of the carriers or of the network. *)
LEMMA SameRest ==
    ASSUME IInv, UNCHANGED <<recs, items, eng, worked>>
    PROVE  RecsInv' /\ ItemInv' /\ EngInv' /\ WorkedInv' /\ Keeps
  <1>1. ItemsKept /\ ItemsNew
    BY DEF ItemsKept, ItemsNew
  <1>2. Keeps
    BY <1>1, SameKeeps
  <1>3. RecsInv'
    BY DEF IInv, RecsInv
  <1> QED
    BY <1>1, <1>2, <1>3, KeepsRest DEF IInv

---------------------------------------------------------------------------
(* The steps that leave the records alone.                                 *)

(* Book reads availability: segments are HK or HN. *)
LEMMA BookDecidesStep ==
    ASSUME IInv, NEW a \in Agents, BookDecides(a)
    PROVE  IInv' /\ Keeps
  <1>1. PICK q \in Requests : api' = [api EXCEPT ![a] = [pax |-> q.pax, segs |-> Decided(q)]]
    BY DEF BookDecides
  <1> DEFINE segs == Decided(q)
  <1>2. q.fs \in Seq(Flights)
    BY ConversationAssumption
  <1>3. /\ DOMAIN segs = DOMAIN q.fs /\ segs = [i \in DOMAIN segs |-> segs[i]]
        /\ \A i \in DOMAIN segs : IsSeg(segs[i]) /\ segs[i].st \in {"HN", "HK"}
    BY DEF Decided, Seg, IsSeg
  <1>4. DOMAIN segs = 1..Len(q.fs) /\ Len(q.fs) \in Nat
    BY <1>2, <1>3
  <1> HIDE DEF segs
  <1>5. IsSegs(segs)
    BY <1>3, <1>4, SeqByDomain DEF IsSegs
  <1>6. ApiInv'
    <2>1. api = [b \in Agents |-> api[b]]
      BY DEF IInv, ApiInv
    <2>2. api' = [b \in Agents |-> IF b = a THEN [pax |-> q.pax, segs |-> segs] ELSE api[b]]
      BY <1>1, <2>1 DEF segs
    <2>3. api'[a].segs = segs /\ \A b \in Agents : b # a => api'[b] = api[b]
      BY <2>2
    <2>4. ASSUME NEW b \in Agents, api'[b] # None
          PROVE  /\ IsSegs(api'[b].segs)
                 /\ \A i \in DOMAIN api'[b].segs : api'[b].segs[i].st \in {"HN", "HK"}
      <3>1. CASE b = a
        BY <1>3, <1>5, <2>3, <3>1
      <3>2. CASE b # a
        <4>1. api'[b] = api[b]
          BY <2>3, <3>2
        <4> QED
          BY <2>4, <4>1 DEF IInv, ApiInv
      <3> QED
        BY <3>1, <3>2
    <2>5. api' = [b \in Agents |-> api'[b]]
      BY <2>2
    <2> QED
      BY <2>4, <2>5 DEF ApiInv
  <1>7. UNCHANGED <<recs, items, eng, worked, reader, net>>
    BY DEF BookDecides, carrier
  <1>8. RecsInv' /\ ItemInv' /\ EngInv' /\ WorkedInv' /\ Keeps
    BY <1>7, SameRest
  <1>9. ReaderInv' /\ NetInv'
    BY <1>7 DEF IInv, ReaderInv, NetInv
  <1> QED
    BY <1>6, <1>8, <1>9 DEF IInv

(* ReceiveAvailability, Stale and Broadcast. *)
LEMMA BeliefsStep ==
    ASSUME IInv, UNCHANGED <<recs, api, carrier, items, eng, worked>>, NetNew
    PROVE  IInv' /\ Keeps
  <1>1. RecsInv' /\ ItemInv' /\ EngInv' /\ WorkedInv' /\ Keeps
    BY SameRest
  <1>2. ApiInv' /\ ReaderInv'
    BY DEF IInv, ApiInv, ReaderInv, carrier
  <1>3. NetInv'
    BY NetKept DEF IInv
  <1> QED
    BY <1>1, <1>2, <1>3 DEF IInv

(* A carrier's steps: what its readers know is codes. *)
LEMMA CarrierStep ==
    ASSUME IInv, UNCHANGED <<recs, api, items, eng, worked>>, ReaderInv', NetInv'
    PROVE  IInv' /\ Keeps
  <1>1. RecsInv' /\ ItemInv' /\ EngInv' /\ WorkedInv' /\ Keeps
    BY SameRest
  <1>2. ApiInv'
    BY DEF IInv, ApiInv
  <1> QED
    BY <1>1, <1>2 DEF IInv

IsReader(rd) ==
    rd = [k |-> rd.k, outs |-> rd.outs, ver |-> rd.ver, segs |-> rd.segs] /\ OutsInv(rd)

(* One reader goes on, the others stay. *)
LEMMA OneReader ==
    ASSUME ReaderInv, NEW x, NEW rd, IsReader(rd), reader' = [reader EXCEPT ![x] = rd]
    PROVE  ReaderInv'
  <1>1. reader = [y \in Carriers \X Readers |-> reader[y]]
    BY DEF ReaderInv
  <1>2. reader' = [y \in Carriers \X Readers |-> IF y = x THEN rd ELSE reader[y]]
    BY <1>1
  <1>3. ASSUME NEW y \in Carriers \X Readers PROVE IsReader(reader'[y])
    <2>1. reader'[y] = rd \/ reader'[y] = reader[y]
      BY <1>2
    <2>2. IsReader(reader[y])
      BY DEF ReaderInv, IsReader
    <2> QED
      BY <2>1, <2>2
  <1>4. reader' = [y \in Carriers \X Readers |-> reader'[y]]
    BY <1>2
  <1> QED
    BY <1>3, <1>4 DEF ReaderInv, IsReader

(* A reader with nothing to do is one. *)
LEMMA IdleReader == IsReader(Idle)
  BY DEF IsReader, Idle, OutsInv

(* A carrier takes a request in. *)
LEMMA ReceiveSellStep ==
    ASSUME IInv, NEW m \in net, NEW w \in Readers, ReceiveSell(m, w)
    PROVE  IInv' /\ Keeps
  <1>1. PICK rd : rd = [k |-> Len(copies) + 1, outs |-> None, ver |-> 1, segs |-> AsRequested(m.segs)]
    OBVIOUS
  <1>2. IsReader(rd) /\ reader' = [reader EXCEPT ![<<m.c, w>>] = rd]
    BY <1>1 DEF IsReader, OutsInv, ReceiveSell
  <1>3. ReaderInv'
    BY <1>2, OneReader DEF IInv
  <1>4. NetInv' /\ UNCHANGED <<recs, api, items, eng, worked>>
    BY DEF ReceiveSell, IInv, NetInv
  <1> QED
    BY <1>3, <1>4, CarrierStep

(* A carrier decides and answers with codes. *)
LEMMA DecideStep ==
    ASSUME IInv, NEW c \in Carriers, NEW w \in Readers, Decide(c, w)
    PROVE  IInv' /\ Keeps
  <1> DEFINE x == <<c, w>>
             segs == reader[x].segs
             ask  == {segs[i].f : i \in {j \in DOMAIN segs : awaitingDecision(segs[j].st)}}
             wants(f) == segs[SegmentByKey(segs, f)].seats
  <1>1. PICK outs \in [ask -> UNION {Outcome(f, wants(f)) : f \in ask}] :
           /\ \A f \in ask : outs[f] \in Outcome(f, wants(f))
           /\ reader' = [reader EXCEPT ![x].outs = outs]
    BY DEF Decide
  <1>2. \A f \in DOMAIN outs : outs[f] \in Codes
    BY <1>1 DEF Outcome, Controls, Codes
  <1>3. x \in Carriers \X Readers
    OBVIOUS
  <1> HIDE DEF x
  <1>4. IsReader(reader[x])
    BY <1>3 DEF IInv, ReaderInv, IsReader
  <1>5. PICK rd : rd = [reader[x] EXCEPT !.outs = outs]
    OBVIOUS
  <1>6. PICK a, b, d, e : reader[x] = [k |-> a, outs |-> b, ver |-> d, segs |-> e]
    BY <1>4, Zenon DEF IsReader
  <1>7. IsReader(rd)
    <2>1. rd = [k |-> a, outs |-> outs, ver |-> d, segs |-> e]
      BY <1>5, <1>6
    <2> QED
      BY <1>2, <2>1 DEF IsReader, OutsInv
  <1>8. reader' = [reader EXCEPT ![x] = rd]
    BY <1>1, <1>5
  <1>9. ReaderInv'
    BY <1>7, <1>8, OneReader DEF IInv
  <1>10. NetInv' /\ UNCHANGED <<recs, api, items, eng, worked>>
    BY DEF Decide, IInv, NetInv
  <1> QED
    BY <1>9, <1>10, CarrierStep

(* respond answers what was decided, and NO for the rest. *)
LEMMA respondStep ==
    ASSUME IInv, NEW c \in Carriers, NEW w \in Readers, respond(c, w)
    PROVE  IInv' /\ Keeps
  <1> DEFINE x == <<c, w>>
             k == reader[x].k
             outs == reader[x].outs
             segs == copies[k].segs
             m == buildReply(k, segs, outs)
  <1>1. x \in Carriers \X Readers /\ outs # None
    BY DEF respond
  <1>2. \A f \in DOMAIN outs : outs[f] \in Codes
    BY <1>1 DEF IInv, ReaderInv, OutsInv
  <1>3. \A f \in DOMAIN m.codes : m.codes[f] \in Codes
    <2>1. m.codes = [f \in {segs[i].f : i \in DOMAIN segs} |-> IF f \in DOMAIN outs THEN outs[f] ELSE "NO"]
      BY DEF buildReply, BuildReply
    <2> QED
      BY <1>2, <2>1 DEF Codes
  <1>4. net' = net \cup {m} \/ net' = net
    BY DEF respond
  <1> HIDE DEF m
  <1>5. NetInv'
    BY <1>3, <1>4 DEF IInv, NetInv
  <1>6. ReaderInv'
    <2>1. reader' = [reader EXCEPT ![x] = Idle]
      BY DEF respond
    <2> QED
      BY <2>1, IdleReader, OneReader DEF IInv
  <1>7. UNCHANGED <<recs, api, items, eng, worked>>
    BY DEF respond
  <1> QED
    BY <1>5, <1>6, <1>7, CarrierStep

(* A carrier takes a cancellation in. *)
LEMMA ReceiveCancelStep ==
    ASSUME IInv, NEW m \in net, NEW w \in Readers, ReceiveCancel(m, w)
    PROVE  IInv' /\ Keeps
  <1>1. NetInv' /\ ReaderInv' /\ UNCHANGED <<recs, api, items, eng, worked>>
    BY DEF ReceiveCancel, IInv, NetInv, ReaderInv
  <1> QED
    BY <1>1, CarrierStep

(* A carrier restarts and counts its seats again. *)
LEMMA RebuildStep ==
    ASSUME IInv, NEW c \in Carriers, Rebuild(c)
    PROVE  IInv' /\ Keeps
  <1>1. reader' = [x \in Carriers \X Readers |-> IF x[1] = c THEN Idle ELSE reader[x]]
    BY DEF Rebuild
  <1>2. ASSUME NEW x \in Carriers \X Readers PROVE IsReader(reader'[x])
    <2>1. reader'[x] = Idle \/ reader'[x] = reader[x]
      BY <1>1
    <2>2. IsReader(reader[x])
      BY DEF IInv, ReaderInv, IsReader
    <2> QED
      BY <2>1, <2>2, IdleReader
  <1>3. reader' = [x \in Carriers \X Readers |-> reader'[x]]
    BY <1>1
  <1>4. ReaderInv'
    BY <1>2, <1>3 DEF ReaderInv, IsReader
  <1>5. NetInv' /\ UNCHANGED <<recs, api, items, eng, worked>>
    BY DEF Rebuild, IInv, NetInv
  <1> QED
    BY <1>4, <1>5, CarrierStep

---------------------------------------------------------------------------
(* The steps that write records.                                           *)

(* A booking's requests, and a new leg's, are sells. *)
LEMMA RequestedIs ==
    ASSUME NEW r, NEW rec, NEW segs, NEW down, Requested(r, rec, segs, down)
    PROVE  NetNew
  BY DEF Requested, NetNew, SellMsg

(* Book writes a new record; none of the others changes. *)
LEMMA BookStep ==
    ASSUME IInv, NEW a \in Agents, Book(a)
    PROVE  IInv' /\ Keeps
  <1> DEFINE segs == api[a].segs
             rec  == [pax |-> api[a].pax, segs |-> segs, open |-> TRUE,
                      locs |-> [c \in Carriers |-> 0], asks |-> [c \in Carriers |-> 0], n |-> 0]
             new  == Asked(rec, CarriersOn(segs))
  <1>1. IsSegs(segs) /\ \A i \in DOMAIN segs : segs[i].st \in {"HN", "HK"}
    BY DEF Book, IInv, ApiInv
  <1>2. Shaped(rec, segs)
    <2>1. PICK t, z : t = TRUE /\ z = [c \in Carriers |-> 0]
      OBVIOUS
    <2>2. PICK y, s : y = rec /\ s = segs
      OBVIOUS
    <2>3. PICK p : p = api[a].pax
      OBVIOUS
    <2>4. y = [pax |-> p, segs |-> s, open |-> t, locs |-> z, asks |-> z, n |-> 0]
      BY <2>1, <2>2, <2>3
    <2>5. Shaped(y, s)
      BY <2>4, Zenon DEF Shaped
    <2> QED
      BY <2>2, <2>5
  <1>3. recs' = Append(recs, new)
    BY DEF Book
  <1>4. NetNew
    <2>1. PICK down : Requested(Len(recs) + 1, rec, segs, down)
      BY DEF Book
    <2> QED
      BY <2>1, RequestedIs
  <1>5. UNCHANGED <<items, eng, worked, reader>> /\ api' = [api EXCEPT ![a] = None]
    BY DEF Book, carrier
  <1> HIDE DEF segs, rec
  <1>6. IsRec(new)
    BY <1>1, <1>2, BookedIs
  <1> HIDE DEF new
  <1>7. /\ IsSeq(recs') /\ Len(recs) \in Nat /\ DOMAIN recs = 1..Len(recs)
        /\ DOMAIN recs' = 1..(Len(recs) + 1)
        /\ (\A r \in DOMAIN recs : recs'[r] = recs[r]) /\ recs'[Len(recs) + 1] = new
    BY <1>3, SeqAppend DEF IInv, RecsInv
  <1>8. DOMAIN recs \subseteq DOMAIN recs' /\ \A r \in DOMAIN recs' : r \in DOMAIN recs \/ recs'[r] = new
    BY <1>7
  <1>9. RecsInv'
    BY <1>6, <1>7, <1>8 DEF IInv, RecsInv
  <1>10. Keeps
    BY <1>5, <1>7, <1>8 DEF Keeps, HasSeg, Held, Noticed
  <1>11. ItemInv' /\ EngInv' /\ WorkedInv'
    <2>1. ItemsNew
      BY <1>5 DEF ItemsNew
    <2> QED
      BY <1>5, <1>8, <1>10, <2>1, KeepsRest DEF IInv
  <1>12. ApiInv'
    <2>1. api = [b \in Agents |-> api[b]]
      BY DEF IInv, ApiInv
    <2>2. api' = [b \in Agents |-> IF b = a THEN None ELSE api[b]]
      BY <1>5, <2>1
    <2> QED
      BY <2>2 DEF IInv, ApiInv
  <1>13. ReaderInv' /\ NetInv'
    BY <1>4, <1>5, NetKept DEF IInv, ReaderInv
  <1> QED
    BY <1>9, <1>10, <1>11, <1>12, <1>13 DEF IInv

(* Cancel *)
LEMMA CancelIs ==
    ASSUME RecsInv, NEW r \in DOMAIN recs, NEW refs, NEW pending, NEW cost,
           pending \subseteq items, \A it \in items : it \in pending \/ it.code = "schedule_cnl",
           Cancel(r, refs, pending, cost)
    PROVE  /\ RecsInv' /\ Keeps /\ DOMAIN recs' = DOMAIN recs
           /\ ItemsKept /\ ItemsNew /\ NetNew
  <1> DEFINE rec == recs[r]
             doomed == Doomed(rec, refs)
             told == {carrierOf[rec.segs[i].f] : i \in doomed}
  <1>1. PICK down \in SUBSET told :
           /\ recs' = [recs EXCEPT ![r] = IF doomed = {} THEN rec ELSE Cancelled(rec, doomed)]
           /\ net' = net \cup {CancelMsg(r, rec, doomed, c) : c \in told \ down}
           /\ items' = pending \cup {Item(r, 0, "cancel_not_sent", c) : c \in down}
    BY DEF Cancel
  <1> HIDE DEF doomed
  <1>2. PICK new : new = IF doomed = {} THEN rec ELSE Cancelled(rec, doomed)
    OBVIOUS
  <1>3. IsRec(rec)
    BY DEF RecsInv
  <1>4. /\ IsRec(new) /\ DOMAIN new.segs = DOMAIN rec.segs
        /\ \A i \in DOMAIN rec.segs : new.segs[i].st \in {rec.segs[i].st, "XX"}
    <2>1. CASE new = rec
      BY <1>3, <2>1
    <2>2. CASE new = Cancelled(rec, doomed)
      BY <1>3, <2>2, CancelledIs
    <2> QED
      BY <1>2, <2>1, <2>2
  <1>5. ItemsKept /\ ItemsNew
    <2>1. \A it \in items' : it \in items \/ it.code = "cancel_not_sent"
      BY <1>1 DEF Item
    <2>2. ItemsKept
      BY <1>1 DEF ItemsKept
    <2> QED
      BY <2>1, <2>2 DEF ItemsNew
  <1>6. NetNew
    BY <1>1 DEF NetNew, CancelMsg
  <1>7. RecsInv' /\ Keeps
    BY <1>1, <1>2, <1>4, <1>5, OneKeeps
  <1>8. DOMAIN recs' = DOMAIN recs
    BY <1>1
  <1> QED
    BY <1>5, <1>6, <1>7, <1>8

(* Cancelling makes segments XX, and a cancelled leg counts as held. *)
LEMMA AgentCancelsStep ==
    ASSUME IInv, NEW r \in DOMAIN recs, AgentCancels(r)
    PROVE  IInv' /\ Keeps
  <1>1. PICK refs : Cancel(r, refs, items, 1)
    BY DEF AgentCancels
  <1>2. UNCHANGED <<api, eng, worked, reader>>
    BY DEF AgentCancels, carrier
  <1>3. RecsInv' /\ Keeps /\ DOMAIN recs' = DOMAIN recs /\ ItemsNew /\ NetNew
    BY <1>1, CancelIs DEF IInv
  <1>4. ItemInv' /\ EngInv' /\ WorkedInv'
    BY <1>2, <1>3, KeepsRest DEF IInv
  <1>5. ApiInv' /\ ReaderInv' /\ NetInv'
    BY <1>2, <1>3, NetKept DEF IInv, ApiInv, ReaderInv
  <1> QED
    BY <1>3, <1>4, <1>5 DEF IInv

(* A schedule change places tasks about records there are, and at most     *)
(* retimes segments.                                                       *)
LEMMA applyScheduleStep ==
    ASSUME IInv, NEW f \in Flights, NEW act \in {"schedule_cnl", "schedule_tim"}, applySchedule(f, act)
    PROVE  IInv' /\ Keeps
  <1>1. UNCHANGED <<api, eng, worked, reader, net>>
    BY DEF applySchedule, carrier
  <1>2. recs' = recs \/ recs' = [r \in DOMAIN recs |-> retime(recs[r], f)]
    BY DEF applySchedule
  <1>3. ItemsKept /\ \A it \in items' : it \in items \/ it.rec \in DOMAIN recs
    BY DEF applySchedule, ItemsKept, Item
  <1>4. DOMAIN recs' = DOMAIN recs
    BY <1>2
  <1>5. ItemsNew
    BY <1>3, <1>4 DEF ItemsNew
  <1>6. RecsInv' /\ Keeps
    <2>1. CASE recs' = recs
      BY <1>3, <2>1, SameKeeps DEF IInv, RecsInv
    <2>2. CASE recs' = [r \in DOMAIN recs |-> retime(recs[r], f)]
      <3>1. \A r \in DOMAIN recs : recs'[r] = retime(recs[r], f) /\ IsRec(recs[r])
        BY <2>2 DEF IInv, RecsInv
      <3>2. \A r \in DOMAIN recs :
               /\ IsRec(recs'[r]) /\ DOMAIN recs'[r].segs = DOMAIN recs[r].segs
               /\ \A i \in DOMAIN recs[r].segs :
                     \/ recs'[r].segs[i].st = recs[r].segs[i].st
                     \/ recs[r].segs[i].st = "HK" /\ recs'[r].segs[i].st = "TK"
        BY <3>1, RetimeIs
      <3>3. IsSeq(recs')
        <4>1. recs' = [r \in DOMAIN recs' |-> recs'[r]]
          BY <2>2
        <4> QED
          BY <1>4, <4>1, SeqLike DEF IInv, RecsInv
      <3>4. RecsInv'
        BY <1>4, <3>2, <3>3 DEF RecsInv
      <3>5. ASSUME NEW r, NEW i, HasSeg(r, i)
            PROVE  /\ HasSeg(r, i)'
                   /\ Held(r, i) => Held(r, i)'
        <4>1. Noticed(r, i) => Noticed(r, i)'
          BY <1>3, NoticedKept
        <4> QED
          BY <1>4, <3>2, <3>5, <4>1 DEF HasSeg, Held, Confirmed
      <3> QED
        BY <3>4, <3>5 DEF Keeps
    <2> QED
      BY <1>2, <2>1, <2>2
  <1>7. ItemInv' /\ EngInv' /\ WorkedInv'
    BY <1>1, <1>4, <1>5, <1>6, KeepsRest DEF IInv
  <1>8. ApiInv' /\ ReaderInv' /\ NetInv'
    BY <1>1 DEF IInv, ApiInv, ReaderInv, NetInv
  <1> QED
    BY <1>6, <1>7, <1>8 DEF IInv

(* apply, for a reply. *)
LEMMA ReceiveReplyStep ==
    ASSUME IInv, NEW m \in net, ReceiveReply(m)
    PROVE  IInv' /\ Keeps
  <1> DEFINE rec  == recs[m.ext]
             was  == rec.segs
             now  == Answered(was, m.codes)
             rec1 == Recompute([rec EXCEPT !.segs = now, !.locs[m.c] = m.loc])
             dead == {i \in DOMAIN now : carrierOf[now[i].f] = m.c /\ now[i].st = "XX"}
             changed == items \cup StatusItems(m.ext, was, now)
             rec2 == [rec1 EXCEPT !.n = rec1.n + 1]
  <1>1. UNCHANGED <<api, eng, worked, reader>>
    BY DEF ReceiveReply, carrier
  <1>2. \A f \in DOMAIN m.codes : m.codes[f] \in Codes
    BY DEF ReceiveReply, IInv, NetInv
  <1>3. PICK new \in {rec1, rec2} : recs' = [recs EXCEPT ![m.ext] = new]
    <2>1. recs' = [recs EXCEPT ![m.ext] = rec1] \/ recs' = [recs EXCEPT ![m.ext] = rec2]
      BY DEF ReceiveReply
    <2> HIDE DEF rec1, rec2
    <2> QED
      BY <2>1
  <1>4. NetNew
    <2> DEFINE msg == CancelMsg(m.ext, rec1, dead, m.c)
    <2>1. net' \subseteq net \cup {msg}
      <3>1. net' = net \ {m} \/ net' = (net \ {m}) \cup {msg}
        BY DEF ReceiveReply
      <3> HIDE DEF msg
      <3> QED
        BY <3>1
    <2>2. msg.kind = "cancel"
      BY DEF CancelMsg
    <2> HIDE DEF msg
    <2> QED
      BY <2>1, <2>2 DEF NetNew
  <1>5. /\ changed \subseteq items'
        /\ \A it \in items' : it \in changed \/ it.code \in {"late_confirmation", "cancel_not_sent"}
    BY DEF ReceiveReply, Item
  <1>6. \A it \in StatusItems(m.ext, was, now) : it.code # "schedule_cnl"
    <2>1. \A st : ForStatus(st) # None =>
             ForStatus(st) \in {"cancelled", "waitlisted", "confirmed", "unable"}
      BY DEF ForStatus
    <2> HIDE DEF now, was
    <2> SUFFICES ASSUME NEW it \in StatusItems(m.ext, was, now) PROVE it.code # "schedule_cnl"
      OBVIOUS
    <2>2. PICK i : /\ it = Item(m.ext, i, ForStatus(now[i].st), carrierOf[now[i].f])
                   /\ ForStatus(now[i].st) # None
      BY DEF StatusItems
    <2>3. it.code = ForStatus(now[i].st)
      BY <2>2 DEF Item
    <2> QED
      BY <2>1, <2>2, <2>3
  <1>7. ItemsKept /\ ItemsNew
    <2> HIDE DEF now, was
    <2> QED
      BY <1>5, <1>6 DEF ItemsKept, ItemsNew
  <1>8. DOMAIN recs' = DOMAIN recs
    <2> HIDE DEF rec1, rec2
    <2> QED
      BY <1>3
  <1>9. RecsInv' /\ Keeps
    <2>1. CASE m.ext \notin DOMAIN recs
      <3>1. recs' = recs
        <4>1. recs = [r \in DOMAIN recs |-> recs[r]]
          BY SeqDomain DEF IInv, RecsInv
        <4> HIDE DEF rec1, rec2
        <4> QED
          BY <1>3, <2>1, <4>1
      <3> QED
        BY <1>7, <3>1, SameKeeps DEF IInv, RecsInv
    <2>2. CASE m.ext \in DOMAIN recs
      <3>1. IsRec(rec) /\ IsSegs(was) /\ BehindUnanswered(was)
        BY <2>2 DEF IInv, RecsInv, IsRec
      <3>2. /\ Restated(was, now)
            /\ \A i \in DOMAIN was :
                  /\ \/ now[i].st = was[i].st
                     \/ /\ i = SegmentByKey(was, was[i].f)
                        /\ now[i].st = "HK" \/ now[i].st \in {"HL", "UC", "UN", "NO"}
        BY <1>2, <3>1, AnsweredIs
      <3>3. IsSegs(now) /\ BehindUnanswered(now)
        BY <3>1, <3>2, RestatedKeeps
      <3>4. Shaped(rec1, now) /\ Shaped(rec2, now)
        <4>1. Shaped(rec, was)
          BY <3>1, RecShaped
        <4> HIDE DEF now, was
        <4>2. PICK x : [rec EXCEPT !.segs = now, !.locs[m.c] = m.loc]
                       = [[rec EXCEPT !.segs = now] EXCEPT !.locs = x]
          OBVIOUS
        <4>3. Shaped([rec EXCEPT !.segs = now], now)
          BY <4>1, ShapedSet
        <4>4. Shaped([[rec EXCEPT !.segs = now] EXCEPT !.locs = x], now)
          BY <4>3, ShapedSet
        <4>5. Shaped(rec1, now)
          BY <4>2, <4>4, RecomputeShaped
        <4> HIDE DEF rec1
        <4> QED
          BY <4>5, ShapedSet
      <3>5. IsRec(new) /\ new.segs = now
        <4> HIDE DEF rec1, rec2, now
        <4> QED
          BY <1>3, <3>3, <3>4, ShapedRec
      <3>6. ASSUME NEW i \in DOMAIN was
            PROVE  /\ i \in DOMAIN new.segs
                   /\ \/ new.segs[i].st = was[i].st
                      \/ new.segs[i].st \in Confirmed \cup {"XX"}
                      \/ was[i].st \notin Confirmed \cup {"XX"}
                      \/ Noticed(m.ext, i)'
        <4> HIDE DEF now, was
        <4>1. CASE /\ i = SegmentByKey(was, was[i].f) /\ was[i].st \in Confirmed \cup {"XX"}
                   /\ now[i].st \in {"HL", "UC", "UN", "NO"}
          <5>1. PICK it \in StatusItems(m.ext, was, now) :
                   it.rec = m.ext /\ it.seg = i /\ it.code \in {"unable", "waitlisted"}
            BY <3>1, <3>2, <4>1, LossQueued
          <5>2. it \in items'
            BY <1>5
          <5>3. Noticed(m.ext, i)'
            BY <5>1, <5>2 DEF Noticed
          <5> QED
            BY <3>2, <3>5, <5>3 DEF Restated
        <4>2. CASE ~(/\ i = SegmentByKey(was, was[i].f) /\ was[i].st \in Confirmed \cup {"XX"}
                     /\ now[i].st \in {"HL", "UC", "UN", "NO"})
          BY <3>2, <3>5, <4>2 DEF Restated, Confirmed
        <4> QED
          BY <4>1, <4>2
      <3> HIDE DEF rec1, rec2, now
      <3> QED
        BY <1>3, <1>7, <3>5, <3>6, OneKeeps DEF IInv
    <2> QED
      BY <2>1, <2>2
  <1>10. ItemInv' /\ EngInv' /\ WorkedInv'
    BY <1>1, <1>7, <1>8, <1>9, KeepsRest DEF IInv
  <1>11. ApiInv' /\ ReaderInv' /\ NetInv'
    BY <1>1, <1>4, NetKept DEF IInv, ApiInv, ReaderInv
  <1> QED
    BY <1>9, <1>10, <1>11 DEF IInv

---------------------------------------------------------------------------
(* The engine.                                                             *)

IsEng(e) == e = [pc |-> e.pc, r |-> e.r, dead |-> e.dead, at |-> e.at, ask |-> e.ask,
                 alt |-> e.alt, st |-> e.st, wl |-> e.wl]

(* What the engine works on has its eight fields. *)
LEMMA EngIs ==
    ASSUME NEW e, IsEng(e)
    PROVE  \E a, b, c, d, g, h, i, j :
              e = [pc |-> a, r |-> b, dead |-> c, at |-> d, ask |-> g, alt |-> h, st |-> i, wl |-> j]
  BY Zenon DEF IsEng

(* An engine without a task is idle. *)
LEMMA NoTaskIs == IsEng(NoTask) /\ NoTask.pc = "idle"
  BY DEF IsEng, NoTask

(* On to the next candidate, to the second pass, or to rest. *)
LEMMA OnwardIs ==
    ASSUME NEW e, IsEng(e)
    PROVE  /\ IsEng(Onward(e)) /\ Onward(e).pc \in {"idle", "try"}
           /\ Onward(e).pc = "try" => Onward(e).r = e.r
  <1>1. PICK a, b, c, d, g, h, i, j :
           e = [pc |-> a, r |-> b, dead |-> c, at |-> d, ask |-> g, alt |-> h, st |-> i, wl |-> j]
    BY EngIs
  <1>2. PICK x, y : \/ Onward(e) = NoTask
                    \/ Onward(e) = [pc |-> "try", r |-> b, dead |-> c, at |-> x, ask |-> y,
                                    alt |-> h, st |-> i, wl |-> j]
    <2>1. CASE e.at < Len(Candidates)
      <3>1. Onward(e) = [e EXCEPT !.pc = "try", !.at = d + 1]
        BY <1>1, <2>1 DEF Onward
      <3>2. Onward(e) = [pc |-> "try", r |-> b, dead |-> c, at |-> d + 1, ask |-> g,
                         alt |-> h, st |-> i, wl |-> j]
        BY <1>1, <3>1
      <3> QED
        BY <3>2
    <2>2. CASE ~(e.at < Len(Candidates)) /\ ~e.ask /\ AskCarriers
      <3>1. Onward(e) = [e EXCEPT !.pc = "try", !.at = 1, !.ask = TRUE]
        BY <2>2 DEF Onward
      <3>2. PICK t : t = TRUE
        OBVIOUS
      <3>3. Onward(e) = [pc |-> "try", r |-> b, dead |-> c, at |-> 1, ask |-> t,
                         alt |-> h, st |-> i, wl |-> j]
        BY <1>1, <3>1, <3>2
      <3> QED
        BY <3>3
    <2>3. CASE ~(e.at < Len(Candidates)) /\ ~(~e.ask /\ AskCarriers)
      <3>1. Onward(e) = NoTask
        BY <2>3 DEF Onward
      <3> QED
        BY <3>1
    <2> QED
      BY <2>1, <2>2, <2>3
  <1> QED
    BY <1>1, <1>2, NoTaskIs DEF IsEng

(* Away from its answers the engine only has to know its record. *)
LEMMA EngTries ==
    ASSUME IsEng(eng'), eng'.pc \in {"idle", "try"}, eng'.pc = "try" => eng'.r \in DOMAIN recs'
    PROVE  EngInv'
  BY DEF EngInv, IsEng

(* The engine takes a task, or drops one of a segment cancelled since. *)
LEMMA EngineTakesStep ==
    ASSUME IInv, EngineTakes
    PROVE  IInv' /\ Keeps
  <1>1. UNCHANGED <<recs, api, reader, net, worked>>
    BY DEF EngineTakes, carrier
  <1>2. PICK it \in items :
           /\ it.code = "schedule_cnl"
           /\ \/ items' = items \ {it} /\ UNCHANGED eng
              \/ /\ eng' = [NoTask EXCEPT !.pc = "try", !.r = it.rec, !.dead = it.seg, !.at = 1]
                 /\ UNCHANGED items
    BY DEF EngineTakes
  <1>3. ItemsKept /\ ItemsNew
    BY <1>2 DEF ItemsKept, ItemsNew
  <1>4. Keeps
    BY <1>1, <1>3, SameKeeps
  <1>5. ItemInv' /\ WorkedInv' /\ (UNCHANGED eng => EngInv')
    BY <1>1, <1>3, <1>4, KeepsRest DEF IInv
  <1>6. EngInv'
    <2>1. CASE UNCHANGED eng
      BY <1>5, <2>1
    <2>2. CASE eng' = [NoTask EXCEPT !.pc = "try", !.r = it.rec, !.dead = it.seg, !.at = 1]
      <3>1. eng'.r \in DOMAIN recs' /\ eng'.pc = "try" /\ IsEng(eng')
        <4>1. it.rec \in DOMAIN recs'
          BY <1>1, <1>2 DEF IInv, ItemInv
        <4>2. PICK a, b : a = it.rec /\ b = it.seg
          OBVIOUS
        <4>3. eng' = [pc |-> "try", r |-> a, dead |-> b, at |-> 1, ask |-> FALSE, alt |-> 0,
                      st |-> None, wl |-> {}]
          BY <2>2, <4>2 DEF NoTask
        <4> QED
          BY <4>1, <4>2, <4>3 DEF IsEng
      <3> QED
        BY <3>1, EngTries
    <2> QED
      BY <1>2, <2>1, <2>2
  <1>7. RecsInv' /\ ApiInv' /\ ReaderInv' /\ NetInv'
    BY <1>1 DEF IInv, RecsInv, ApiInv, ReaderInv, NetInv
  <1> QED
    BY <1>4, <1>5, <1>6, <1>7 DEF IInv

(* The status an answer has given, or none yet. *)
LEMMA awaitAnswerStep ==
    ASSUME IInv, awaitAnswer
    PROVE  IInv' /\ Keeps
  <1>1. UNCHANGED <<recs, api, reader, net, items, worked>>
    BY DEF awaitAnswer, carrier
  <1>2. PICK st : st = recs[eng.r].segs[eng.alt].st
    OBVIOUS
  <1>3. eng.pc = "await" /\ eng' = [eng EXCEPT !.pc = "act", !.st = st]
    BY <1>2 DEF awaitAnswer
  <1>4. IsEng(eng) /\ HasSeg(eng.r, eng.alt) /\ eng.r \in DOMAIN recs
    BY <1>3 DEF IInv, EngInv, IsEng
  <1>5. ItemsKept /\ ItemsNew
    BY <1>1 DEF ItemsKept, ItemsNew
  <1>6. Keeps
    BY <1>1, <1>5, SameKeeps
  <1>7. ItemInv' /\ WorkedInv'
    BY <1>1, <1>5, <1>6, KeepsRest DEF IInv
  <1>8. EngInv'
    <2>1. IsEng(eng') /\ eng'.pc = "act" /\ eng'.r = eng.r /\ eng'.alt = eng.alt /\ eng'.st = st
      <3>1. PICK a, b, c, d, g, h, i, j :
               eng = [pc |-> a, r |-> b, dead |-> c, at |-> d, ask |-> g, alt |-> h, st |-> i, wl |-> j]
        BY <1>4, EngIs
      <3>2. eng' = [pc |-> "act", r |-> b, dead |-> c, at |-> d, ask |-> g, alt |-> h, st |-> st, wl |-> j]
        BY <1>3, <3>1
      <3> QED
        BY <3>1, <3>2 DEF IsEng
    <2>2. st \in Confirmed => Held(eng.r, eng.alt)'
      BY <1>1, <1>2, <2>1 DEF Held
    <2>3. HasSeg(eng.r, eng.alt)' /\ eng'.r \in DOMAIN recs'
      BY <1>1, <1>4, <2>1 DEF HasSeg
    <2> QED
      BY <2>1, <2>2, <2>3 DEF EngInv, IsEng
  <1>9. RecsInv' /\ ApiInv' /\ ReaderInv' /\ NetInv'
    BY <1>1 DEF IInv, RecsInv, ApiInv, ReaderInv, NetInv
  <1> QED
    BY <1>6, <1>7, <1>8, <1>9 DEF IInv

(* AddSegment, on a record there is. *)
LEMMA AddSegmentIs ==
    ASSUME RecsInv, NEW r \in DOMAIN recs, NEW f, NEW seats, AddSegment(r, f, seats), UNCHANGED items
    PROVE  /\ RecsInv' /\ Keeps /\ DOMAIN recs' = DOMAIN recs /\ NetNew
           /\ Len(recs[r].segs) + 1 \in DOMAIN recs'[r].segs
  <1> DEFINE seg == Seg(f, IF AvailDecide(f, seats) = "free" THEN "HK" ELSE "HN", seats)
             new == Added(recs[r], seg, {carrierOf[f]})
  <1>1. recs' = [recs EXCEPT ![r] = new]
    BY DEF AddSegment, Added
  <1>2. NetNew
    <2>1. PICK down : Requested(r, recs[r], <<seg>>, down)
      BY DEF AddSegment
    <2> QED
      BY <2>1, RequestedIs
  <1>3. IsSeg(seg) /\ seg.st \in {"HN", "HK"}
    BY DEF Seg, IsSeg
  <1> HIDE DEF seg
  <1>4. /\ IsRec(new) /\ Len(recs[r].segs) + 1 \in DOMAIN new.segs
        /\ \A i \in DOMAIN recs[r].segs : i \in DOMAIN new.segs /\ new.segs[i] = recs[r].segs[i]
    BY <1>3, AddedIs DEF RecsInv
  <1> HIDE DEF new
  <1>5. ItemsKept
    BY DEF ItemsKept
  <1>6. RecsInv' /\ Keeps
    BY <1>1, <1>4, <1>5, OneKeeps
  <1>7. DOMAIN recs' = DOMAIN recs /\ recs'[r] = new
    BY <1>1
  <1> QED
    BY <1>2, <1>4, <1>6, <1>7

(* The engine adds the next candidate behind the segments there are, or    *)
(* moves on.                                                               *)
LEMMA EngineTriesStep ==
    ASSUME IInv, EngineTries
    PROVE  IInv' /\ Keeps
  <1>1. UNCHANGED <<api, reader, items, worked>>
    BY DEF EngineTries, carrier
  <1>2. eng.pc = "try" /\ IsEng(eng) /\ eng.r \in DOMAIN recs
    BY DEF EngineTries, IInv, EngInv, IsEng
  <1>3. ItemsKept /\ ItemsNew
    BY <1>1 DEF ItemsKept, ItemsNew
  <1>4. RecsInv' /\ Keeps /\ EngInv' /\ NetInv' /\ DOMAIN recs' = DOMAIN recs
    <2>1. CASE UNCHANGED <<recs, net>> /\ (eng' = NoTask \/ eng' = Onward(eng))
      <3>1. RecsInv' /\ NetInv' /\ Keeps
        BY <1>3, <2>1, SameKeeps DEF IInv, RecsInv, NetInv
      <3>2. IsEng(eng') /\ eng'.pc \in {"idle", "try"} /\ (eng'.pc = "try" => eng'.r \in DOMAIN recs')
        BY <1>2, <2>1, NoTaskIs, OnwardIs
      <3> QED
        BY <2>1, <3>1, <3>2, EngTries
    <2>2. CASE \E f : /\ AddSegment(eng.r, f, Seats)
                      /\ eng' = [eng EXCEPT !.pc = "await", !.alt = Len(recs[eng.r].segs) + 1]
      <3>1. PICK f : AddSegment(eng.r, f, Seats)
        BY <2>2
      <3>2. /\ RecsInv' /\ Keeps /\ DOMAIN recs' = DOMAIN recs /\ NetNew
            /\ Len(recs[eng.r].segs) + 1 \in DOMAIN recs'[eng.r].segs
        BY <1>1, <1>2, <3>1, AddSegmentIs DEF IInv
      <3>3. PICK n : n = Len(recs[eng.r].segs) + 1
        OBVIOUS
      <3>4. IsEng(eng') /\ eng'.pc = "await" /\ eng'.r = eng.r /\ eng'.alt = n
        <4>1. PICK a, b, c, d, g, h, i, j :
                 eng = [pc |-> a, r |-> b, dead |-> c, at |-> d, ask |-> g, alt |-> h, st |-> i, wl |-> j]
          BY <1>2, EngIs
        <4>2. eng' = [eng EXCEPT !.pc = "await", !.alt = n]
          BY <2>2, <3>3
        <4>3. eng' = [pc |-> "await", r |-> b, dead |-> c, at |-> d, ask |-> g, alt |-> n, st |-> i, wl |-> j]
          BY <4>1, <4>2
        <4> QED
          BY <4>1, <4>3 DEF IsEng
      <3>5. HasSeg(eng.r, eng.alt)' /\ eng'.r \in DOMAIN recs'
        BY <1>2, <3>2, <3>3, <3>4 DEF HasSeg
      <3>6. EngInv'
        BY <3>4, <3>5 DEF EngInv, IsEng
      <3> QED
        BY <3>2, <3>6, NetKept DEF IInv
    <2> QED
      BY <2>1, <2>2 DEF EngineTries
  <1>5. ItemInv' /\ WorkedInv'
    BY <1>1, <1>3, <1>4, KeepsRest DEF IInv
  <1>6. ApiInv' /\ ReaderInv'
    BY <1>1 DEF IInv, ApiInv, ReaderInv
  <1> QED
    BY <1>4, <1>5, <1>6 DEF IInv

(* What it reports rebooked was held when it read it, and still is. *)
LEMMA EngineConfirmsStep ==
    ASSUME IInv, EngineConfirms
    PROVE  IInv' /\ Keeps
  <1>1. UNCHANGED <<api, reader>> /\ eng' = NoTask
    BY DEF EngineConfirms, carrier
  <1>2. HasSeg(eng.r, eng.alt) /\ Held(eng.r, eng.alt) /\ eng.r \in DOMAIN recs
    BY DEF EngineConfirms, IInv, EngInv
  <1> DEFINE task == Task(eng.r, eng.dead)
  <1>3. Cancel(eng.r, {eng.dead} \cup eng.wl, items \ {task}, 0)
    BY DEF EngineConfirms
  <1>4. task.code = "schedule_cnl"
    BY DEF Task, Item
  <1> HIDE DEF task
  <1>5. /\ RecsInv' /\ Keeps /\ DOMAIN recs' = DOMAIN recs
        /\ ItemsKept /\ ItemsNew /\ NetNew
    BY <1>2, <1>3, <1>4, CancelIs DEF IInv
  <1>6. ItemInv'
    BY <1>5, KeepsRest DEF IInv
  <1>7. WorkedInv'
    <2>1. PICK new : new = [rec |-> eng.r, to |-> eng.alt]
      OBVIOUS
    <2>2. new.rec = eng.r /\ new.to = eng.alt /\ worked' = worked \cup {new}
      BY <2>1 DEF EngineConfirms
    <2>3. HasSeg(new.rec, new.to) /\ Held(new.rec, new.to)
      BY <1>2, <2>2
    <2>4. \A x \in worked' : HasSeg(x.rec, x.to) /\ Held(x.rec, x.to)
      BY <2>2, <2>3 DEF IInv, WorkedInv
    <2> QED
      BY <1>5, <2>4 DEF WorkedInv, Keeps
  <1>8. EngInv'
    BY <1>1, NoTaskIs, EngTries
  <1>9. ApiInv' /\ ReaderInv' /\ NetInv'
    BY <1>1, <1>5, NetKept DEF IInv, ApiInv, ReaderInv
  <1> QED
    BY <1>5, <1>6, <1>7, <1>8, <1>9 DEF IInv

(* The engine remembers a waitlisted leg and goes on to the next           *)
(* candidate.                                                              *)
LEMMA EngineWaitlistedStep ==
    ASSUME IInv, EngineWaitlisted
    PROVE  IInv' /\ Keeps
  <1>1. UNCHANGED <<recs, api, reader, net, items, worked>>
    BY DEF EngineWaitlisted, carrier
  <1>2. IsEng(eng) /\ eng.r \in DOMAIN recs
    BY DEF EngineWaitlisted, IInv, EngInv, IsEng
  <1>3. ItemsKept /\ ItemsNew
    BY <1>1 DEF ItemsKept, ItemsNew
  <1>4. Keeps
    BY <1>1, <1>3, SameKeeps
  <1>5. ItemInv' /\ WorkedInv'
    BY <1>1, <1>3, <1>4, KeepsRest DEF IInv
  <1>6. EngInv'
    <2>1. PICK e : e = [eng EXCEPT !.wl = eng.wl \cup {eng.alt}]
      OBVIOUS
    <2>2. eng' = Onward(e)
      BY <2>1 DEF EngineWaitlisted
    <2>3. IsEng(e) /\ e.r = eng.r
      <3>1. PICK a, b, c, d, g, h, i, j :
               eng = [pc |-> a, r |-> b, dead |-> c, at |-> d, ask |-> g, alt |-> h, st |-> i, wl |-> j]
        BY <1>2, EngIs
      <3>2. e = [pc |-> a, r |-> b, dead |-> c, at |-> d, ask |-> g, alt |-> h, st |-> i, wl |-> j \cup {h}]
        BY <2>1, <3>1
      <3> QED
        BY <3>1, <3>2 DEF IsEng
    <2>4. IsEng(eng') /\ eng'.pc \in {"idle", "try"} /\ (eng'.pc = "try" => eng'.r \in DOMAIN recs')
      BY <1>1, <1>2, <2>2, <2>3, OnwardIs
    <2> QED
      BY <2>4, EngTries
  <1>7. RecsInv' /\ ApiInv' /\ ReaderInv' /\ NetInv'
    BY <1>1 DEF IInv, RecsInv, ApiInv, ReaderInv, NetInv
  <1> QED
    BY <1>4, <1>5, <1>6, <1>7 DEF IInv

(* The engine cancels a leg that was refused or never answered, and goes   *)
(* on.                                                                     *)
LEMMA EngineGivesUpStep ==
    ASSUME IInv, EngineGivesUp
    PROVE  IInv' /\ Keeps
  <1>1. UNCHANGED <<api, reader, worked>> /\ eng' = Onward(eng) /\ Cancel(eng.r, {eng.alt}, items, 0)
    BY DEF EngineGivesUp, carrier
  <1>2. IsEng(eng) /\ eng.r \in DOMAIN recs
    BY DEF EngineGivesUp, IInv, EngInv, IsEng
  <1>3. RecsInv' /\ Keeps /\ DOMAIN recs' = DOMAIN recs /\ ItemsNew /\ NetNew
    BY <1>1, <1>2, CancelIs DEF IInv
  <1>4. ItemInv' /\ WorkedInv'
    BY <1>1, <1>3, KeepsRest DEF IInv
  <1>5. IsEng(eng') /\ eng'.pc \in {"idle", "try"} /\ (eng'.pc = "try" => eng'.r \in DOMAIN recs')
    BY <1>1, <1>2, <1>3, OnwardIs
  <1>6. EngInv'
    BY <1>5, EngTries
  <1>7. ApiInv' /\ ReaderInv' /\ NetInv'
    BY <1>1, <1>3, NetKept DEF IInv, ApiInv, ReaderInv
  <1> QED
    BY <1>3, <1>4, <1>6, <1>7 DEF IInv

---------------------------------------------------------------------------
(* The theorems.                                                           *)

(* At the start there are no records. *)
LEMMA InitInv == Init => IInv
  <1> SUFFICES ASSUME Init PROVE IInv
    OBVIOUS
  <1>1. RecsInv
    <2>1. recs = <<>> /\ DOMAIN recs = 1..0
      BY DEF Init
    <2>2. recs = [i \in DOMAIN recs |-> recs[i]]
      BY <2>1
    <2>3. IsSeq(recs)
      BY <2>1, <2>2, SeqByDomain
    <2> QED
      BY <2>1, <2>3 DEF RecsInv
  <1>2. ApiInv
    BY DEF Init, ApiInv
  <1>3. ReaderInv
    <2>1. reader = [x \in Carriers \X Readers |-> Idle]
      BY DEF Init
    <2>2. \A x \in Carriers \X Readers : reader[x] = Idle
      BY <2>1
    <2>3. reader = [x \in Carriers \X Readers |-> reader[x]]
      BY <2>1
    <2> QED
      BY <2>2, <2>3, IdleReader DEF ReaderInv, IsReader
  <1>4. NetInv /\ ItemInv /\ WorkedInv
    BY DEF Init, NetInv, ItemInv, WorkedInv
  <1>5. EngInv
    BY NoTaskIs DEF Init, EngInv, IsEng
  <1> QED
    BY <1>1, <1>2, <1>3, <1>4, <1>5 DEF IInv

(* IInv is inductive, and every step keeps what Keeps says. *)
LEMMA NextInv == IInv /\ [Next]_vars => IInv' /\ Keeps
  <1> SUFFICES ASSUME IInv, [Next]_vars PROVE IInv' /\ Keeps
    OBVIOUS
  <1>1. CASE UNCHANGED vars
    <2>1. UNCHANGED <<recs, api, carrier, items, eng, worked>> /\ NetNew
      BY <1>1 DEF vars, carrier, NetNew
    <2> QED
      BY <2>1, BeliefsStep
  <1>2. CASE \E a \in Agents : BookDecides(a) \/ Book(a)
    BY <1>2, BookDecidesStep, BookStep
  <1>3. CASE \E r \in DOMAIN recs : AgentCancels(r)
    BY <1>3, AgentCancelsStep
  <1>4. CASE \E m \in net : ReceiveReply(m) \/ ReceiveAvailability(m)
    <2> PICK m \in net : ReceiveReply(m) \/ ReceiveAvailability(m)
      BY <1>4
    <2>1. CASE ReceiveReply(m)
      BY <2>1, ReceiveReplyStep
    <2>2. CASE ReceiveAvailability(m)
      <3>1. UNCHANGED <<recs, api, carrier, items, eng, worked>> /\ NetNew
        BY <2>2 DEF ReceiveAvailability, carrier, NetNew
      <3> QED
        BY <3>1, BeliefsStep
    <2> QED
      BY <2>1, <2>2
  <1>5. CASE \E m \in net, w \in Readers : ReceiveSell(m, w) \/ ReceiveCancel(m, w)
    BY <1>5, ReceiveSellStep, ReceiveCancelStep
  <1>6. CASE \E c \in Carriers, w \in Readers : Decide(c, w) \/ respond(c, w)
    BY <1>6, DecideStep, respondStep
  <1>7. CASE \E c \in Carriers : Rebuild(c)
    BY <1>7, RebuildStep
  <1>8. CASE \E f \in Flights : Broadcast(f) \/ Stale(f)
    <2>1. UNCHANGED <<recs, api, carrier, items, eng, worked>>
      BY <1>8 DEF Broadcast, Stale, carrier
    <2>2. NetNew
      BY <1>8 DEF Broadcast, Stale, NetNew
    <2> QED
      BY <2>1, <2>2, BeliefsStep
  <1>9. CASE \E f \in Flights, act \in {"schedule_cnl", "schedule_tim"} : applySchedule(f, act)
    BY <1>9, applyScheduleStep
  <1>10. CASE EngineTakes \/ EngineTries \/ awaitAnswer
    BY <1>10, EngineTakesStep, EngineTriesStep, awaitAnswerStep
  <1>11. CASE EngineConfirms \/ EngineWaitlisted \/ EngineGivesUp
    BY <1>11, EngineConfirmsStep, EngineWaitlistedStep, EngineGivesUpStep
  <1> QED
    BY <1>1, <1>2, <1>3, <1>4, <1>5, <1>6, <1>7, <1>8, <1>9, <1>10, <1>11 DEF Next

(* IInv is an invariant of the specification. *)
LEMMA Inductive == Spec => []IInv
  <1>1. Init => IInv
    BY InitInv
  <1>2. IInv /\ [Next]_vars => IInv'
    BY NextInv
  <1> QED
    BY <1>1, <1>2, PTL DEF Spec

(* Engine: the leg a passenger was moved to is confirmed, or somebody      *)
(* cancelled it since, or the carrier's refusal of it is on the worklist,  *)
(* however late the engine acts on what it read.                           *)
THEOREM NobodyLeftWithNothing == Spec => []MovedIsHeld
  <1>1. IInv => MovedIsHeld
    BY DEF IInv, WorkedInv, MovedIsHeld, Held, Noticed
  <1> QED
    BY <1>1, Inductive, PTL
=============================================================================
