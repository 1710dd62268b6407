------------------------------ MODULE LoadPlan ------------------------------
(***************************************************************************)
(* AircraftType.Plan in pkg/dcs: bags, cargo and mail into the holds of a  *)
(* closed flight, bags into containers, the weights against their limits,  *)
(* and the load message.  Weights are kilos, arms whole units, and a       *)
(* comparison of fractions is made on their numerators; the forward share  *)
(* of the bags is in twentieths.  An aircraft is a record with its         *)
(* compartments in the order of its data; a position is its first          *)
(* character and the rest.  Of a message's lines the model keeps the       *)
(* fields, each under the prefix it is read by, not their punctuation.     *)
(***************************************************************************)
EXTENDS Integers, Sequences, SequencesExt, FiniteSetsExt

Total(s, f(_)) == FoldLeft(LAMBDA acc, x : acc + f(x), 0, s)
Magnitude(v) == IF v < 0 THEN -v ELSE v
rounded(a, b) == (2 * a + b) \div (2 * b)

-----------------------------------------------------------------------------
(* The holds. *)

\* Sorted by arm, the aftmost first; equal arms stay in order.
aftFirst(t) == SortSeq(t.holds, LAMBDA a, b : a.arm > b.arm)

splitCompartments(t) ==
    [fwd |-> SelectSeq(t.holds, LAMBDA c : c.arm < t.ref), aft |-> SelectSeq(t.holds, LAMBDA c : c.arm >= t.ref)]

capacityOf(comps, used) == Total(comps, LAMBDA c : c.max - used[c.name])

\* The average arm weighted by limit, off the datum, as [num, den]; of no compartments it is 0.
avgArm(comps, ref) ==
    IF comps = <<>> THEN [num |-> -ref, den |-> 1]
    ELSE [num |-> Total(comps, LAMBDA c : (c.arm - ref) * c.max), den |-> Total(comps, LAMBDA c : c.max)]

\* Kilos into compartments in order: [holds, moment, left, took].
Stowed(comps, kg, l, ref) ==
    FoldLeft(LAMBDA acc, c :
        LET take == Max({0, Min({c.max - acc.holds[c.name], acc.left})})
        IN  [holds |-> [acc.holds EXCEPT ![c.name] = @ + take], moment |-> acc.moment + take * (c.arm - ref),
             left |-> acc.left - take, took |-> Append(acc.took, take)],
        [holds |-> l.holds, moment |-> l.moment, left |-> kg, took |-> <<>>], comps)

-----------------------------------------------------------------------------
(* Bags. *)

\* The moment at take-off with that share forward, over both denominators,
\* away from the middle of the envelope.
Score(t, l, share) ==
    LET s == splitCompartments(t)
        f == avgArm(s.fwd, t.ref)
        a == avgArm(s.aft, t.ref)
        fwd == rounded(l.bagKilos * share, 20)
        tow == t.dow + l.pax + l.bagKilos + l.dead + l.fuel
    IN  Magnitude(2 * ((l.moment + l.fuel * (t.fuelArm - t.ref)) * f.den * a.den
                       + fwd * f.num * a.den + (l.bagKilos - fwd) * a.num * f.den)
                  - (t.fwdArm + t.aftArm - 2 * t.ref) * tow * f.den * a.den)

\* Fault to inject: what the holds have left is not looked at.
FitsAlways(t, l, share) == TRUE

Fits(t, l, share) ==
    LET s == splitCompartments(t)
        fwd == rounded(l.bagKilos * share, 20)
    IN  fwd <= capacityOf(s.fwd, l.holds) /\ l.bagKilos - fwd <= capacityOf(s.aft, l.holds)

\* The first of the shares that fit nearest the middle; half when none does.
BestShare(t, l) ==
    LET fit == {k \in 0..20 : Fits(t, l, k)}
    IN  IF fit = {} THEN 10
        ELSE CHOOSE k \in fit : \A j \in fit :
               \/ Score(t, l, k) < Score(t, l, j)
               \/ Score(t, l, k) = Score(t, l, j) /\ k <= j

FreePositions(c, ulds) == SelectSeq(c.positions, LAMBDA p : \A u \in ToSet(ulds) : u.position # p)

\* buildULDs: containers at the free positions, each as full as it may be.
buildULDs(c, kg, ulds) ==
    LET free == FreePositions(c, ulds)
        n    == Min({Len(free), (kg + c.uldMax - 1) \div c.uldMax})
    IN  ulds \o [i \in 1..n |-> [position |-> free[i], seq |-> Len(ulds) + i, bags |-> 0,
                                 weight |-> Min({c.uldMax, kg - (i - 1) * c.uldMax})]]

\* fill: a share of the bags into its compartments, containers where they take them.
fill(t, comps, kg, l) ==
    LET s == Stowed(comps, kg, l, t.ref)
        ulds == FoldLeft(LAMBDA acc, i : IF comps[i].uld /\ s.took[i] > 0 THEN buildULDs(comps[i], s.took[i], acc)
                                         ELSE acc,
                         l.ulds, [i \in 1..Len(comps) |-> i])
    IN  [l EXCEPT !.holds = s.holds, !.moment = s.moment, !.ulds = ulds, !.left = Append(@, s.left)]

\* Bag counts by weight, and what rounding leaves to the last container.
WithBags(l) ==
    LET n == Len(l.ulds)
        count[i \in 0..n] ==
          IF i = 0 THEN 0
          ELSE count[i - 1] + Min({rounded(l.bags * l.ulds[i].weight, Max({1, l.bagKilos})), l.bags - count[i - 1]})
    IN  IF l.bags = 0 \/ n = 0 THEN l
        ELSE [l EXCEPT !.ulds = [i \in 1..n |-> [l.ulds[i] EXCEPT
                 !.bags = count[i] - count[i - 1] + (IF i = n THEN l.bags - count[n] ELSE 0)]]]

-----------------------------------------------------------------------------
(* The plan. *)

\* A load before planning: boarded passengers' weight and moment, bags, dead load, fuel.
Unplanned(t, pax, paxMoment, bags, dead, fuel, trip) ==
    [pax |-> pax, bags |-> Len(bags), bagKilos |-> Total(bags, LAMBDA w : w), dead |-> dead,
     fuel |-> fuel, trip |-> trip, holds |-> [n \in {t.holds[i].name : i \in 1..Len(t.holds)} |-> 0],
     ulds |-> <<>>, left |-> <<>>, moment |-> t.dow * (t.dowArm - t.ref) + paxMoment]

\* The dead load first, the bags by the best share of what room is left.
WithDead(l, d) == [l EXCEPT !.holds = d.holds, !.moment = d.moment, !.left = <<d.left>>]
Shared(t, l, s, fwd) == WithBags(fill(t, s.aft, l.bagKilos - fwd, fill(t, s.fwd, fwd, l)))
Stacked(t, l) == Shared(t, l, splitCompartments(t), rounded(l.bagKilos * BestShare(t, l), 20))
Loaded(t, l) == Stacked(t, WithDead(l, Stowed(aftFirst(t), l.dead, l, t.ref)))
Planned(t, pax, paxMoment, bags, dead, fuel, trip) == Loaded(t, Unplanned(t, pax, paxMoment, bags, dead, fuel, trip))

ZFW(t, l) == t.dow + l.pax + l.bagKilos + l.dead
TOW(t, l) == ZFW(t, l) + l.fuel
LAW(t, l) == TOW(t, l) - l.trip
Underload(t, l) == Min({t.mzfw - ZFW(t, l), t.mtow - TOW(t, l), t.mlw - LAW(t, l)})

\* Tenths of the chord, as the loadsheet has it.
MACTOW(t, l) ==
    rounded(1000 * ((t.ref - t.lemac) * TOW(t, l) + l.moment + l.fuel * (t.fuelArm - t.ref)), TOW(t, l) * t.mac)

\* Every limit the load breaks; `left' has the kilos that did not fit.
Violations(t, l) ==
    {[what |-> "does not fit", kg |-> l.left[i], where |-> i] : i \in {j \in 1..Len(l.left) : l.left[j] > 0}}
    \cup {[what |-> "weight", kg |-> 0, where |-> i] :
            i \in {j \in 1..3 : <<ZFW(t, l) > t.mzfw, TOW(t, l) > t.mtow, LAW(t, l) > t.mlw>>[j]}}
    \cup {[what |-> "trim", kg |-> 0, where |-> 0] :
            x \in {y \in {0} : \/ MACTOW(t, l) * t.mac < 1000 * (t.fwdArm - t.lemac)
                               \/ MACTOW(t, l) * t.mac > 1000 * (t.aftArm - t.lemac)}}
    \cup {[what |-> "compartment", kg |-> 0, where |-> i] :
            i \in {j \in 1..Len(t.holds) : l.holds[t.holds[j].name] > t.holds[j].max}}

-----------------------------------------------------------------------------
(* The load message. *)

\* BuildLDM: the total, a field for each hold in order of name, the cabin, and
\* the supplementary line.
BuildLDM(t, l) ==
    LET names == SetToSortSeq(DOMAIN l.holds, <)
    IN  <<[is |-> "T", kg |-> Total(names, LAMBDA n : l.holds[n])]>>
        \o [i \in 1..Len(names) |-> [is |-> "hold", name |-> names[i], kg |-> l.holds[names[i]]]]
        \o <<[is |-> "PAX"], [is |-> "PAD"],
             [is |-> "SI", bags |-> l.bags, kg |-> l.bagKilos, legal |-> Violations(t, l) = {}]>>

\* ParseLDM: field by field; a later one of the same name replaces an earlier one.
ParseLDM(m) ==
    FoldLeft(LAMBDA d, f : CASE f.is = "T" -> [d EXCEPT !.total = f.kg]
                             [] f.is = "hold" -> [d EXCEPT !.holds = (f.name :> f.kg) @@ @]
                             [] OTHER -> d,
             [total |-> 0, holds |-> <<>>], m)

\* BuildCPM: a line for each container, then one for each hold that no
\* container's position begins with.
BuildCPM(t, l) ==
    LET names == SetToSortSeq(DOMAIN l.holds, <)
        boxed(n) == \E u \in ToSet(l.ulds) : u.position[1] = n
        bulk  == SelectSeq(names, LAMBDA n : ~boxed(n) /\ l.holds[n] # 0)
    IN  [i \in 1..Len(l.ulds) |-> [place |-> l.ulds[i].position, uld |-> l.ulds[i].seq, weight |-> l.ulds[i].weight]]
        \o [i \in 1..Len(bulk) |-> [place |-> bulk[i], uld |-> 0, weight |-> l.holds[bulk[i]]]]

=============================================================================
