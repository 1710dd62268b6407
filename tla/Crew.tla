-------------------------------- MODULE Crew --------------------------------
(***************************************************************************)
(* pkg/crew: whether a crew member may fly a duty.  Times are hours from   *)
(* midnight of day 0; a period is a stretch of hours.  The tables are the  *)
(* code's, in half hours where it has halves; the cumulative limits are    *)
(* constants, which the code too takes from a Rules value.                 *)
(***************************************************************************)
EXTENDS Integers, Sequences, FiniteSets, SequencesExt, FiniteSetsExt

CONSTANTS Cumulative,  \* the look-back limits: [of, limit, span, days]
          Rest, FreeTime, FreeWindow, Extension

Day == 24

-----------------------------------------------------------------------------
(* One duty. *)

\* Table B: half hours, by the hour of report; columns 1-2, 3, 4, 5, 6, 7+.
FDP(h) ==
    CASE h < 4            -> <<18, 18, 18, 18, 18, 18>>
      [] h \in 4..4       -> <<20, 20, 20, 18, 18, 18>>
      [] h \in 5..5       -> <<24, 24, 24, 23, 22, 21>>
      [] h \in 6..6       -> <<26, 24, 24, 23, 22, 21>>
      [] h \in 7..11      -> <<28, 26, 26, 25, 24, 23>>
      [] h \in 12..12     -> <<26, 26, 26, 25, 24, 23>>
      [] h \in 13..16     -> <<24, 24, 24, 23, 22, 21>>
      [] h \in 17..21     -> <<24, 22, 22, 20, 18, 18>>
      [] h \in 22..22     -> <<22, 20, 20, 18, 18, 18>>
      [] OTHER            -> <<20, 20, 18, 18, 18, 18>>

FDPLimit(report, segments) == FDP(report % Day)[Min({Max({segments - 2, 0}), 5}) + 1]

FlightTimeLimit(report) == IF report % Day < 5 \/ report % Day >= 20 THEN 8 ELSE 9

LastArrival(d) == Max({d.legs[i].arrive : i \in 1..Len(d.legs)})
ReleaseOf(d) == LastArrival(d) + d.release

Block(legs) == FoldLeft(LAMBDA acc, l : acc + l.arrive - l.depart, 0, legs)

Check(d) ==
    /\ Block(d.legs) <= FlightTimeLimit(d.report)
    /\ 2 * (ReleaseOf(d) - d.report) <= FDPLimit(d.report, Len(d.legs)) + 2 * Extension

-----------------------------------------------------------------------------
(* The record. *)

overlap(a, b, from, to) == Max({0, Min({b, to}) - Max({a, from})})

Add(periods, p) ==
    LET i == Cardinality({j \in 1..Len(periods) : periods[j].report <= p.report})
    IN  InsertAt(periods, i + 1, p)

AddDuty(periods, d) ==
    Add(periods, [kind |-> "flight", report |-> d.report, release |-> ReleaseOf(d), legs |-> d.legs])

Trim(periods, before) == SelectSeq(periods, LAMBDA p : p.release >= before)

Sum(s, f(_)) == FoldLeft(LAMBDA acc, x : acc + f(x), 0, s)

blockIn(legs, from, to) == Sum(legs, LAMBDA l : overlap(l.depart, l.arrive, from, to))

FlightTime(periods, from, to) == Sum(periods, LAMBDA p : blockIn(p.legs, from, to))

DutyTime(periods, from, to) ==
    Sum(periods, LAMBDA p : IF p.kind = "flight" THEN overlap(p.report, p.release, from, to) ELSE 0)

\* The last release at or before the time, of a duty of any kind.
Released(periods, before) == {p.release : p \in {q \in ToSet(periods) : q.release <= before}}

\* The longest gap in [from, to): the periods sorted, a cursor moved past each.
LongestFree(periods, from, to) ==
    LET busy == SortSeq(SelectSeq(periods, LAMBDA p : p.release > from /\ p.report < to),
                        LAMBDA p, q : p.report < q.report)
        end  == FoldLeft(LAMBDA acc, p : [best |-> Max({acc.best, p.report - acc.cursor}),
                                          cursor |-> Max({acc.cursor, p.release})],
                         [best |-> 0, cursor |-> from], busy)
    IN  Max({end.best, to - end.cursor})

-----------------------------------------------------------------------------
(* The duty against the record. *)

\* Consecutive hours back from t, or calendar days to the end of t's day.
window(c, t) ==
    IF c.days > 0 THEN LET end == (t \div Day + 1) * Day IN [from |-> end - c.days * Day, to |-> end]
    ELSE [from |-> t - c.span, to |-> t]

\* Fault to inject: block time is looked at only when the duty begins.
WorstAtReport(c, d) == IF c.of = "flight" THEN {d.report} ELSE {ReleaseOf(d)}

\* Where a limit is looked at: block at each arrival, duty at release.
Worst(c, d) == IF c.of = "flight" THEN {d.legs[i].arrive : i \in 1..Len(d.legs)} ELSE {ReleaseOf(d)}

\* Totals: what a limit comes to with the duty added, at its worst.
Used(c, d, periods) ==
    Max({LET w == window(c, t)
         IN  IF c.of = "flight"
             THEN blockIn(d.legs, w.from, w.to) + FlightTime(periods, w.from, w.to)
             ELSE overlap(d.report, ReleaseOf(d), w.from, w.to) + DutyTime(periods, w.from, w.to)
         : t \in Worst(c, d)})

Admits(d, periods) ==
    /\ Check(d)
    /\ LET r == Released(periods, d.report) IN r # {} => d.report - Max(r) >= Rest
    /\ LongestFree(periods, d.report - FreeWindow, d.report) >= FreeTime
    /\ \A c \in Cumulative : Used(c, d, periods) <= c.limit

=============================================================================
