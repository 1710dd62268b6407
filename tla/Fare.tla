-------------------------------- MODULE Fare --------------------------------
(***************************************************************************)
(* pkg/fare, the gateway's use of it, and pkg/prorate: what an itinerary   *)
(* costs and how a fare is divided between its coupons.  Amounts are in    *)
(* minor units of one currency, times in hours.  A fare is                 *)
(* [market, class, basis, amount, advance, minStay, maxStay, from, to];    *)
(* a tax [code, kind, amount, airports, infants].                          *)
(***************************************************************************)
EXTENDS Integers, Sequences, FiniteSets, SequencesExt, TLC

CONSTANTS Filed, Levies   \* the tariff: a set of fares, a sequence of taxes

Hours == 24

Total(s, Of(_)) == FoldLeft(LAMBDA n, x : n + Of(x), 0, s)

\* Scale: a share in hundredths, to the nearest minor unit.
Scale(amount, share) == (amount * share + 50) \div 100

Discount(pt) == CASE pt = "CHD" -> 75 [] pt = "INF" -> 10 [] OTHER -> 100

-----------------------------------------------------------------------------
(* Price. *)

\* Fault to inject: a fare for late buyers only.
checkReversed(f, depart, purchased, stay) ==
    /\ f.advance > 0 => depart - purchased <= f.advance * Hours
    /\ f.from <= depart /\ depart <= f.to

\* Rule.check: zero is no restriction, and so is a stay of no whole day.
check(f, depart, purchased, stay) ==
    /\ f.advance > 0 => depart - purchased >= f.advance * Hours
    /\ f.from <= depart /\ depart <= f.to
    /\ stay > 0 => /\ f.minStay > 0 => stay >= f.minStay
                   /\ f.maxStay > 0 => stay <= f.maxStay

\* The whole days between the first departure and the last of a trip that
\* comes back to where it started.
Stay(segs) ==
    IF Len(segs) > 1 /\ Last(segs).market[2] = segs[1].market[1]
    THEN (Last(segs).depart - segs[1].depart) \div Hours ELSE 0

\* Filing.Fares: what is filed for a market.
Fares(market) == {f \in Filed : f.market = market}

\* Those of a segment's class that may be sold for this trip.
Sellable(s, purchased, stay) ==
    {f \in Fares(s.market) : f.class = s.class /\ check(f, s.depart, purchased, stay)}

Lowest(fares) == CHOOSE f \in fares : \A g \in fares : f.amount <= g.amount

\* What a tax comes to for one passenger.
TaxOf(tx, base, segs) ==
    CASE tx.kind = "percent" -> Scale(base, tx.amount)
      [] tx.kind = "segment" -> tx.amount * Len(segs)
      [] tx.kind = "ticket" -> tx.amount
      [] tx.kind = "enplanement" ->
           tx.amount * Cardinality({i \in 1..Len(segs) : tx.airports = {} \/ segs[i].market[1] \in tx.airports})

Charged(pt, shares, base, levied, segs) ==
    LET taxes == Total(levied, LAMBDA tx : TaxOf(tx, base, segs))
    IN  [type |-> pt, segs |-> shares, base |-> base, taxes |-> taxes, total |-> base + taxes]
Taxed(pt, shares, base, segs) ==
    Charged(pt, shares, base,
            SelectSeq(Levies, LAMBDA tx : (pt # "INF" \/ tx.infants) /\ TaxOf(tx, base, segs) # 0), segs)
FareOf(pt, shares, segs) == Taxed(pt, shares, Total(shares, LAMBDA x : x), segs)
PassengerQuote(pt, chosen, segs) ==
    FareOf(pt, [i \in 1..Len(chosen) |-> Scale(chosen[i].amount, Discount(pt))], segs)

Quote(chosen, quotes) ==
    [ok |-> TRUE, chosen |-> chosen, passengers |-> quotes,
     base |-> Total(quotes, LAMBDA q : q.base), taxes |-> Total(quotes, LAMBDA q : q.taxes),
     total |-> Total(quotes, LAMBDA q : q.total)]
Quoted(chosen, pax, segs) == Quote(chosen, [i \in 1..Len(pax) |-> PassengerQuote(pax[i], chosen, segs)])

\* Price; refused when a segment has no fare that may be sold.
Price(segs, pax, purchased) ==
    LET can(s) == Sellable(s, purchased, Stay(segs))
    IN  IF segs = <<>> \/ pax = <<>> \/ \E s \in ToSet(segs) : can(s) = {} THEN [ok |-> FALSE]
        ELSE Quoted([i \in 1..Len(segs) |-> Lowest(can(segs[i]))], pax, segs)

\* price: what the record keeps, passengers by their place.
Referenced(q, n) == [q EXCEPT !.passengers = [i \in 1..n |-> [ref |-> i] @@ q.passengers[i]]]
price(segs, pax, now) == Referenced(Price(segs, pax, now), Len(pax))

\* couponValue: the segment's share and an equal part of the taxes, without
\* what the division leaves over.
couponValue(pricing, ref, k) ==
    LET pp == pricing.passengers[ref] IN pp.segs[k] + pp.taxes \div Len(pp.segs)

-----------------------------------------------------------------------------
(* pkg/prorate *)

\* Division as the processor does it, towards zero.
Quotient(a, b) == IF a < 0 THEN -((-a) \div b) ELSE a \div b

\* Straight: by distance, equally if there is none; the last takes the rest.
\* No coupons, or one of a negative distance, is refused.
Straight(fare, distances) ==
    LET n     == Len(distances)
        total == Total(distances, LAMBDA d : d)
        part  == [i \in 1..n |-> IF total = 0 THEN Quotient(fare, n) ELSE Quotient(fare * distances[i], total)]
    IN  IF n = 0 \/ \E d \in ToSet(distances) : d < 0 THEN [ok |-> FALSE]
        ELSE [ok |-> TRUE, shares |-> [part EXCEPT ![n] = @ + fare - Total(part, LAMBDA x : x)]]

\* ServiceCharge: hundredths of a percent, to the nearest minor unit, of a
\* share or of one taken back.
ServiceCharge(amount, rate) ==
    LET n == amount * rate
    IN  IF rate <= 0 \/ amount = 0 THEN 0
        ELSE IF n >= 0 THEN (n + 5000) \div 10000 ELSE -((5000 - n) \div 10000)

=============================================================================
