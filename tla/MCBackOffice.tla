---------------------------- MODULE MCBackOffice ----------------------------
(* Inputs small enough to enumerate, each with the case that is hard.        *)
EXTENDS BackOffice, TLC

(* Texts: no UNA, one that turns repetition off, one with other characters,  *)
(* bodies under version 3 and 4, and one with a segment too many.            *)
mcStems == [wire |-> {<<"UNB", "+">>, <<"UNB", "+", "UNOA", ":", "4">>,
            <<"UNA", ":", "+", ".", "?", " ", "'", "UNB", "+", "UNOA", ":", "4">>,
            <<"UNA", ";", "+", ",", "?", "*", "'", "UNB", "+">>,
            <<"UNB", "+", "UNOA", ":", "4", "'", "TVL", "+">>,
            <<"UNB", "+", "UNOA", ":", "3", "'", "TVL">>,
            <<"UNB", "+", "UNOA", ":", "4", "'", "TVL", "'", "TVL">>},
    (* No header, an address block to be wrapped, an origin line, a framed   *)
    (* text that ends like a frame.                                          *)
    teletype |-> {<<>>, <<"QD", "NYCRMAA", "PASSENGER">>, <<"LHRRMBA", T!LF>>,
                  <<"QU", "LHRRMBA", T!CR, T!LF, ".", "LONXX1A">>,
                  <<"ZCZC", "C1", T!LF, "QU", "LHRRMBA", T!LF, ".", "LONXX1A", "121430", T!LF, "x">>,
                  <<"QU", "LHRRMBA", "PASSENGER", "PASSENGER", T!LF, ".", "LONXX1A", T!LF, T!LF>>}]
mcSymbols == [wire |-> {"UNOA", "4", "+", ":", "*", "?", "'", E!LF, "x"},
              teletype |-> {"QU", "PASSENGER", ".", "LONXX1A", "121430", "PDM", "NNNN", "ZCZC", "x", "x~", T!LF, T!CR, T!CTL}]
mcMaxSymbols == [wire |-> 4, teletype |-> 3]

Opt(n, f, c, b, s) == [max |-> n, frame |-> f, channel |-> "C2", crlf |-> c, blank |-> b, charset |-> s]
mcOptions == {Opt(18, FALSE, TRUE, FALSE, TRUE), Opt(8, TRUE, FALSE, FALSE, FALSE), Opt(18, FALSE, FALSE, TRUE, FALSE)}
mcSample == T!Parse(<<"QU", "LHRRMBA", T!LF, ".", "LONXX1A", T!LF, "x">>)

(* Interchanges: messages of different lengths, and two groups.              *)
Text(s) == [tag |-> "IFT", text |-> s]
Msg(n, body) == [ref |-> n, body |-> body]
mcInterchanges ==
    {E!Finalize(1, <<>>, <<Msg(1, <<Text("a"), Text("b")>>), Msg(2, <<Text("a")>>)>>),
     E!Finalize(2, <<>>, <<Msg(1, <<Text("c")>>), Msg(2, <<Text("a"), Text("b")>>), Msg(3, <<>>)>>),
     E!Finalize(3, <<[ref |-> 1, messages |-> <<Msg(1, <<Text("a")>>), Msg(2, <<Text("b")>>)>>],
                     [ref |-> 2, messages |-> <<Msg(1, <<Text("a")>>)>>]>>, <<>>)}

(* A tariff: fares for early buyers, for a stay, for a season; taxes of all  *)
(* kinds, one that infants pay.                                              *)
Fare(m, c, a, adv, lo, hi, to) == [market |-> m, class |-> c, basis |-> <<c, a>>, amount |-> a, advance |-> adv,
                                   minStay |-> lo, maxStay |-> hi, from |-> 0, to |-> to]
Out == <<"LHR", "NYC">>
Home == <<"NYC", "LHR">>
mcFiled == {Fare(Out, "Y", 333, 0, 0, 0, 1000), Fare(Out, "Y", 199, 7, 0, 0, 1000), Fare(Out, "Y", 105, 1, 2, 3, 1000),
            Fare(Home, "Y", 301, 0, 0, 0, 200), Fare(Home, "Y", 155, 2, 1, 0, 1000), Fare(Home, "K", 99, 3, 0, 2, 1000)}
Levy(k, a, at, inf) == [code |-> k, kind |-> k, amount |-> a, airports |-> at, infants |-> inf]
mcLevies == <<Levy("percent", 7, {}, FALSE), Levy("segment", 5, {}, FALSE), Levy("ticket", 11, {}, TRUE),
              Levy("enplanement", 4, {"NYC"}, TRUE)>>
Flight(m, c, d) == [market |-> m, class |-> c, depart |-> d]
mcFlights == {Flight(Out, "Y", 180), Flight(Home, "Y", 190), Flight(Home, "Y", 240), Flight(Home, "K", 250),
              Flight(Out, "Y", 300)}
mcParty == {"ADT", "CHD", "INF"}
mcPurchases == {0, 12, 100, 170}
mcDistances == {0, 3, 7}

(* Sales: cash with four taxes, card and cash, a refund, an exchange in      *)
(* another currency.                                                         *)
Tax(n, a) == [i \in 1..n |-> [code |-> "T", amount |-> a]]
Pay(ty, a) == [type |-> ty, amount |-> a, remittance |-> 0]
Sale == [document |-> 0, code |-> "TKTT", currency |-> "", fare |-> 100, taxes |-> Tax(4, 5), total |-> 0,
         rate |-> 900, commission |-> 0, coupons |-> 2, related |-> FALSE, original |-> FALSE,
         payments |-> <<Pay("CA", 120)>>]
mcTemplates ==
    {Sale,
     [Sale EXCEPT !.taxes = Tax(7, 3), !.payments = <<Pay("CA", 21), Pay("CC", 100)>>, !.coupons = 1],
     [Sale EXCEPT !.code = "RFND", !.fare = -100, !.taxes = Tax(1, -5), !.payments = <<Pay("CA", -105)>>,
                  !.related = TRUE],
     [Sale EXCEPT !.currency = "USD", !.taxes = <<>>, !.rate = 0, !.commission = 7, !.original = TRUE,
                  !.payments = <<Pay("EX", 100)>>]}

mcCumulative == {[of |-> "flight", limit |-> 10, span |-> 40, days |-> 0],
                 [of |-> "flight", limit |-> 12, span |-> 0, days |-> 2],
                 [of |-> "duty", limit |-> 18, span |-> 36, days |-> 0]}
mcShapes == {<<<<1, 6>>>>, <<<<1, 3>>, <<4, 8>>>>, <<<<1, 9>>>>}
mcGaps == {5, 9, 10, 13, 20}

(* A party of four, a service and a ticket of nobody's, and a dead segment.  *)
Ref(n, of) == [ref |-> n, of |-> of]
mcBooking ==
    [locator |-> 1, theirs |-> "", status |-> "open", pax |-> <<"ann", "bob", "cat", "dan">>,
     segs |-> <<[carrier |-> "edi", seats |-> 4, status |-> "HK"], [carrier |-> "tty", seats |-> 4, status |-> "HK"],
                [carrier |-> "none", seats |-> 4, status |-> "HN"], [carrier |-> "gone", seats |-> 4, status |-> "XX"]>>,
     ssrs |-> <<Ref(3, "cat"), Ref(0, "all"), Ref(1, "ann")>>, tickets |-> <<Ref(2, "bob"), Ref(0, "group"), Ref(3, "cat")>>,
     pricing |-> <<Ref(1, "ann"), Ref(2, "bob"), Ref(3, "cat"), Ref(4, "dan")>>, splitFrom |-> 0, splitTo |-> {}]
mcFormat == "edi" :> "edifact" @@ "tty" :> "teletype"

(* A bulk-loaded type, and one that takes containers fore and aft.           *)
Bulk == [dow |-> 1000, dowArm |-> 20, ref |-> 20, lemac |-> 18, mac |-> 4, fuelArm |-> 20, fwdArm |-> 19, aftArm |-> 21,
         mzfw |-> 1400, mtow |-> 1800, mlw |-> 1600,
         holds |-> <<[name |-> 1, max |-> 60, arm |-> 12, uld |-> FALSE, positions |-> <<>>, uldMax |-> 0],
                     [name |-> 3, max |-> 50, arm |-> 26, uld |-> FALSE, positions |-> <<>>, uldMax |-> 0],
                     [name |-> 5, max |-> 20, arm |-> 31, uld |-> FALSE, positions |-> <<>>, uldMax |-> 0]>>]
Boxes == [Bulk EXCEPT !.holds =
            <<[name |-> 1, max |-> 60, arm |-> 12, uld |-> TRUE, positions |-> <<<<1, "1L">>, <<1, "1R">>, <<2, "1L">>>>, uldMax |-> 25],
              [name |-> 3, max |-> 50, arm |-> 26, uld |-> TRUE, positions |-> <<<<3, "1L">>, <<4, "1L">>>>, uldMax |-> 25],
              [name |-> 5, max |-> 20, arm |-> 31, uld |-> FALSE, positions |-> <<>>, uldMax |-> 0]>>]
mcAircraft == {Bulk, Boxes}
mcWeights == {7, 10, 23, 45}
=============================================================================
