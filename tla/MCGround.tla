------------------------------ MODULE MCGround ------------------------------
(* Two aircraft, a party of two, one in the other cabin, and go-shows. *)
EXTENDS Ground, TLC

Fleet ==
    "big" :> << [seat |-> "1A", comp |-> "C", block |-> 1],
                [seat |-> "2A", comp |-> "Y", block |-> 2], [seat |-> "2B", comp |-> "Y", block |-> 2] >>
    @@ "small" :> << [seat |-> "1A", comp |-> "Y", block |-> 1] >>

Pair == [key |-> "pair", party |-> 2, class |-> "Y"]
Solo == [key |-> "solo", party |-> 1, class |-> "C"]

PNL(p, last, names) == [kind |-> "PNL", part |-> p, final |-> last, names |-> names,
                        del |-> <<>>, add |-> <<>>, chg |-> <<>>]
ADL(del, add, chg) == [kind |-> "ADL", part |-> 0, final |-> FALSE, names |-> <<>>,
                       del |-> del, add |-> add, chg |-> chg]

Lists == {PNL(1, FALSE, <<Pair>>), PNL(2, TRUE, <<Solo>>),
          ADL(<<Pair>>, <<Solo>>, <<[Solo EXCEPT !.class = "Y"]>>)}

Shows == {[class |-> "Y", cat |-> "goshow", standby |-> FALSE, seat |-> NoSeat],
          [class |-> "Y", cat |-> "staff", standby |-> FALSE, seat |-> NoSeat]}

Calls == {<<[party |-> "pair", nth |-> 1, seat |-> "2A", bags |-> 0],
            [party |-> "pair", nth |-> 2, seat |-> "2A", bags |-> 1]>>}
=============================================================================
