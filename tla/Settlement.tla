----------------------------- MODULE Settlement -----------------------------
(***************************************************************************)
(* pkg/bsp: the HOT a settlement plan hands an airline and the RET a       *)
(* reporting system sends the plan.  A file is a sequence of records, a    *)
(* record its type and the fields that amounts and structure hang on; the  *)
(* columns of names, places and dates are left out.  Amounts are in minor  *)
(* units, written in fields of a fixed number of digits.                   *)
(***************************************************************************)
EXTENDS Integers, Sequences, SequencesExt, FiniteSetsExt

CONSTANTS AmountField,  \* 10^11 in the handbook: an amount's digits
          TotalField    \* 10^15: a total's

ASSUME FieldAssumption == AmountField \in Nat \ {0} /\ TotalField \in Nat \ {0}

SumOf(s, f(_)) == FoldLeft(LAMBDA acc, x : acc + f(x), 0, s)
Abs(v) == IF v < 0 THEN -v ELSE v

\* Only the low digits fit; the sign is punched over the last one.
putAmount(v, field) == [digits |-> Abs(v) % field, neg |-> v < 0]
getAmount(p) == IF p.neg THEN -p.digits ELSE p.digits

-----------------------------------------------------------------------------
(* Computing. *)

roundDiv(a, b) == IF a >= 0 THEN (a + b \div 2) \div b ELSE -((-a + b \div 2) \div b)

TaxesOf(t) == SumOf(t.taxes, LAMBDA x : x.amount)

\* The last cash payment, or 0.
Cash(pays) == Max({0} \cup {i \in 1..Len(pays) : pays[i].type = "CA"})

Compute(t) ==
    LET total == IF t.total = 0 THEN t.fare + TaxesOf(t) ELSE t.total
        comm  == IF t.commission = 0 /\ t.rate # 0 THEN roundDiv(t.fare * t.rate, 10000) ELSE t.commission
        pays  == IF Cash(t.payments) = 0 THEN Append(t.payments, [type |-> "CA", amount |-> 0, remittance |-> 0])
                 ELSE t.payments
    IN  [t EXCEPT !.total = total, !.commission = comm,
                  !.payments = [i \in 1..Len(pays) |-> [pays[i] EXCEPT
                      !.remittance = IF i = Cash(pays) THEN pays[i].amount - comm ELSE 0]]]

Totals(t) ==
    [gross |-> t.total, remittance |-> t.payments[Cash(t.payments)].remittance,
     commission |-> -t.commission, taxes |-> TaxesOf(t)]

NoTotals == [gross |-> 0, remittance |-> 0, commission |-> 0, taxes |-> 0]

add(a, b) == [k \in DOMAIN NoTotals |-> a[k] + b[k]]

SumTotals(s) == FoldLeft(add, NoTotals, s)

-----------------------------------------------------------------------------
(* Writing the HOT. *)

\* One amounts record per three taxes, and one when there are none.
Chunks(s, n) ==
    [i \in 1..Max({1, (Len(s) + n - 1) \div n}) |-> SubSeq(s, n * (i - 1) + 1, Min({n * i, Len(s)}))]

\* The first cash record goes last.
CashLast(pays) ==
    LET cash == {i \in 1..Len(pays) : pays[i].type = "CA"}
    IN  IF cash = {} THEN pays ELSE RemoveAt(pays, Min(cash)) \o <<pays[Min(cash)]>>

AmountsRecords(t, cur) ==
    LET groups == Chunks(t.taxes, 3)
    IN  [i \in 1..Len(groups) |->
          [id |-> "BKS30", currency |-> cur,
           fare |-> putAmount(IF i = 1 THEN t.fare ELSE 0, AmountField),
           total |-> putAmount(IF i = 1 THEN t.total ELSE 0, AmountField),
           taxes |-> [j \in 1..Len(groups[i]) |->
                        [code |-> groups[i][j].code, amount |-> putAmount(groups[i][j].amount, AmountField)]]]]

transactionRecords(t, trnn, cur) ==
    LET opt(have, id) == IF have THEN <<[id |-> id]>> ELSE <<>>
        pays == CashLast(t.payments)
        rest == <<[id |-> "BKS24", document |-> t.document, code |-> t.code]>>
                \o AmountsRecords(t, cur)
                \o <<[id |-> "BKS39", rate |-> t.rate, commission |-> putAmount(-t.commission, AmountField)]>>
                \o opt(t.related, "BKS45") \o opt(t.original, "BKS46")
                \o [i \in 1..t.coupons |-> [id |-> "BKI63", coupon |-> i]]
                \o <<[id |-> "BAR64"], [id |-> "BAR65"]>>
                \o [i \in 1..Len(pays) |->
                      [id |-> "BKP84", type |-> pays[i].type, amount |-> putAmount(pays[i].amount, AmountField),
                       remittance |-> putAmount(pays[i].remittance, AmountField)]]
    IN  <<[id |-> "BKT06", trnn |-> trnn, trec |-> Len(rest) + 1]>> \o rest

CurrencyOf(t, o) == IF t.currency = "" THEN o.currency ELSE t.currency

\* The keys of a sequence in the order they first appear.
Appearing(s) == FoldLeft(LAMBDA acc, k : IF k \in ToSet(acc) THEN acc ELSE Append(acc, k), <<>>, s)

putTotals(t) == [k \in DOMAIN NoTotals |-> putAmount(t[k], TotalField)]

\* Fault to inject: subtotals by transaction code alone.
CodeKeyAlone(t, o) == <<t.code, o.currency>>

CodeKey(t, o) == <<t.code, CurrencyOf(t, o)>>

SumWhere(txs, Is(_)) == SumTotals(LET s == SelectSeq(txs, Is) IN [i \in 1..Len(s) |-> Totals(s[i])])

\* Of one office: header, transactions numbered on from n, subtotals, totals.
OfficeLines(o, txs, n) ==
    LET keys == Appearing([i \in 1..Len(txs) |-> CodeKey(txs[i], o)])
        curs == Appearing([i \in 1..Len(txs) |-> CurrencyOf(txs[i], o)])
    IN  <<[id |-> "BOH03", agent |-> o.agent, currency |-> o.currency]>>
        \o FlattenSeq([i \in 1..Len(txs) |-> transactionRecords(txs[i], n + i, CurrencyOf(txs[i], o))])
        \o [i \in 1..Len(keys) |->
              [id |-> "BOT93", agent |-> o.agent, key |-> keys[i],
               totals |-> putTotals(SumWhere(txs, LAMBDA t : CodeKey(t, o) = keys[i]))]]
        \o [i \in 1..Len(curs) |->
              [id |-> "BOT94", agent |-> o.agent, currency |-> curs[i],
               totals |-> putTotals(SumWhere(txs, LAMBDA t : CurrencyOf(t, o) = curs[i]))]]
OfficeRecords(o, n) == OfficeLines(o, [i \in 1..Len(o.txs) |-> Compute(o.txs[i])], n)

\* Every transaction of the file with its currency.
Sold(offices) ==
    FlattenSeq([i \in 1..Len(offices) |-> [j \in 1..Len(offices[i].txs) |->
        [cur |-> CurrencyOf(offices[i].txs[j], offices[i]), t |-> Compute(offices[i].txs[j])]]])

FileTotals(id, sold, cur, n) ==
    [id |-> id, offices |-> n, currency |-> cur,
     totals |-> LET s == SelectSeq(sold, LAMBDA x : x.cur = cur)
                IN  putTotals(SumTotals([j \in 1..Len(s) |-> Totals(s[j].t)]))]

\* A file without a sale still has a total, of no currency.
FileLines(offices, sold) ==
    LET n(i) == SumOf(SubSeq(offices, 1, i - 1), LAMBDA o : Len(o.txs))
        seen == Appearing([i \in 1..Len(sold) |-> sold[i].cur])
        curs == IF seen = <<>> THEN <<"">> ELSE seen
    IN  <<[id |-> "BFH01"], [id |-> "BCH02"]>>
        \o FlattenSeq([i \in 1..Len(offices) |-> OfficeRecords(offices[i], n(i))])
        \o FlattenSeq([k \in 1..2 |-> [i \in 1..Len(curs) |->
              FileTotals(<<"BCT95", "BFT99">>[k], sold, curs[i], Len(offices))]])

\* Write: the records are numbered as they are written.
InSequence(recs) == [i \in 1..Len(recs) |-> [seq |-> i, rec |-> recs[i]]]
Write(offices) == InSequence(FileLines(offices, Sold(offices)))

-----------------------------------------------------------------------------
(* Reading the HOT. *)

Blank == [document |-> 0, code |-> "", currency |-> "", fare |-> 0, taxes |-> <<>>, total |-> 0, rate |-> 0,
          commission |-> 0, coupons |-> 0, related |-> FALSE, original |-> FALSE, payments |-> <<>>]

\* The transaction with one more of its records.
Filled(t, r) ==
    CASE r.id = "BKS24" -> [t EXCEPT !.document = r.document, !.code = r.code]
      [] r.id = "BKS30" ->
           [t EXCEPT !.fare = IF getAmount(r.fare) # 0 THEN getAmount(r.fare) ELSE @,
                     !.total = IF getAmount(r.total) # 0 THEN getAmount(r.total) ELSE @,
                     !.taxes = @ \o [i \in 1..Len(r.taxes) |->
                                       [code |-> r.taxes[i].code, amount |-> getAmount(r.taxes[i].amount)]],
                     !.currency = r.currency]
      [] r.id = "BKS39" -> [t EXCEPT !.rate = r.rate, !.commission = -getAmount(r.commission)]
      [] r.id = "BKS45" -> [t EXCEPT !.related = TRUE]
      [] r.id = "BKS46" -> [t EXCEPT !.original = TRUE]
      [] r.id = "BKI63" -> [t EXCEPT !.coupons = @ + 1]
      [] r.id = "BKP84" -> [t EXCEPT !.payments = Append(@, [type |-> r.type, amount |-> getAmount(r.amount),
                                                             remittance |-> getAmount(r.remittance)])]
      [] OTHER -> t

\* finishTx: the transaction joins its office, if it has the records it said.
finishTx(st) ==
    IF ~st.open THEN st
    ELSE [st EXCEPT !.open = FALSE, !.ok = @ /\ (st.expect # 0 => st.count = st.expect),
                    !.offices[Len(st.offices)].txs = Append(@, st.tx)]

OfTransaction == {"BKS24", "BKS30", "BKS39", "BKS45", "BKS46", "BKI63", "BAR64", "BAR65", "BKP84"}

NoAmount == putAmount(0, AmountField)

\* A record cut short is padded with blanks and read: what it may read as, by
\* where it was cut after its sequence number.  Without its qualifier it is a
\* fragment, which counts if it is a transaction's; an amount that is not whole
\* is none; a count loses its last digits.
Padded(r) ==
    {[id |-> IF r.id \in OfTransaction \cup {"BKT06"} THEN "BK" ELSE ""]}
    \cup CASE r.id = "BKT06" -> {[r EXCEPT !.trec = @ \div d] : d \in {10, 100, 1000}}
           [] r.id = "BKS24" -> {[r EXCEPT !.document = 0, !.code = ""], [r EXCEPT !.code = ""]}
           [] r.id = "BKS30" ->
                {[r EXCEPT !.fare = NoAmount, !.taxes = <<>>, !.total = NoAmount, !.currency = ""], [r EXCEPT !.currency = ""]}
                \cup {[r EXCEPT !.taxes = SubSeq(@, 1, i), !.total = NoAmount, !.currency = ""] : i \in 0..Len(r.taxes)}
           [] r.id = "BKS39" -> {[r EXCEPT !.rate = 0, !.commission = NoAmount], [r EXCEPT !.commission = NoAmount]}
           [] r.id = "BKP84" -> {[r EXCEPT !.type = "", !.amount = NoAmount, !.remittance = NoAmount],
                                 [r EXCEPT !.amount = NoAmount, !.remittance = NoAmount],
                                 [r EXCEPT !.remittance = NoAmount]}
           [] OTHER -> {r}

\* Parse, one record; a refusal stops it.
ParseStep(st, line, n) ==
    LET r == line.rec IN
    IF ~st.ok \/ line.seq # n THEN [st EXCEPT !.ok = FALSE]
    ELSE CASE r.id = "BOH03" -> [finishTx(st) EXCEPT !.offices =
                                   Append(@, [agent |-> r.agent, currency |-> r.currency, txs |-> <<>>])]
           [] r.id = "BKT06" -> IF st.offices = <<>> THEN [st EXCEPT !.ok = FALSE]
                                ELSE [finishTx(st) EXCEPT !.open = TRUE, !.tx = Blank,
                                                          !.expect = r.trec, !.count = 1]
           [] r.id \in OfTransaction ->
                IF st.open THEN [st EXCEPT !.tx = Filled(@, r), !.count = @ + 1]
                ELSE [st EXCEPT !.ok = r.id # "BKS24"]
           [] r.id = "BK" -> [st EXCEPT !.count = IF st.open THEN @ + 1 ELSE @]
           [] r.id \in {"BOT93", "BOT94", "BCT95", "BFT99"} -> finishTx(st)
           [] OTHER -> st

Parse(lines) ==
    LET empty == [ok |-> lines # <<>>, offices |-> <<>>, open |-> FALSE, tx |-> Blank, expect |-> 0, count |-> 0]
        st[i \in 0..Len(lines)] == IF i = 0 THEN empty ELSE ParseStep(st[i - 1], lines[i], i)
        end == finishTx(st[Len(lines)])
    IN  [ok |-> end.ok, offices |-> end.offices]

OfficeTotals(o) ==
    SumTotals([i \in 1..Len(o.txs) |->
        [gross |-> o.txs[i].total, remittance |-> SumOf(o.txs[i].payments, LAMBDA p : p.remittance),
         commission |-> -o.txs[i].commission, taxes |-> TaxesOf(o.txs[i])]])

-----------------------------------------------------------------------------
(* The RET: unsigned amounts, six taxes to a record, no fare of its own. *)

\* put keeps the digits it has room for from the front.
leading[v \in Nat] == IF v < AmountField THEN v ELSE leading[v \div 10]

retTransaction(t, trnn) ==
    LET groups == Chunks(t.taxes, 6)
        amount(v) == leading[Abs(v)]
    IN  <<[id |-> "2", num |-> trnn, document |-> t.document, code |-> t.code]>>
        \o [i \in 1..Len(groups) |->
              [id |-> "5", num |-> trnn, total |-> IF i = 1 THEN amount(t.total) ELSE 0,
               rate |-> IF i = 1 THEN t.rate ELSE 0, commission |-> IF i = 1 THEN amount(t.commission) ELSE 0,
               taxes |-> [j \in 1..Len(groups[i]) |-> amount(groups[i][j].amount)]]]
        \o [i \in 1..((t.coupons + 1) \div 2) |->
              [id |-> "6", num |-> trnn, coupons |-> Min({2, t.coupons - 2 * (i - 1)})]]
        \o <<[id |-> "7", num |-> trnn, original |-> t.original]>>
        \o [i \in 1..Len(t.payments) |-> [id |-> "8", num |-> trnn, amount |-> amount(t.payments[i].amount)]]
        \o <<[id |-> "9", num |-> trnn]>>

WriteRET(txs) == FlattenSeq([i \in 1..Len(txs) |-> retTransaction(txs[i], i)])

\* ParseRET: records are grouped by number; the fare is what the taxes leave.
ParseRET(lines) ==
    LET nums == Appearing([i \in 1..Len(lines) |-> lines[i].num])
        of(k, id) == SelectSeq(lines, LAMBDA r : r.num = nums[k] /\ r.id = id)
        last(s, f(_)) == FoldLeft(LAMBDA acc, r : IF f(r) # 0 THEN f(r) ELSE acc, 0, s)
        taxes(k) == FlattenSeq([i \in 1..Len(of(k, "5")) |-> of(k, "5")[i].taxes])
        total(k) == last(of(k, "5"), LAMBDA r : r.total)
    IN  [k \in 1..Len(nums) |->
          [document |-> of(k, "2")[1].document, total |-> total(k), taxes |-> taxes(k),
           fare |-> total(k) - SumOf(taxes(k), LAMBDA x : x),
           commission |-> last(of(k, "5"), LAMBDA r : r.commission),
           coupons |-> SumOf(of(k, "6"), LAMBDA r : r.coupons),
           paid |-> SumOf(of(k, "8"), LAMBDA r : r.amount)]]

=============================================================================
