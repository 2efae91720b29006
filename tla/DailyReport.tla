------------------------------ MODULE DailyReport ------------------------------
(***************************************************************************)
(* The daily stock report (app/services/report.py) and the stock history   *)
(* (app/repositories/stock.py), computed from the ledger that concurrent   *)
(* requests write.  A report is one SELECT: it sees the committed ledger   *)
(* of one moment, so it is a function of the state of StockLedger.         *)
(*                                                                         *)
(* created_at is the database's now(), which PostgreSQL fixes when the     *)
(* transaction STARTS; the row lock decides in which order the changes     *)
(* apply.  The two orders need not agree.                                  *)
(***************************************************************************)
EXTENDS StockLedger, FiniteSets, Functions

\* Some rows of a ledger: the movements [id -> movement].

\* ORDER BY created_at ASC, id ASC.
Before(rows, i, j) == \/ rows[i].created_at < rows[j].created_at
                      \/ rows[i].created_at = rows[j].created_at /\ i < j

Oldest(rows) == CHOOSE i \in DOMAIN rows : \A j \in DOMAIN rows \ {i} : Before(rows, i, j)
Newest(rows) == CHOOSE i \in DOMAIN rows : \A j \in DOMAIN rows \ {i} : Before(rows, j, i)

\* Mutant of InPeriod: a period that includes its end.
InPeriodClosed(rows, start, end) ==
  Restrict(rows, {i \in DOMAIN rows : rows[i].created_at >= start
                                      /\ rows[i].created_at <= end})

\* WHERE created_at >= period_start AND created_at < period_end.
InPeriod(rows, start, end) ==
  Restrict(rows, {i \in DOMAIN rows : rows[i].created_at >= start
                                      /\ rows[i].created_at < end})

Difference(m) == m.new_stock - m.previous_stock

StockIn(rows) ==
  SumFunction([i \in DOMAIN rows |-> IF rows[i].type = "IN" THEN rows[i].quantity ELSE 0])
StockOut(rows) ==
  SumFunction([i \in DOMAIN rows |-> IF rows[i].type = "OUT" THEN rows[i].quantity ELSE 0])

Adjusted(m) == IF m.type = "ADJUSTMENT" THEN Difference(m) ELSE 0

AdjustmentIn(rows) ==
  SumFunction([i \in DOMAIN rows |-> IF Adjusted(rows[i]) >= 0 THEN Adjusted(rows[i]) ELSE 0])

\* Mutant of AdjustmentOut: the difference keeps its sign.
AdjustmentOutSigned(rows) ==
  SumFunction([i \in DOMAIN rows |-> IF Adjusted(rows[i]) < 0 THEN Adjusted(rows[i]) ELSE 0])
AdjustmentOut(rows) ==
  SumFunction([i \in DOMAIN rows |-> IF Adjusted(rows[i]) < 0 THEN -Adjusted(rows[i]) ELSE 0])

\* Mutant of ReportLine: the opening stock is that of the newest row.
ReportLineOverwritten(rows) ==
  [opening_stock |-> rows[Newest(rows)].previous_stock,
   closing_stock |-> rows[Newest(rows)].new_stock,
   stock_in |-> StockIn(rows), stock_out |-> StockOut(rows),
   adjustment_in |-> AdjustmentIn(rows), adjustment_out |-> AdjustmentOut(rows),
   transaction_count |-> Cardinality(DOMAIN rows),
   net_change |-> rows[Newest(rows)].new_stock - rows[Newest(rows)].previous_stock]

\* One line of the report, for a product that moved in the period.
ReportLine(rows) ==
  [opening_stock |-> rows[Oldest(rows)].previous_stock,
   closing_stock |-> rows[Newest(rows)].new_stock,
   stock_in |-> StockIn(rows), stock_out |-> StockOut(rows),
   adjustment_in |-> AdjustmentIn(rows), adjustment_out |-> AdjustmentOut(rows),
   transaction_count |-> Cardinality(DOMAIN rows),
   net_change |-> rows[Newest(rows)].new_stock - rows[Oldest(rows)].previous_stock]

Moved(start, end) == {p \in Products : DOMAIN InPeriod(ledger[p], start, end) # {}}

\* Mutant of DailyStockReport: the movement filter looks at IN and OUT
\* movements and forgets adjustments.
DailyStockReportByType(movement_type, start, end) ==
  LET lines == [p \in Moved(start, end) |-> ReportLine(InPeriod(ledger[p], start, end))]
      kept == {p \in DOMAIN lines :
                 CASE movement_type = "IN" -> lines[p].stock_in > 0
                   [] movement_type = "OUT" -> lines[p].stock_out > 0
                   [] OTHER -> TRUE}
  IN [p \in kept |-> lines[p]]

\* The report of a period: one line per product the movement filter keeps.
DailyStockReport(movement_type, start, end) ==
  LET lines == [p \in Moved(start, end) |-> ReportLine(InPeriod(ledger[p], start, end))]
      kept == {p \in DOMAIN lines :
                 CASE movement_type = "IN" -> lines[p].stock_in + lines[p].adjustment_in > 0
                   [] movement_type = "OUT" -> lines[p].stock_out + lines[p].adjustment_out > 0
                   [] OTHER -> TRUE}
  IN [p \in kept |-> lines[p]]

\* ORDER BY created_at DESC, id DESC: the k-th row has k - 1 after it.
History(p) ==
  [k \in DOMAIN ledger[p] |->
     ledger[p][CHOOSE i \in DOMAIN ledger[p] :
                 Cardinality({j \in DOMAIN ledger[p] : Before(ledger[p], i, j)}) = k - 1]]

Times == 1 .. MaxRequests + 1
Periods == {t \in Times \X Times : t[1] < t[2]}
Always == DailyStockReport("ALL", 1, MaxRequests + 1)

(***************************************************************************)
(* Properties                                                              *)
(***************************************************************************)
Movement(line) == line.stock_in - line.stock_out + line.adjustment_in - line.adjustment_out

\* The totals of the report account for every kilogram: over all time, IN and
\* positive adjustments less OUT and negative ones are the balance of the
\* product, in whatever order the changes ran.
TotalsAccountForBalance ==
  \A p \in Products :
    IF p \in DOMAIN Always THEN Movement(Always[p]) = product[p].stock
                           ELSE product[p].stock = 0

\* Adjacent periods share no movement and miss none: what two of them report
\* is what the period spanning both reports.
PeriodsPartition ==
  \A t \in Periods : \A cut \in Times :
    t[1] < cut /\ cut < t[2] =>
      LET whole == DailyStockReport("ALL", t[1], t[2])
          first == DailyStockReport("ALL", t[1], cut)
          second == DailyStockReport("ALL", cut, t[2])
          Of(report, p) == IF p \in DOMAIN report
                           THEN <<Movement(report[p]), report[p].transaction_count>>
                           ELSE <<0, 0>>
      IN \A p \in Products :
           /\ Of(whole, p)[1] = Of(first, p)[1] + Of(second, p)[1]
           /\ Of(whole, p)[2] = Of(first, p)[2] + Of(second, p)[2]

\* A product whose changes ran in the order their transactions started.
RanInStartOrder(p) ==
  \A i, j \in DOMAIN ledger[p] :
    i < j => ledger[p][i].created_at < ledger[p][j].created_at

\* For such a product every period's net change is what moved in it, it closes
\* with the balance the next period opens with, and the history is newest first.
ReportsAgreeInStartOrder ==
  \A p \in {q \in Products : RanInStartOrder(q)} :
    /\ \A t \in Periods :
         LET report == DailyStockReport("ALL", t[1], t[2])
             after == DailyStockReport("ALL", t[2], MaxRequests + 1)
         IN p \in DOMAIN report =>
              /\ report[p].net_change = Movement(report[p])
              /\ p \in DOMAIN after =>
                   after[p].opening_stock = report[p].closing_stock
    /\ ledger[p] # <<>> => Head(History(p)).new_stock = product[p].stock

\* The IN and OUT views of a period hide a product only if nothing moved but
\* adjustments of zero, and show the lines of the whole report unchanged.
FiltersHideOnlyStillProducts ==
  \A t \in Periods :
    LET whole == DailyStockReport("ALL", t[1], t[2])
        inward == DailyStockReport("IN", t[1], t[2])
        outward == DailyStockReport("OUT", t[1], t[2])
    IN \A p \in DOMAIN whole :
         /\ p \in DOMAIN inward => inward[p] = whole[p]
         /\ p \in DOMAIN outward => outward[p] = whole[p]
         /\ p \in DOMAIN inward \cup DOMAIN outward
              <=> \E m \in {ledger[p][i] : i \in DOMAIN ledger[p]} :
                    /\ m.created_at >= t[1] /\ m.created_at < t[2]
                    /\ Difference(m) # 0

\* README: "The daily report calculates opening/closing stock, ... net change".
\* The closing stock of a report over all time is the balance in stock.
ClosingStockIsBalance ==
  \A p \in DOMAIN Always : Always[p].closing_stock = product[p].stock
=============================================================================
