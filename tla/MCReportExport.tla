----------------------------- MODULE MCReportExport -----------------------------
(* A small instance of ReportExport for TLC. *)
EXTENDS ReportExport, TLC

CONSTANTS a, b, c, d, x, ann, bob

\* A row from before the service, with three identifiers, and one of its own.
OldAndNew ==
  1 :> [product_code |-> a, qr_code |-> b, barcode |-> c, name |-> ann,
        minimum_stock |-> 0, current_stock |-> 1, deleted |-> FALSE]
  @@ 2 :> [product_code |-> d, qr_code |-> d, barcode |-> d, name |-> ann,
           minimum_stock |-> 1, current_stock |-> 1, deleted |-> FALSE]

Body(code, name, minimum) ==
  [product_code |-> code, name |-> name, minimum_stock |-> minimum]

New(code) == [product_code |-> code, name |-> bob, minimum_stock |-> 1, initial_stock |-> 1]
SomeCreations == {New(x)}
SomeBodies == {Body(x, Keep, Keep), Body(b, Keep, 1), Body(Keep, bob, Keep)}

Widths == "i" :> 1 @@ "W" :> 3 @@ " " :> 1
SmallPdf == [page |-> 75, least |-> 10, unbroken |-> 23, padding |-> 3]
SmallPng == [page |-> 100, least |-> 10, unbroken |-> 24, padding |-> 4]

Short == <<"i">>
Middle == <<"W", "i", "W">>
Long == <<"W", "W", "W", "W", "W", "i", "W", "W", "W">>
Spaced(s, t) == s \o <<" ">> \o t
Texts == {<<>>, Short, Middle, Long, Spaced(Short, Long), Spaced(Long, Long),
          Spaced(Middle, <<" ", "i">>), Spaced(Long, Spaced(Middle, Long))}
Columns3 == {<<[title |-> Middle, cell |-> t, weight |-> 15],
               [title |-> Spaced(Middle, Long), cell |-> u, weight |-> 28],
               [title |-> Short, cell |-> v, weight |-> 14]>> : t, u, v \in Texts}

SmallMaximum == [pdf |-> 2, png |-> 1, xlsx |-> 2]

\* The layout reads nothing of the catalogue: every table is laid out in one
\* report that no request has disturbed, and one table elsewhere.
Plain == CHOOSE columns \in Columns3 : \A i \in DOMAIN columns : columns[i].cell = Short
FewTables == IF begun + moves = 0 /\ report # NoReport /\ report.filter = "low"
             THEN Columns3 ELSE {Plain}

\* The steps of a report after its last statement are its own: nothing of the
\* catalogue has to happen between them.  No request of the catalogue reads the
\* stock: it moves at first or while a report is between its statements.  A PDF
\* is counted as a workbook is.
MCNext == /\ NextAmong(FewTables)
          /\ report.pc \in {"read", "rendered"} => UNCHANGED catalog
          /\ moves' # moves => begun = 0 \/ report.pc = "counted"
          /\ begun + moves > 0 /\ report' # NoReport => report'.kind # "pdf"

MCSpec == Init /\ [][MCNext]_vars

SecondPage == {[page |-> 2, page_size |-> 1]}

Symmetric == Permutations(Handlers)
=============================================================================
