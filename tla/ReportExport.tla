------------------------------ MODULE ReportExport ------------------------------
(***************************************************************************)
(* What reads the catalogue for a person: the product report, its preview  *)
(* and its export (app/services/report.py, app/api/reports.py), the paged  *)
(* product list and the dashboard (app/services/dashboard.py).             *)
(*                                                                         *)
(* Each of them counts in one statement and reads rows in a later one; the *)
(* requests of ProductCatalog commit in between.  An export is refused on  *)
(* the count, laid out from the rows, and answered only when its audit row *)
(* is stored.  The order of the rows is whatever the request asks for.     *)
(***************************************************************************)
EXTENDS ProductCatalog, ReportLayout

CONSTANTS
  MaxRows,    \* REPORT_MAX_EXPORT_ROWS and REPORT_PNG_MAX_ROWS: [format -> Nat]
  Asked,      \* the filters asked for
  Pages,      \* the pages of a preview asked for
  Documents   \* the columns a report may turn out to have

Formats == {"pdf", "png", "xlsx"}
Filters == {"all", "normal", "low", "out"}
RecentProducts == 5

ASSUME ReportAssumption == /\ MaxRows \in [Formats -> Nat]
                           /\ Asked \subseteq Filters
                           /\ Pages \subseteq [page : Nat \ {0}, page_size : Nat \ {0}]
                           /\ Documents \subseteq Tables

VARIABLE report  \* the request in progress

vars == <<catalog, report>>

NoReport == [pc |-> "idle"]
NoPage == "no page"

\* Mutant of StockStatus: at its minimum a product is not low yet.
StockStatusAbove(row) == CASE row.current_stock <= 0 -> "out"
                           [] row.current_stock > 0 /\ row.current_stock < row.minimum_stock -> "low"
                           [] OTHER -> "normal"

\* ReportService._stock_status, the column of the report.
StockStatus(row) == CASE row.current_stock <= 0 -> "out"
                      [] row.current_stock > 0 /\ row.current_stock <= row.minimum_stock -> "low"
                      [] OTHER -> "normal"

\* Mutant of Matches: low includes out of stock.
MatchesLoosely(row, filter) ==
  CASE filter = "normal" -> row.current_stock > row.minimum_stock
    [] filter = "low" -> row.current_stock <= row.minimum_stock
    [] filter = "out" -> row.current_stock <= 0
    [] OTHER -> TRUE

\* The conditions of ReportRepository on a row.
Matches(row, filter) ==
  CASE filter = "normal" -> row.current_stock > row.minimum_stock
    [] filter = "low" -> row.current_stock > 0 /\ row.current_stock <= row.minimum_stock
    [] filter = "out" -> row.current_stock <= 0
    [] OTHER -> TRUE

Matching(filter) == {p \in Live : Matches(rows[p], filter)}

StockOf(found) == SumFunction([p \in found |-> rows[p].current_stock])

\* Mutant of TotalStock: the sum of no rows is NULL, here -1.
TotalStockNull(found) == IF found = {} THEN -1 ELSE StockOf(found)

\* coalesce(sum(current_stock), 0)
TotalStock(found) == IF found = {} THEN 0 ELSE StockOf(found)

\* The aggregates, one statement: product_summary and the dashboard's.
Summary(filter) ==
  [total |-> Cardinality(Matching(filter)),
   stock |-> TotalStock(Matching(filter)),
   low |-> Cardinality({p \in Matching(filter) :
                          rows[p].current_stock <= rows[p].minimum_stock}),
   out |-> Cardinality({p \in Matching(filter) : rows[p].current_stock <= 0})]

InitReport == report = NoReport

Count(kind, filter, skip, limit) ==
  /\ report = NoReport
  /\ report' = [pc |-> "counted", kind |-> kind, filter |-> filter, skip |-> skip,
                limit |-> limit, summary |-> Summary(filter), disturbed |-> FALSE]
  /\ UNCHANGED catalog

\* Mutant of CountForExport: the count is not compared with the maximum.
CountForExportAny(filter, format) == Count(format, filter, 0, MaxRows[format] + 1)

\* all_product_report_items up to REPORT_TOO_LARGE.
CountForExport(filter, format) ==
  /\ Summary(filter).total <= MaxRows[format]
  /\ Count(format, filter, 0, MaxRows[format] + 1)

CountForPreview(filter, at) ==
  Count("preview", filter, (at.page - 1) * at.page_size, at.page_size)
CountForDashboard == Count("dashboard", "all", 0, RecentProducts)

\* The rows, a later statement: those after the first "skip", at most "limit".
Items ==
  LET found == Matching(report.filter)
      count == Min({report.limit, Max({0, Cardinality(found) - report.skip})})
  IN {[p \in chosen |-> [stock |-> rows[p].current_stock, status |-> StockStatus(rows[p])]] :
        chosen \in {chosen \in SUBSET found : Cardinality(chosen) = count}}

ReadItems ==
  /\ report.pc = "counted"
  /\ \E items \in Items :
       report' = [pc |-> "read", kind |-> report.kind, filter |-> report.filter,
                  skip |-> report.skip, limit |-> report.limit,
                  summary |-> report.summary, disturbed |-> report.disturbed,
                  items |-> items, document |-> <<>>, page |-> NoPage]
  /\ UNCHANGED catalog

\* A report without products has no cells to measure; the picture draws one
\* empty row.
Tabulated(columns) ==
  IF DOMAIN report.items = {}
  THEN [i \in DOMAIN columns |-> [columns[i] EXCEPT !.cell = <<>>]] ELSE columns

\* export_document, in a worker thread.
Render(columns) ==
  LET table == Tabulated(columns) IN
  /\ report.pc = "read" /\ report.kind \in Formats
  /\ report' = [pc |-> "rendered", kind |-> report.kind, filter |-> report.filter,
                skip |-> report.skip, limit |-> report.limit,
                summary |-> report.summary, disturbed |-> report.disturbed,
                items |-> report.items, document |-> table,
                page |-> CASE report.kind = "png" -> PngPage(table)
                           [] report.kind = "pdf" -> PdfColumnWidths(table)
                           [] OTHER -> NoPage]
  /\ UNCHANGED catalog

\* The answer; or a ValueError of the layout (REPORT_TOO_LARGE), an audit row
\* that cannot be stored (AUDIT_UNAVAILABLE), a connection lost.
EndReport ==
  /\ report # NoReport
  /\ report' = NoReport
  /\ UNCHANGED catalog

NextReport(documents) ==
  \/ \E filter \in Asked, format \in Formats : CountForExport(filter, format)
  \/ \E filter \in Asked, at \in Pages : CountForPreview(filter, at)
  \/ CountForDashboard
  \/ ReadItems
  \/ \E columns \in documents : Render(columns)
  \/ EndReport

\* A request of the catalogue commits while the report is between its statements.
Disturb == report' = IF report.pc = "counted" /\ rows' # rows
                     THEN [report EXCEPT !.disturbed = TRUE] ELSE report

Init == InitCatalog /\ InitReport
NextAmong(documents) == \/ NextCatalog /\ Disturb
                        \/ NextReport(documents)

Next == NextAmong(Documents)

Spec == Init /\ [][Next]_vars

(***************************************************************************)
(* Properties                                                              *)
(***************************************************************************)
HasItems == report.pc \in {"read", "rendered"}
Exporting == report.pc \in {"counted", "read", "rendered"} /\ report.kind \in Formats
Showing(status) == {p \in DOMAIN report.items : report.items[p].status = status}
Listed == DOMAIN report.items

ReportTypeOK ==
  \/ report = NoReport
  \/ /\ report.pc \in {"counted", "read", "rendered"}
     /\ report.kind \in Formats \cup {"preview", "dashboard"}
     /\ report.filter \in Filters /\ report.disturbed \in BOOLEAN
     /\ report.summary \in [total : Nat, stock : Nat, low : Nat, out : Nat]

\* "PDF and XLSX exports are bounded by REPORT_MAX_EXPORT_ROWS; PNG uses the lower
\* REPORT_PNG_MAX_ROWS limit to avoid unbounded bitmap memory" (README.md).  The
\* count is compared with the maximum and the rows are not, of which one more is
\* read: a product that appears between the two statements goes over the bound.
ExportsKeepTheirBound ==
  HasItems /\ Exporting => Cardinality(Listed) <= MaxRows[report.kind]

\* How far it goes: by one row, however many appear, and only then.
ExportsStayNearTheirBound ==
  HasItems /\ Exporting =>
    /\ Cardinality(Listed) <= MaxRows[report.kind] + 1
    /\ Cardinality(Listed) > MaxRows[report.kind] => report.disturbed

\* The totals printed on a report are those of its rows, as long as no commit
\* came between the statements: the stock adds up, the database's notion of low
\* and out of stock and the service's are the same, and a preview's page is as
\* long as its total promises.
TotalsAreTheRows ==
  HasItems /\ ~report.disturbed =>
    LET listed == Cardinality(Listed)
    IN /\ listed = Min({report.limit, Max({0, report.summary.total - report.skip})})
       /\ listed = report.summary.total =>
            /\ SumFunction([p \in Listed |-> report.items[p].stock]) = report.summary.stock
            /\ Cardinality(Showing("out")) = report.summary.out
            /\ Cardinality(Showing("low") \cup Showing("out")) = report.summary.low

\* "Low status excludes out-of-stock products": every row of a filtered report
\* shows the status it was filtered by, and the three filters share out the
\* products without gap or overlap.
FiltersShareOutTheProducts ==
  /\ HasItems /\ report.filter # "all" => Listed = Showing(report.filter)
  /\ \A p \in Live : Cardinality({f \in Filters \ {"all"} : Matches(rows[p], f)}) = 1

Drawn(kind) == report.pc = "rendered" /\ report.kind = kind

\* test_png_export_uses_dynamic_300_dpi_canvas_with_a4_max_width: a picture is
\* never wider than A4 at 300 dpi, and every column keeps room for its widest
\* character, although rounded widths add up to more and are cut again: a line
\* of one character would leave its column, and without any room the wrapping
\* would not end.
PicturesFitThePage ==
  Drawn("png") =>
    /\ Total(report.page.widths) <= Png.page
    /\ \A i \in DOMAIN report.page.widths, c \in DOMAIN CharWidth :
         report.page.widths[i] - Png.padding >= CharWidth[c]

\* test_pdf_widths_balance_short_content_and_expand_for_long_values: a PDF's
\* table takes between 82 and 100 percent of the page, and no column is
\* narrower than its minimum.
PdfTablesFillThePage ==
  Drawn("pdf") =>
    LET total == Total(report.page.parts)
        least == MinimumWidths(report.document, Pdf)
    IN /\ 41 * Pdf.page * report.page.of <= 50 * total
       /\ total <= Pdf.page * report.page.of
       /\ \A i \in DOMAIN least : least[i] * report.page.of <= report.page.parts[i]

\* The lines of a text fit their column, hold every letter once and in order,
\* and break no word that fits the column.
Kept(text, lines, room) ==
  /\ \A k \in DOMAIN lines : Width(text, lines[k]) <= room
  /\ \A k \in DOMAIN lines : k # 1 => lines[k - 1][2] < lines[k][1]
  /\ \A letter \in Letters(text) :
       \E k \in DOMAIN lines : lines[k][1] <= letter /\ letter <= lines[k][2]
  /\ \A word \in Words(text) :
       Width(text, word) <= room =>
         \E k \in DOMAIN lines : lines[k][1] <= word[1] /\ word[2] <= lines[k][2]

\* test_png_text_wrap_preserves_long_values: so do the lines of a table.
CellsKeepTheirText ==
  Drawn("png") =>
    \A i \in DOMAIN report.document :
      LET room == report.page.widths[i] - Png.padding
      IN /\ Kept(report.document[i].title, report.page.header[i], room)
         /\ Kept(report.document[i].cell, report.page.cells[i], room)
=============================================================================
