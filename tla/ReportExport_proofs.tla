-------------------------- MODULE ReportExport_proofs --------------------------
(***************************************************************************)
(* Proofs about ReportExport, for any catalogue, maximum, filter and page. *)
(*                                                                         *)
(* Reports: ReportInv ties what a report in progress counted and read to   *)
(* the rows.  Layout: DrawnInv says that a rendered page is the layout of  *)
(* a table; lemmas about the operators of ReportLayout, for every table    *)
(* and text, do the rest: columns fit the page, lines fit their column and *)
(* keep the text.                                                          *)
(***************************************************************************)
EXTENDS ReportExport, ProductCatalog_proofs, SequenceTheorems, SumTheorems

\* The lesser of two numbers.
LEMMA MinOfTwo ==
  ASSUME NEW x \in Int, NEW y \in Int
  PROVE  Min({x, y}) = IF x <= y THEN x ELSE y
BY DEF Min

\* The greater of two numbers.
LEMMA MaxOfTwo ==
  ASSUME NEW x \in Int, NEW y \in Int
  PROVE  Max({x, y}) = IF x <= y THEN y ELSE x
BY DEF Max

(***************************************************************************)
(* The inductive invariant.  A report in progress has the fields of its    *)
(* step; as long as no commit has disturbed it, what it counted is what    *)
(* the rows still say; and the rows it read are rows its filter matches,   *)
(* no more of them than it asked for.                                      *)
(***************************************************************************)
Kinds == Formats \cup {"preview", "dashboard"}
Totals == [total : Nat, stock : Nat, low : Nat, out : Nat]

Bounded(r) ==
  r.kind \in Formats => /\ r.skip = 0 /\ r.limit = MaxRows[r.kind] + 1
                        /\ r.summary.total <= MaxRows[r.kind]

Fields(r) ==
  /\ r.kind \in Kinds /\ r.filter \in Filters /\ r.skip \in Nat /\ r.limit \in Nat
  /\ r.summary \in Totals /\ r.disturbed \in BOOLEAN
  /\ Bounded(r)

IsCounted(r) ==
  /\ r = [pc |-> "counted", kind |-> r.kind, filter |-> r.filter, skip |-> r.skip,
          limit |-> r.limit, summary |-> r.summary, disturbed |-> r.disturbed]
  /\ Fields(r)

Same(r, s) == /\ r.kind = s.kind /\ r.filter = s.filter /\ r.skip = s.skip
              /\ r.limit = s.limit /\ r.summary = s.summary /\ r.disturbed = s.disturbed

\* An item shows a row its filter matches.
Shows(item, filter) ==
  \E row \in Row : /\ Matches(row, filter)
                   /\ item = [stock |-> row.current_stock, status |-> StockStatus(row)]

CountIsCurrent ==
  report.pc = "counted" /\ ~report.disturbed => report.summary = Summary(report.filter)

ItemsWereRows ==
  HasItems => /\ Fields(report)
              /\ IsFiniteSet(Listed)
              /\ Cardinality(Listed) <= report.limit
              /\ \A p \in Listed : Shows(report.items[p], report.filter)

ReportShape == \/ report = NoReport
               \/ report.pc = "counted" /\ IsCounted(report)
               \/ HasItems

RowsAreFinite == IsFiniteSet(DOMAIN rows)

ReportInv == /\ IInv
             /\ RowsAreFinite
             /\ ReportShape
             /\ CountIsCurrent
             /\ ItemsWereRows
             /\ TotalsAreTheRows

(***************************************************************************)
(* What is counted in a state of the catalogue.                            *)
(***************************************************************************)
\* The sum over the stocks of some rows.
LEMMA StockOfTyped ==
  ASSUME NEW found, IsFiniteSet(found), NEW stock, \A p \in found : stock[p] \in Nat
  PROVE  SumFunction([p \in found |-> stock[p]]) \in Nat
<1> DEFINE f == [p \in found |-> stock[p]]
<1>1. DOMAIN f = found /\ \A p \in found : f[p] \in Nat
  OBVIOUS
<1> HIDE DEF f
<1>2. SumFunctionOnSet(f, found) \in Nat
  BY <1>1, SumInNat
<1>3. QED BY <1>1, <1>2 DEF SumFunction, f

\* A sum over no rows is zero.
LEMMA SumOverNothing ==
  ASSUME NEW f, DOMAIN f = {}
  PROVE  SumFunction(f) = 0
BY SumOfNone DEF SumFunction

\* The rows a filter matches are finitely many.
LEMMA MatchingIsFinite ==
  ASSUME RowsAreFinite, NEW filter
  PROVE  /\ Matching(filter) \subseteq DOMAIN rows
         /\ IsFiniteSet(Matching(filter))
<1>1. Matching(filter) \subseteq DOMAIN rows
  BY DEF Matching, Live
<1>2. QED BY <1>1, FS_Subset DEF RowsAreFinite

\* A committed row and its two levels.
LEMMA RowTyped ==
  ASSUME TypeOK, CatalogAssumption, NEW p \in DOMAIN rows
  PROVE  /\ rows[p] \in Row
         /\ rows[p].current_stock \in Nat /\ rows[p].minimum_stock \in Nat
<1>1. rows[p] \in Row
  BY DEF TypeOK
<1>2. QED BY <1>1 DEF Row, Levels, CatalogAssumption

\* The totals of a filter are natural numbers.
LEMMA SummaryTyped ==
  ASSUME TypeOK, RowsAreFinite, NEW filter
  PROVE  Summary(filter) \in Totals
<1> DEFINE found == Matching(filter)
           low == {p \in found : rows[p].current_stock <= rows[p].minimum_stock}
           out == {p \in found : rows[p].current_stock <= 0}
<1>1. found \subseteq DOMAIN rows /\ IsFiniteSet(found)
  BY MatchingIsFinite
<1>2. Cardinality(found) \in Nat
  BY <1>1, FS_CardinalityType
<1>3. Cardinality(low) \in Nat /\ Cardinality(out) \in Nat
  <2>1. IsFiniteSet(low) /\ IsFiniteSet(out)
    <3>1. low \in SUBSET found /\ out \in SUBSET found
      OBVIOUS
    <3> HIDE DEF low, out, found
    <3>2. QED BY <1>1, <3>1, FS_Subset
  <2> HIDE DEF low, out
  <2>2. QED BY <2>1, FS_CardinalityType
<1>4. TotalStock(found) \in Nat
  <2> HIDE DEF found
  <2>1. \A p \in found : rows[p].current_stock \in Nat
    BY <1>1, RowTyped, CatalogAssumption
  <2> DEFINE stock == [p \in found |-> rows[p].current_stock]
  <2>2. \A p \in found : stock[p] \in Nat
    BY <2>1
  <2>3. [p \in found |-> stock[p]] = stock
    OBVIOUS
  <2>4. SumFunction(stock) \in Nat
    <3> HIDE DEF stock
    <3>1. QED BY <1>1, <2>2, <2>3, StockOfTyped
  <2>5. StockOf(found) \in Nat
    BY <2>4 DEF StockOf
  <2>6. QED BY <2>5 DEF TotalStock
<1>5. Summary(filter) = [total |-> Cardinality(found), stock |-> TotalStock(found),
                         low |-> Cardinality(low), out |-> Cardinality(out)]
  BY DEF Summary
<1> HIDE DEF found, low, out
<1>6. QED BY <1>2, <1>3, <1>4, <1>5 DEF Totals

(***************************************************************************)
(* What is read.                                                           *)
(***************************************************************************)
\* As many of the counted products as asked for, all of them if none is left
\* out, and each as its row is.
LEMMA ItemsRead ==
  ASSUME TypeOK, RowsAreFinite, IsCounted(report), NEW items \in Items
  PROVE  LET found == Matching(report.filter)
         IN /\ DOMAIN items \subseteq found
            /\ IsFiniteSet(DOMAIN items)
            /\ Cardinality(DOMAIN items)
                 = Min({report.limit, Max({0, Cardinality(found) - report.skip})})
            /\ Cardinality(DOMAIN items) <= report.limit
            /\ \A p \in DOMAIN items :
                 items[p] = [stock |-> rows[p].current_stock, status |-> StockStatus(rows[p])]
<1> DEFINE found == Matching(report.filter)
           count == Min({report.limit, Max({0, Cardinality(found) - report.skip})})
<1>1. PICK chosen \in SUBSET found :
        /\ Cardinality(chosen) = count
        /\ items = [p \in chosen |-> [stock |-> rows[p].current_stock,
                                      status |-> StockStatus(rows[p])]]
  BY DEF Items
<1>2. IsFiniteSet(found)
  BY MatchingIsFinite
<1>3. IsFiniteSet(chosen)
  <2> HIDE DEF found, count
  <2>1. QED BY <1>2, FS_Subset
<1>4. count <= report.limit
  <2>1. Cardinality(found) \in Nat
    <3> HIDE DEF found
    <3>1. QED BY <1>2, FS_CardinalityType
  <2>2. report.skip \in Nat /\ report.limit \in Nat
    BY DEF IsCounted, Fields
  <2>3. PICK most \in Int : most = Max({0, Cardinality(found) - report.skip})
    <3> HIDE DEF found
    <3>1. Cardinality(found) - report.skip \in Int
      BY <2>1, <2>2
    <3>2. QED BY <3>1, MaxOfTwo
  <2>4. Min({report.limit, most}) <= report.limit
    BY <2>2, MinOfTwo
  <2> HIDE DEF found
  <2>5. QED BY <2>3, <2>4
<1>5. DOMAIN items = chosen
  BY <1>1
<1> HIDE DEF count
<1>6. QED BY <1>1, <1>3, <1>4, <1>5 DEF count

\* With every counted product among the items, the totals are theirs.
LEMMA AllOfThemAddUp ==
  ASSUME TypeOK, RowsAreFinite, CatalogAssumption, NEW filter, NEW items,
         DOMAIN items = Matching(filter),
         \A p \in DOMAIN items :
           items[p] = [stock |-> rows[p].current_stock, status |-> StockStatus(rows[p])]
  PROVE  LET Being(status) == {p \in DOMAIN items : items[p].status = status}
         IN /\ SumFunction([p \in DOMAIN items |-> items[p].stock]) = Summary(filter).stock
            /\ Cardinality(Being("out")) = Summary(filter).out
            /\ Cardinality(Being("low") \cup Being("out")) = Summary(filter).low
<1> DEFINE found == Matching(filter)
           Being(status) == {p \in DOMAIN items : items[p].status = status}
<1>1. \A p \in found : /\ items[p].stock = rows[p].current_stock
                       /\ items[p].status = StockStatus(rows[p])
                       /\ rows[p].current_stock \in Nat /\ rows[p].minimum_stock \in Nat
  BY RowTyped, MatchingIsFinite
<1>2. Being("out") = {p \in found : rows[p].current_stock <= 0}
  BY <1>1 DEF StockStatus
<1>3. Being("low") \cup Being("out")
        = {p \in found : rows[p].current_stock <= rows[p].minimum_stock}
  BY <1>1 DEF StockStatus
<1>4. [p \in DOMAIN items |-> items[p].stock] = [p \in found |-> rows[p].current_stock]
  BY <1>1
<1>5. SumFunction([p \in DOMAIN items |-> items[p].stock]) = TotalStock(found)
  <2>1. CASE found = {}
    <3>1. SumFunction([p \in DOMAIN items |-> items[p].stock]) = 0
      BY <2>1, SumOverNothing
    <3>2. QED BY <2>1, <3>1 DEF TotalStock
  <2>2. CASE found # {}
    <3> HIDE DEF found
    <3>1. QED BY <2>2, <1>4 DEF TotalStock, StockOf
  <2>3. QED BY <2>1, <2>2
<1>6. /\ Summary(filter).stock = TotalStock(found)
      /\ Summary(filter).low = Cardinality({p \in found : rows[p].current_stock
                                                            <= rows[p].minimum_stock})
      /\ Summary(filter).out = Cardinality({p \in found : rows[p].current_stock <= 0})
  BY DEF Summary
<1> HIDE DEF found
<1>7. QED BY <1>2, <1>3, <1>5, <1>6, Zenon

\* A report that was not disturbed prints the totals of the rows it reads.
LEMMA ReadKeepsTotals ==
  ASSUME TypeOK, RowsAreFinite, CatalogAssumption, IsCounted(report),
         CountIsCurrent, report.pc = "counted", NEW items \in Items,
         ~report.disturbed
  PROVE  LET listed == Cardinality(DOMAIN items)
             Being(status) == {p \in DOMAIN items : items[p].status = status}
         IN /\ listed = Min({report.limit, Max({0, report.summary.total - report.skip})})
            /\ listed = report.summary.total =>
                 /\ SumFunction([p \in DOMAIN items |-> items[p].stock])
                      = report.summary.stock
                 /\ Cardinality(Being("out")) = report.summary.out
                 /\ Cardinality(Being("low") \cup Being("out")) = report.summary.low
<1> DEFINE found == Matching(report.filter)
<1>1. report.summary = Summary(report.filter)
  BY DEF CountIsCurrent
<1>2. report.summary.total = Cardinality(found)
  BY <1>1 DEF Summary
<1>3. /\ DOMAIN items \subseteq found
      /\ Cardinality(DOMAIN items)
           = Min({report.limit, Max({0, Cardinality(found) - report.skip})})
      /\ \A p \in DOMAIN items :
           items[p] = [stock |-> rows[p].current_stock, status |-> StockStatus(rows[p])]
  BY ItemsRead
<1>4. ASSUME Cardinality(DOMAIN items) = Cardinality(found)
      PROVE  DOMAIN items = found
  <2>1. IsFiniteSet(found)
    BY MatchingIsFinite
  <2> HIDE DEF found
  <2>2. QED BY <1>3, <1>4, <2>1, FS_Subset
<1> HIDE DEF found
<1>5. ASSUME DOMAIN items = found
      PROVE  LET Being(status) == {p \in DOMAIN items : items[p].status = status}
             IN /\ SumFunction([p \in DOMAIN items |-> items[p].stock])
                     = Summary(report.filter).stock
                /\ Cardinality(Being("out")) = Summary(report.filter).out
                /\ Cardinality(Being("low") \cup Being("out")) = Summary(report.filter).low
  BY <1>3, <1>5, AllOfThemAddUp DEF found
<1>6. QED BY <1>1, <1>2, <1>3, <1>4, <1>5

(***************************************************************************)
(* The steps of a report.  The catalogue stands still in each of them.     *)
(***************************************************************************)
LEMMA SummaryStands ==
  ASSUME UNCHANGED catalog, NEW filter
  PROVE  Summary(filter)' = Summary(filter)
BY DEF catalog, Summary, TotalStock, StockOf, Matching, Live

\* Counting starts a report with the totals of this moment.
LEMMA CountKeeps ==
  ASSUME ReportInv, NEW kind \in Kinds, NEW filter \in Filters, NEW skip \in Nat,
         NEW limit \in Nat, Count(kind, filter, skip, limit),
         kind \in Formats => /\ skip = 0 /\ limit = MaxRows[kind] + 1
                             /\ Summary(filter).total <= MaxRows[kind]
  PROVE  (ReportShape /\ CountIsCurrent /\ ItemsWereRows /\ TotalsAreTheRows)'
<1>1. PICK summary : summary = Summary(filter)
  OBVIOUS
<1>2. summary \in Totals
  BY <1>1, SummaryTyped DEF ReportInv, IInv
<1>3. report' = [pc |-> "counted", kind |-> kind, filter |-> filter, skip |-> skip,
                 limit |-> limit, summary |-> summary, disturbed |-> FALSE]
  BY <1>1 DEF Count
<1>4. IsCounted(report)' /\ report'.pc = "counted"
  BY <1>1, <1>2, <1>3 DEF IsCounted, Fields, Bounded
<1>5. CountIsCurrent'
  <2>1. Summary(filter)' = summary
    BY <1>1, SummaryStands DEF Count
  <2>2. report'.summary = summary /\ report'.filter = filter
    BY <1>3
  <2>3. QED BY <2>1, <2>2 DEF CountIsCurrent
<1>6. QED BY <1>4, <1>5 DEF ReportShape, ItemsWereRows, TotalsAreTheRows, HasItems

\* The same for each of the three readers that count.
LEMMA CountStepKeeps ==
  ASSUME ReportInv, ReportAssumption,
         \/ \E filter \in Asked, format \in Formats : CountForExport(filter, format)
         \/ \E filter \in Asked, at \in Pages : CountForPreview(filter, at)
         \/ CountForDashboard
  PROVE  (ReportShape /\ CountIsCurrent /\ ItemsWereRows /\ TotalsAreTheRows)'
<1>1. ASSUME NEW filter \in Asked, NEW format \in Formats, CountForExport(filter, format)
      PROVE  (ReportShape /\ CountIsCurrent /\ ItemsWereRows /\ TotalsAreTheRows)'
  <2>1. MaxRows[format] + 1 \in Nat /\ filter \in Filters /\ format \in Kinds
    BY DEF ReportAssumption, Kinds
  <2>2. /\ Count(format, filter, 0, MaxRows[format] + 1)
        /\ Summary(filter).total <= MaxRows[format]
    BY <1>1 DEF CountForExport
  <2>3. QED BY <2>1, <2>2, CountKeeps
<1>2. ASSUME NEW filter \in Asked, NEW at \in Pages, CountForPreview(filter, at)
      PROVE  (ReportShape /\ CountIsCurrent /\ ItemsWereRows /\ TotalsAreTheRows)'
  <2>1. filter \in Filters /\ "preview" \in Kinds /\ "preview" \notin Formats
    BY DEF ReportAssumption, Kinds, Formats
  <2>2. at.page - 1 \in Nat /\ at.page_size \in Nat
    BY DEF ReportAssumption
  <2>3. (at.page - 1) * at.page_size \in Nat
    BY <2>2
  <2>4. Count("preview", filter, (at.page - 1) * at.page_size, at.page_size)
    BY <1>2 DEF CountForPreview
  <2>5. QED BY <2>1, <2>2, <2>3, <2>4, CountKeeps
<1>3. ASSUME CountForDashboard
      PROVE  (ReportShape /\ CountIsCurrent /\ ItemsWereRows /\ TotalsAreTheRows)'
  <2>1. "all" \in Filters /\ "dashboard" \in Kinds /\ "dashboard" \notin Formats
    BY DEF Filters, Kinds, Formats
  <2>2. Count("dashboard", "all", 0, RecentProducts) /\ RecentProducts \in Nat
    BY <1>3 DEF CountForDashboard, RecentProducts
  <2>3. QED BY <2>1, <2>2, CountKeeps
<1>4. QED BY <1>1, <1>2, <1>3

\* The rows that are read add up to the totals, if nothing came in between.
LEMMA ReadItemsKeeps ==
  ASSUME ReportInv, CatalogAssumption, ReadItems
  PROVE  (ReportShape /\ CountIsCurrent /\ ItemsWereRows /\ TotalsAreTheRows)'
<1>1. report.pc = "counted"
  BY DEF ReadItems
<1>2. IsCounted(report)
  BY <1>1 DEF ReportInv, ReportShape, NoReport, HasItems
<1>3. PICK items \in Items :
        report' = [pc |-> "read", kind |-> report.kind, filter |-> report.filter,
                   skip |-> report.skip, limit |-> report.limit,
                   summary |-> report.summary, disturbed |-> report.disturbed,
                   items |-> items, document |-> <<>>, page |-> NoPage]
  BY DEF ReadItems
<1>4. /\ TypeOK /\ RowsAreFinite /\ CountIsCurrent
  BY DEF ReportInv, IInv
<1>5. /\ report'.pc = "read" /\ report'.items = items
      /\ report'.kind = report.kind /\ report'.filter = report.filter
      /\ report'.skip = report.skip /\ report'.limit = report.limit
      /\ report'.summary = report.summary /\ report'.disturbed = report.disturbed
  BY <1>3
<1>6. Fields(report)'
  BY <1>2, <1>5 DEF IsCounted, Fields, Bounded
<1>7. /\ DOMAIN items \subseteq Matching(report.filter)
      /\ IsFiniteSet(DOMAIN items) /\ Cardinality(DOMAIN items) <= report.limit
      /\ \A p \in DOMAIN items :
           items[p] = [stock |-> rows[p].current_stock, status |-> StockStatus(rows[p])]
  BY <1>2, <1>4, ItemsRead
<1>8. \A p \in DOMAIN items : Shows(items[p], report.filter)
  <2>1. ASSUME NEW p \in DOMAIN items
        PROVE  Shows(items[p], report.filter)
    <3>1. p \in DOMAIN rows /\ Matches(rows[p], report.filter)
      BY <1>7 DEF Matching, Live
    <3>2. rows[p] \in Row
      BY <1>4, <3>1, RowTyped
    <3>3. QED BY <1>7, <3>1, <3>2 DEF Shows
  <2>2. QED BY <2>1
<1>9. ItemsWereRows'
  BY <1>5, <1>6, <1>7, <1>8 DEF ItemsWereRows, Listed
<1>10. TotalsAreTheRows'
  <2>1. SUFFICES ASSUME ~report.disturbed PROVE TotalsAreTheRows'
    BY <1>5 DEF TotalsAreTheRows
  <2>2. LET listed == Cardinality(DOMAIN items)
            Being(status) == {p \in DOMAIN items : items[p].status = status}
        IN /\ listed = Min({report.limit, Max({0, report.summary.total - report.skip})})
           /\ listed = report.summary.total =>
                /\ SumFunction([p \in DOMAIN items |-> items[p].stock])
                     = report.summary.stock
                /\ Cardinality(Being("out")) = report.summary.out
                /\ Cardinality(Being("low") \cup Being("out")) = report.summary.low
    BY <1>1, <1>2, <1>4, <2>1, ReadKeepsTotals
  <2>3. QED BY <1>5, <2>2 DEF TotalsAreTheRows, Listed, Showing
<1>11. QED BY <1>5, <1>9, <1>10 DEF ReportShape, HasItems, CountIsCurrent

\* Rendering changes neither totals nor rows.
LEMMA RenderKeeps ==
  ASSUME ReportInv, NEW columns, Render(columns)
  PROVE  (ReportShape /\ CountIsCurrent /\ ItemsWereRows /\ TotalsAreTheRows)'
<1>1. /\ report'.pc = "rendered" /\ report'.items = report.items
      /\ report'.kind = report.kind /\ report'.filter = report.filter
      /\ report'.skip = report.skip /\ report'.limit = report.limit
      /\ report'.summary = report.summary /\ report'.disturbed = report.disturbed
  BY DEF Render
<1>2. HasItems /\ HasItems'
  BY <1>1 DEF Render, HasItems
<1>3. ItemsWereRows'
  BY <1>1, <1>2 DEF ReportInv, ItemsWereRows, Fields, Bounded, Listed
<1>4. TotalsAreTheRows'
  BY <1>1, <1>2 DEF ReportInv, TotalsAreTheRows, Listed, Showing
<1>5. QED BY <1>1, <1>2, <1>3, <1>4 DEF ReportShape, CountIsCurrent

\* After its answer nothing is left of a report.
LEMMA EndKeeps ==
  ASSUME EndReport
  PROVE  (ReportShape /\ CountIsCurrent /\ ItemsWereRows /\ TotalsAreTheRows)'
<1>1. report' = NoReport /\ report'.pc = "idle"
  BY DEF EndReport, NoReport
<1>2. QED
  BY <1>1 DEF ReportShape, CountIsCurrent, ItemsWereRows, TotalsAreTheRows, HasItems

(***************************************************************************)
(* The steps of the catalogue.  The rows stay finitely many, and one that  *)
(* comes between the statements of a report leaves its mark.               *)
(***************************************************************************)
LEMMA RowsStayFinite ==
  ASSUME RowsAreFinite, [NextCatalog]_catalog
  PROVE  RowsAreFinite'
<1>1. CASE UNCHANGED rows
  BY <1>1 DEF RowsAreFinite
<1>2. ASSUME NEW p, NEW row, rows' = With(rows, p, row)
      PROVE  RowsAreFinite'
  <2>1. DOMAIN rows' = DOMAIN rows \cup {p}
    BY <1>2 DEF With
  <2>2. QED BY <2>1, FS_AddElement DEF RowsAreFinite
<1>3. ASSUME NEW p, NEW row, rows' = [rows EXCEPT ![p] = row]
      PROVE  RowsAreFinite'
  BY <1>3 DEF RowsAreFinite
<1>4. ASSUME NEW h, NEW deleted, SetDeleted(h, deleted)
      PROVE  RowsAreFinite'
  BY <1>4 DEF SetDeleted, RowsAreFinite
<1>5. ASSUME NEW h \in Handlers, Handle(h)
      PROVE  RowsAreFinite'
  <2>1. CASE \E body \in Creations : BeginCreate(h, body)
    BY <1>1, <2>1 DEF BeginCreate
  <2>2. CASE \E sample \in Samples : SeedSample(h, sample)
    BY <1>1, <2>2 DEF SeedSample
  <2>3. CASE \E p \in Products, body \in Bodies : ReadProduct(h, p, body)
    BY <1>1, <2>3 DEF ReadProduct
  <2>4. CASE \E p \in Products : ReadForDelete(h, p) \/ BeginRestore(h, p)
    BY <1>1, <2>4 DEF ReadForDelete, BeginRestore
  <2>5. CASE CheckNewCode(h)
    BY <1>1, <2>5 DEF CheckNewCode
  <2>6. CASE CommitCreate(h)
    <3>1. PICK p \in Products \ DOMAIN rows :
            \/ UNCHANGED rows
            \/ rows' = With(rows, p, NewRow(work[h].body))
      BY <2>6 DEF CommitCreate
    <3>2. QED BY <1>1, <1>2, <3>1
  <2>7. CASE RefuseDuplicate(h)
    BY <1>1, <2>7 DEF RefuseDuplicate
  <2>8. CASE CheckCode(h)
    BY <1>1, <2>8 DEF CheckCode
  <2>9. CASE CommitUpdate(h)
    <3>1. \/ UNCHANGED rows
          \/ \E p, row : rows' = [rows EXCEPT ![p] = row]
      BY <2>9 DEF CommitUpdate
    <3>2. QED BY <1>1, <1>3, <3>1
  <2>10. CASE CommitDelete(h) \/ CommitRestore(h)
    BY <1>1, <1>4, <2>10 DEF CommitDelete, CommitRestore
  <2>11. CASE Rollback(h)
    BY <1>1, <2>11 DEF Rollback
  <2>12. QED
    BY <1>5, <2>1, <2>2, <2>3, <2>4, <2>5, <2>6, <2>7, <2>8, <2>9, <2>10, <2>11 DEF Handle
<1>6. ASSUME NEW p \in DOMAIN rows, NEW level \in Levels, MoveStock(p, level)
      PROVE  RowsAreFinite'
  BY <1>6 DEF MoveStock, RowsAreFinite
<1>7. QED BY <1>1, <1>5, <1>6 DEF NextCatalog, catalog

\* A commit of the catalogue marks the report it comes in the middle of.
LEMMA DisturbKeeps ==
  ASSUME ReportInv, Disturb
  PROVE  (ReportShape /\ CountIsCurrent /\ ItemsWereRows /\ TotalsAreTheRows)'
<1>1. CASE report.pc = "counted" /\ rows' # rows
  <2>1. report' = [report EXCEPT !.disturbed = TRUE]
    BY <1>1 DEF Disturb
  <2>2. IsCounted(report)
    BY <1>1 DEF ReportInv, ReportShape, NoReport, HasItems
  <2>3. /\ report'.pc = "counted" /\ report'.disturbed = TRUE
        /\ report' = [pc |-> "counted", kind |-> report.kind, filter |-> report.filter,
                      skip |-> report.skip, limit |-> report.limit,
                      summary |-> report.summary, disturbed |-> TRUE]
    BY <1>1, <2>1, <2>2 DEF IsCounted
  <2>4. IsCounted(report)'
    BY <2>2, <2>3 DEF IsCounted, Fields, Bounded
  <2>5. QED
    BY <2>3, <2>4 DEF ReportShape, CountIsCurrent, ItemsWereRows, TotalsAreTheRows, HasItems
<1>2. CASE ~(report.pc = "counted" /\ rows' # rows)
  <2>1. report' = report
    BY <1>2 DEF Disturb
  <2>2. CountIsCurrent'
    <3>1. CASE report.pc = "counted"
      <4>1. rows' = rows
        BY <1>2, <3>1
      <4>2. Summary(report.filter)' = Summary(report.filter)
        BY <2>1, <4>1 DEF Summary, TotalStock, StockOf, Matching, Live
      <4>3. QED BY <2>1, <4>2 DEF ReportInv, CountIsCurrent
    <3>2. CASE report.pc # "counted"
      BY <2>1, <3>2 DEF CountIsCurrent
    <3>3. QED BY <3>1, <3>2
  <2>3. ReportShape' /\ ItemsWereRows' /\ TotalsAreTheRows'
    BY <2>1 DEF ReportInv, ReportShape, IsCounted, Fields, Bounded, HasItems,
                ItemsWereRows, TotalsAreTheRows, Listed, Showing
  <2>4. QED BY <2>2, <2>3
<1>3. QED BY <1>1, <1>2

(***************************************************************************)
(* The invariant, and what it means for a reader of a report.              *)
(***************************************************************************)
LEMMA ReportInitEstablishes == Init => ReportInv
<1>1. SUFFICES ASSUME Init PROVE ReportInv
  OBVIOUS
<1>2. IInv
  BY <1>1, InitEstablishes DEF Init
<1>3. RowsAreFinite
  BY <1>1, StartAssumption DEF Init, InitCatalog, RowsAreFinite
<1>4. report = NoReport /\ report.pc = "idle"
  BY <1>1 DEF Init, InitReport, NoReport
<1>5. QED
  BY <1>2, <1>3, <1>4 DEF ReportInv, ReportShape, CountIsCurrent, ItemsWereRows,
                          TotalsAreTheRows, HasItems

\* The invariant is inductive.
LEMMA ReportStepKeeps == ReportInv /\ [Next]_vars => ReportInv'
<1>1. SUFFICES ASSUME ReportInv, [Next]_vars PROVE ReportInv'
  OBVIOUS
<1>2. CASE NextCatalog /\ Disturb
  <2>1. IInv' /\ RowsAreFinite'
    BY <1>1, <1>2, StepKeeps, RowsStayFinite DEF ReportInv
  <2>2. QED BY <1>1, <1>2, <2>1, DisturbKeeps DEF ReportInv
<1>3. ASSUME UNCHANGED catalog PROVE IInv' /\ RowsAreFinite'
  BY <1>1, <1>3, StepKeeps, RowsStayFinite DEF ReportInv
<1>4. CASE NextReport(Documents)
  <2>1. UNCHANGED catalog
    BY <1>4 DEF NextReport, CountForExport, CountForPreview, CountForDashboard, Count,
                ReadItems, Render, EndReport
  <2>2. (ReportShape /\ CountIsCurrent /\ ItemsWereRows /\ TotalsAreTheRows)'
    BY <1>1, <1>4, CountStepKeeps, ReadItemsKeeps, RenderKeeps, EndKeeps,
       ReportAssumption, CatalogAssumption DEF NextReport
  <2>3. QED BY <1>3, <2>1, <2>2 DEF ReportInv
<1>5. CASE UNCHANGED vars
  <2>1. UNCHANGED catalog /\ report' = report
    BY <1>5 DEF vars
  <2>2. Disturb
    BY <2>1 DEF Disturb, catalog
  <2>3. QED BY <1>1, <1>3, <2>1, <2>2, DisturbKeeps DEF ReportInv
<1>6. QED BY <1>1, <1>2, <1>4, <1>5 DEF Next, NextAmong

\* The invariant holds in every reachable state.
THEOREM ReportInvariance == Spec => []ReportInv
BY ReportInitEstablishes, ReportStepKeeps, PTL DEF Spec

\* A report in progress has a kind, a filter and totals that are natural
\* numbers, whatever the requests of the catalogue did before.
THEOREM ReportTypeCorrect == Spec => []ReportTypeOK
<1>1. ReportInv => ReportTypeOK
  BY DEF ReportInv, ReportShape, ReportTypeOK, IsCounted, Fields, Kinds, Totals,
         ItemsWereRows, HasItems
<1>2. QED BY <1>1, ReportInvariance, PTL

\* An export is one row longer than its maximum at most, and only when a
\* request of the catalogue committed between its count and its rows.
THEOREM ExportsAreBounded == Spec => []ExportsStayNearTheirBound
<1>1. ReportInv => ExportsStayNearTheirBound
  <2>1. SUFFICES ASSUME ReportInv, HasItems, Exporting
                 PROVE  /\ Cardinality(Listed) <= MaxRows[report.kind] + 1
                        /\ Cardinality(Listed) > MaxRows[report.kind] => report.disturbed
    BY DEF ExportsStayNearTheirBound
  <2>2. /\ Fields(report) /\ IsFiniteSet(Listed)
        /\ Cardinality(Listed) <= report.limit
    BY <2>1 DEF ReportInv, ItemsWereRows
  <2>3. /\ report.kind \in Formats /\ report.skip = 0
        /\ report.limit = MaxRows[report.kind] + 1
        /\ report.summary.total \in Nat
        /\ report.summary.total <= MaxRows[report.kind]
        /\ report.disturbed \in BOOLEAN
    BY <2>1, <2>2 DEF Exporting, Fields, Bounded, Totals
  <2>4. ASSUME ~report.disturbed
        PROVE  Cardinality(Listed) <= MaxRows[report.kind]
    <3>1. Cardinality(Listed) = Min({report.limit, Max({0, report.summary.total - report.skip})})
      BY <2>1, <2>4 DEF ReportInv, TotalsAreTheRows
    <3>2. Max({0, report.summary.total - report.skip}) = report.summary.total
      BY <2>3, MaxOfTwo
    <3>3. MaxRows[report.kind] \in Nat
      BY <2>3, ReportAssumption
    <3>4. Min({report.limit, report.summary.total}) = report.summary.total
      BY <2>3, <3>3, MinOfTwo
    <3>5. QED BY <2>3, <3>1, <3>2, <3>4
  <2>5. Cardinality(Listed) \in Nat /\ MaxRows[report.kind] \in Nat
    BY <2>2, <2>3, FS_CardinalityType, ReportAssumption
  <2>6. Cardinality(Listed) > MaxRows[report.kind] => report.disturbed
    BY <2>4, <2>5
  <2>7. QED BY <2>2, <2>3, <2>6
<1>2. QED BY <1>1, ReportInvariance, PTL

\* The totals printed on a report are those of its rows, unless a commit came
\* between the two statements.
THEOREM TotalsAreOfTheRows == Spec => []TotalsAreTheRows
<1>1. ReportInv => TotalsAreTheRows
  BY DEF ReportInv
<1>2. QED BY <1>1, ReportInvariance, PTL

\* A row matches one of the three filters, the one its status is.
LEMMA OneFilterMatches ==
  ASSUME NEW row \in Row, CatalogAssumption
  PROVE  \A filter \in Filters \ {"all"} : Matches(row, filter) <=> filter = StockStatus(row)
<1>1. row.current_stock \in Nat /\ row.minimum_stock \in Nat
  BY DEF Row, Levels, CatalogAssumption
<1>2. QED BY <1>1 DEF Filters, Matches, StockStatus

\* The rows of a filtered report show the status it was filtered by, and the
\* three filters share out the products without gap or overlap.
THEOREM FiltersShareOut == Spec => []FiltersShareOutTheProducts
<1>1. ReportInv => FiltersShareOutTheProducts
  <2>1. SUFFICES ASSUME ReportInv PROVE FiltersShareOutTheProducts
    OBVIOUS
  <2>2. ASSUME HasItems, report.filter # "all"
        PROVE  Listed = Showing(report.filter)
    <3>1. report.filter \in Filters \ {"all"}
          /\ \A p \in Listed : Shows(report.items[p], report.filter)
      BY <2>1, <2>2 DEF ReportInv, ItemsWereRows, Fields
    <3>2. ASSUME NEW p \in Listed
          PROVE  report.items[p].status = report.filter
      <4>1. PICK row \in Row :
              /\ Matches(row, report.filter)
              /\ report.items[p] = [stock |-> row.current_stock, status |-> StockStatus(row)]
        BY <3>1 DEF Shows
      <4>2. QED BY <3>1, <4>1, OneFilterMatches, CatalogAssumption
    <3>3. QED BY <3>2 DEF Showing, Listed
  <2>3. ASSUME NEW p \in Live
        PROVE  Cardinality({f \in Filters \ {"all"} : Matches(rows[p], f)}) = 1
    <3>1. rows[p] \in Row
      BY <2>1, RowTyped, CatalogAssumption DEF ReportInv, IInv, Live
    <3>2. StockStatus(rows[p]) \in Filters \ {"all"}
      BY DEF StockStatus, Filters
    <3>3. {f \in Filters \ {"all"} : Matches(rows[p], f)} = {StockStatus(rows[p])}
      BY <3>1, <3>2, OneFilterMatches, CatalogAssumption
    <3>4. QED BY <3>3, FS_Singleton
  <2>4. QED BY <2>2, <2>3 DEF FiltersShareOutTheProducts
<1>2. QED BY <1>1, ReportInvariance, PTL

(***************************************************************************)
(* The layout.  What is measured is a natural number, and a column is at   *)
(* least as wide as it prefers, as its minimum, or as the page lets it be. *)
(***************************************************************************)
\* A part of a text is as wide as its characters are together.
LEMMA WidthTyped ==
  ASSUME NEW text \in Text, NEW a \in Int, NEW b \in Int, 1 <= a, b <= Len(text)
  PROVE  /\ Width(text, <<a, b>>) \in Nat
         /\ Width(text, <<a, b>>)
              = SumFunctionOnSet([k \in a .. b |-> CharWidth[text[k]]], a .. b)
         /\ \A k \in a .. b : CharWidth[text[k]] \in Nat \ {0}
<1> DEFINE widths == [k \in a .. b |-> CharWidth[text[k]]]
<1>1. IsFiniteSet(a .. b)
  BY FS_Interval
<1>2. \A k \in a .. b : CharWidth[text[k]] \in Nat \ {0}
  <2>1. \A k \in a .. b : k \in 1 .. Len(text)
    OBVIOUS
  <2>2. \A k \in 1 .. Len(text) : text[k] \in DOMAIN CharWidth
    BY DEF Text
  <2>3. QED BY <2>1, <2>2, LayoutAssumption
<1>3. DOMAIN widths = a .. b /\ \A k \in a .. b : widths[k] \in Nat
  BY <1>2
<1>4. Width(text, <<a, b>>) = SumFunctionOnSet(widths, a .. b)
  BY DEF Width, SumFunction
<1> HIDE DEF widths
<1>5. SumFunctionOnSet(widths, a .. b) \in Nat
  BY <1>1, <1>3, SumInNat
<1>6. QED BY <1>2, <1>4, <1>5 DEF widths

\* A part of a part is no wider.
LEMMA WidthGrows ==
  ASSUME NEW text \in Text, NEW a \in Int, NEW b \in Int, 1 <= a, b <= Len(text),
         NEW c \in Int, NEW d \in Int, a <= c, d <= b
  PROVE  Width(text, <<c, d>>) <= Width(text, <<a, b>>)
<1> DEFINE outer == [k \in a .. b |-> CharWidth[text[k]]]
           inner == [k \in c .. d |-> CharWidth[text[k]]]
<1>1. /\ Width(text, <<a, b>>) = SumFunctionOnSet(outer, a .. b)
      /\ \A k \in a .. b : outer[k] \in Nat
  BY WidthTyped
<1>2. 1 <= c /\ d <= Len(text)
  BY DEF Text
<1>3. Width(text, <<c, d>>) = SumFunctionOnSet(inner, c .. d)
  BY <1>2, WidthTyped
<1>4. \A k \in c .. d : k \in a .. b /\ inner[k] = outer[k]
  OBVIOUS
<1> HIDE DEF outer, inner
<1>5. PICK I, O : I = c .. d /\ O = a .. b
  OBVIOUS
<1>6. IsFiniteSet(I) /\ IsFiniteSet(O) /\ I \subseteq O
  BY <1>4, <1>5, FS_Interval
<1>7. PICK rest : rest = O \ I
  OBVIOUS
<1>8. IsFiniteSet(rest) /\ I \cap rest = {} /\ I \cup rest = O
  BY <1>6, <1>7, FS_Subset
<1>9. \A k \in O : outer[k] \in Nat
  BY <1>1, <1>5
<1>10. SumFunctionOnSet(inner, I) = SumFunctionOnSet(outer, I)
  <2>1. \A k \in I : inner[k] \in Int /\ inner[k] = outer[k]
    BY <1>4, <1>5, <1>6, <1>9
  <2>2. QED BY <1>6, <2>1, SumOfEqual
<1>11. SumFunctionOnSet(outer, O) = SumFunctionOnSet(outer, I) + SumFunctionOnSet(outer, rest)
  <2>1. \A k \in I \cup rest : outer[k] \in Int
    BY <1>8, <1>9
  <2>2. SumFunctionOnSet(outer, I \cup rest)
          = SumFunctionOnSet(outer, I) + SumFunctionOnSet(outer, rest)
    BY <1>6, <1>8, <2>1, SumOfDisjoint
  <2>3. QED BY <1>8, <2>2
<1>12. SumFunctionOnSet(outer, I) \in Nat /\ SumFunctionOnSet(outer, rest) \in Nat
  <2>1. \A k \in I : outer[k] \in Nat
    BY <1>6, <1>9
  <2>2. \A k \in rest : outer[k] \in Nat
    BY <1>7, <1>9
  <2>3. QED BY <1>6, <1>8, <2>1, <2>2, SumInNat
<1>13. PICK x \in Nat, y \in Nat :
         x = SumFunctionOnSet(outer, I) /\ y = SumFunctionOnSet(outer, rest)
  BY <1>12
<1>14. Width(text, <<c, d>>) = x /\ Width(text, <<a, b>>) = x + y
  BY <1>1, <1>3, <1>5, <1>10, <1>11, <1>13
<1>15. QED BY <1>14

\* One character.
LEMMA WidthOfOne ==
  ASSUME NEW text \in Text, NEW a \in DOMAIN text
  PROVE  Width(text, <<a, a>>) = CharWidth[text[a]]
<1> DEFINE widths == [k \in a .. a |-> CharWidth[text[k]]]
<1>1. a \in 1 .. Len(text) /\ Len(text) \in Nat
  BY DEF Text
<1>2. /\ Width(text, <<a, a>>) = SumFunctionOnSet(widths, a .. a)
      /\ \A k \in a .. a : widths[k] \in Nat
      /\ widths[a] = CharWidth[text[a]] /\ widths[a] \in Nat
  <2>1. a \in Int /\ 1 <= a /\ a <= Len(text)
    BY <1>1
  <2>2. /\ Width(text, <<a, a>>) = SumFunctionOnSet(widths, a .. a)
        /\ \A k \in a .. a : CharWidth[text[k]] \in Nat \ {0}
    BY <2>1, WidthTyped
  <2>3. a \in a .. a
    BY <2>1
  <2>4. QED BY <2>2, <2>3
<1> HIDE DEF widths
<1>3. PICK x : x = a
  OBVIOUS
<1>4. a .. a = {} \cup {x} /\ IsFiniteSet({}) /\ x \notin {}
  BY <1>1, <1>3, FS_EmptySet
<1>5. \A k \in {} \cup {x} : widths[k] \in Int
  BY <1>2, <1>3
<1>6. SumFunctionOnSet(widths, {} \cup {x}) = widths[x] + SumFunctionOnSet(widths, {})
  BY <1>4, <1>5, SumWithOneMore
<1>7. SumFunctionOnSet(widths, {}) = 0
  BY SumOfNone
<1>8. QED BY <1>2, <1>3, <1>4, <1>6, <1>7

\* A text, its longest word.
LEMMA TextWidthTyped ==
  ASSUME NEW text \in Text
  PROVE  TextWidth(text) \in Nat
<1>1. PICK one \in Int, last \in Int : one = 1 /\ last = Len(text)
  BY DEF Text
<1>2. 1 <= one /\ last <= Len(text)
  BY <1>1
<1> HIDE <1>1
<1>3. Width(text, <<one, last>>) \in Nat
  BY <1>2, WidthTyped
<1>4. QED BY <1>1, <1>3 DEF TextWidth

\* The longest word is one of the words, or there is none.
LEMMA LongestWordTyped ==
  ASSUME NEW text \in Text
  PROVE  LongestWord(text) \in Nat
<1> DEFINE All == (DOMAIN text) \X (DOMAIN text)
           width == [word \in Words(text) |-> Width(text, word)]
           Found == {0} \cup Range(width)
<1>1. DOMAIN text = 1 .. Len(text) /\ Len(text) \in Nat
  BY DEF Text
<1>2. IsFiniteSet(Words(text))
  <2>1. IsFiniteSet(DOMAIN text)
    BY <1>1, FS_Interval
  <2>2. IsFiniteSet(All)
    BY <2>1, FS_Product
  <2>3. Words(text) \subseteq All
    BY DEF Words
  <2> HIDE DEF All
  <2>4. QED BY <2>2, <2>3, FS_Subset
<1>3. ASSUME NEW word \in Words(text) PROVE width[word] \in Nat
  <2>1. PICK a \in 1 .. Len(text), b \in 1 .. Len(text) : word = <<a, b>>
    BY <1>1 DEF Words
  <2>2. a \in Int /\ b \in Int /\ 1 <= a /\ b <= Len(text)
    BY <1>1
  <2> HIDE <2>1
  <2>3. Width(text, <<a, b>>) \in Nat
    BY <2>2, WidthTyped
  <2>4. QED BY <2>1, <2>3
<1>4. /\ {Width(text, word) : word \in Words(text)} = Range(width)
      /\ DOMAIN width = Words(text)
  BY DEF Range
<1> HIDE DEF width
<1>5. IsFiniteSet(Found) /\ Found \subseteq Nat /\ Found # {}
  <2>1. IsFiniteSet(Range(width)) /\ IsFiniteSet({0})
    BY <1>2, <1>4, RangeIsFinite, FS_Singleton
  <2>2. IsFiniteSet(Found)
    BY <2>1, FS_Union
  <2>3. Range(width) \subseteq Nat
    BY <1>3, <1>4 DEF Range
  <2>4. QED BY <2>2, <2>3
<1> HIDE DEF Found
<1>6. PICK x \in Found : \A y \in Found : y <= x
  <2>1. Found \subseteq Int
    BY <1>5
  <2>2. QED BY <1>5, <2>1, GreatestOfFinite
<1>7. Max(Found) \in Found
  <2>1. \A y \in Found : x >= y
    BY <1>5, <1>6
  <2>2. \E z \in Found : \A y \in Found : z >= y
    BY <2>1
  <2>3. QED BY <2>2 DEF Max
<1>8. Max(Found) \in Nat
  BY <1>5, <1>7
<1>9. QED BY <1>4, <1>8, Zenon DEF LongestWord, Found

\* The two widths of a column.
LEMMA ColumnTyped ==
  ASSUME NEW column \in Column, NEW on \in Measures, on.least <= on.unbroken
  PROVE  /\ Preferred(column, on) \in Nat /\ Minimum(column, on) \in Nat
         /\ on.least <= Minimum(column, on)
         /\ Minimum(column, on) <= Preferred(column, on)
         /\ Minimum(column, on) <= on.unbroken
<1> DEFINE title == TextWidth(column.title) + on.padding
           cell == TextWidth(column.cell) + on.padding
           first == LongestWord(column.title)
           second == LongestWord(column.cell)
<1>1. /\ title \in Nat /\ cell \in Nat /\ first \in Nat /\ second \in Nat
      /\ on.least \in Nat /\ on.unbroken \in Nat /\ on.padding \in Nat
  BY TextWidthTyped, LongestWordTyped DEF Column, Measures
<1>2. /\ Preferred(column, on) = Max({on.least, title, cell})
      /\ Minimum(column, on)
           = Min({Preferred(column, on),
                  Max({on.least, Min({on.unbroken, Max({first, second}) + on.padding})})})
  BY DEF Preferred, Minimum
<1> HIDE DEF title, cell, first, second
<1>3. PICK word \in Nat : word = Max({first, second}) + on.padding
  BY <1>1, MaxOfTwo
<1>4. PICK m \in Nat : /\ m = Max({on.least, Min({on.unbroken, word})})
                       /\ on.least <= m /\ m <= on.unbroken
  BY <1>1, MaxOfTwo, MinOfTwo
<1>5. Max({on.least, title, cell}) \in Nat /\ on.least <= Max({on.least, title, cell})
  <2> DEFINE S == {on.least, title, cell}
  <2>1. \E x \in S : \A y \in S : x >= y
    BY <1>1
  <2>2. Max(S) \in S /\ \A y \in S : Max(S) >= y
    BY <2>1 DEF Max
  <2>3. QED BY <1>1, <2>2
<1>6. Minimum(column, on) = Min({Preferred(column, on), m})
  BY <1>2, <1>3, <1>4
<1>7. PICK p \in Nat : p = Preferred(column, on) /\ on.least <= p
  BY <1>2, <1>5
<1>8. Minimum(column, on) = IF p <= m THEN p ELSE m
  BY <1>6, <1>7, MinOfTwo
<1>9. QED BY <1>1, <1>4, <1>7, <1>8

\* Products of natural numbers, for the fractions below.
LEMMA Products0 ==
  ASSUME NEW x \in Nat, NEW y \in Nat
  PROVE  x * y \in Nat
OBVIOUS

\* A product grows with its factor.
LEMMA ProductsGrow ==
  ASSUME NEW x \in Int, NEW y \in Int, NEW z \in Nat, x <= y
  PROVE  x * z <= y * z
<1>1. (y - x) * z \in Nat
  BY Products0
<1>2. y * z = x * z + (y - x) * z
  OBVIOUS
<1>3. x * z \in Int /\ y * z \in Int
  OBVIOUS
<1>4. QED BY <1>1, <1>2, <1>3

\* A total is a natural number, and an empty addition adds nothing.
LEMMA TotalTyped ==
  ASSUME NEW D, IsFiniteSet(D), NEW f \in [D -> Nat]
  PROVE  Total(f) \in Nat /\ Total(f) = SumFunctionOnSet(f, D)
<1>1. DOMAIN f = D /\ \A i \in D : f[i] \in Nat
  OBVIOUS
<1>2. SumFunctionOnSet(f, D) \in Nat
  BY <1>1, SumInNat
<1>3. QED BY <1>1, <1>2 DEF Total, SumFunction

\* What _fit_widths makes of preferred widths and minimum widths that the page
\* has room for: no more than the page, and no column below its minimum.
LEMMA FitWidthsFits ==
  ASSUME NEW D, IsFiniteSet(D), NEW preferred \in [D -> Nat], NEW minimum \in [D -> Nat],
         \A i \in D : minimum[i] <= preferred[i],
         NEW available \in Nat \ {0}, Total(minimum) <= available
  PROVE  LET fit == FitWidths(preferred, minimum, available) IN
         /\ fit.of \in Nat \ {0}
         /\ fit.parts \in [D -> Nat]
         /\ Total(fit.parts) <= available * fit.of
         /\ \A i \in D : minimum[i] * fit.of <= fit.parts[i]
<1>1. PICK tp \in Nat, tm \in Nat : /\ tp = Total(preferred) /\ tm = Total(minimum)
                                    /\ tp = SumFunctionOnSet(preferred, D)
                                    /\ tm = SumFunctionOnSet(minimum, D)
  BY TotalTyped
<1>2. tm <= available
  BY <1>1
<1> DEFINE fit == FitWidths(preferred, minimum, available)
<1>3. CASE tp <= available
  <2>1. fit = [parts |-> preferred, of |-> 1]
    BY <1>1, <1>3 DEF FitWidths
  <2>2. \A i \in D : minimum[i] * 1 <= preferred[i]
    OBVIOUS
  <2>3. Total(preferred) <= available * 1
    BY <1>1, <1>3
  <2>4. QED BY <2>1, <2>2, <2>3
<1>4. CASE tp > available /\ available - tm <= 0
  <2> DEFINE parts == [i \in D |-> minimum[i] * available]
  <2>1. fit = [parts |-> parts, of |-> tm]
    BY <1>1, <1>4 DEF FitWidths
  <2>2. tm = available
    BY <1>2, <1>4
  <2>3. parts \in [D -> Nat]
    BY Products0
  <2>4. \A i \in D : /\ minimum[i] \in Int
                     /\ parts[i] = available * minimum[i] + 0 * minimum[i]
    OBVIOUS
  <2>5. \A i \in D : minimum[i] * tm <= parts[i]
    BY <2>2
  <2> HIDE DEF parts
  <2>6. SumFunctionOnSet(parts, D)
          = available * SumFunctionOnSet(minimum, D) + 0 * SumFunctionOnSet(minimum, D)
    BY <2>4, SumOfCombination
  <2>7. Total(parts) = available * tm
    BY <1>1, <2>3, <2>6, TotalTyped
  <2>8. available * tm <= available * tm
    OBVIOUS
  <2>9. QED BY <2>1, <2>2, <2>3, <2>5, <2>7, <2>8
<1>5. CASE tp > available /\ ~(available - tm <= 0)
  <2>1. PICK slack \in Nat, wanted \in Nat :
          /\ slack = available - tm /\ wanted = tp - tm /\ wanted # 0 /\ tm + slack = available
    BY <1>2, <1>5
  <2> DEFINE parts == [i \in D |-> minimum[i] * wanted + (preferred[i] - minimum[i]) * slack]
             more == [i \in D |-> preferred[i] - minimum[i]]
  <2>2. fit = [parts |-> parts, of |-> wanted]
    BY <1>1, <1>5, <2>1 DEF FitWidths
  <2>3. \A i \in D : /\ more[i] \in Nat /\ more[i] = preferred[i] - minimum[i]
                     /\ minimum[i] \in Nat /\ preferred[i] \in Nat
    OBVIOUS
  <2>4. \A i \in D : parts[i] = wanted * minimum[i] + slack * more[i]
    BY <2>3
  <2> HIDE DEF more, parts
  <2>5. \A i \in D : /\ minimum[i] * wanted \in Nat /\ minimum[i] * wanted = wanted * minimum[i]
                     /\ slack * more[i] \in Nat
    BY <2>3, Products0
  <2>6. \A i \in D : parts[i] \in Nat /\ minimum[i] * wanted <= parts[i]
    BY <2>4, <2>5
  <2>7. parts \in [D -> Nat]
    BY <2>6 DEF parts
  <2>8. SumFunctionOnSet(parts, D)
          = wanted * SumFunctionOnSet(minimum, D) + slack * SumFunctionOnSet(more, D)
    BY <2>3, <2>4, SumOfCombination
  <2>9. SumFunctionOnSet(more, D) = tp - tm
    BY <1>1, <2>3, SumOfMinus
  <2>10. Total(parts) = wanted * tm + slack * wanted
    BY <1>1, <2>1, <2>7, <2>8, <2>9, TotalTyped
  <2>11. wanted * tm + slack * wanted = available * wanted
    BY <2>1
  <2>12. available * wanted <= available * wanted
    OBVIOUS
  <2>13. QED BY <2>1, <2>2, <2>6, <2>7, <2>10, <2>11, <2>12
<1>6. QED BY <1>2, <1>3, <1>4, <1>5

\* What _expand_widths makes of widths that the page holds: at least the target,
\* no more than the page, and no column narrower than it was.
LEMMA ExpandWidthsFills ==
  ASSUME NEW D, IsFiniteSet(D), D # {},
         NEW parts \in [D -> Nat], NEW of \in Nat \ {0}, NEW weights \in [D -> Nat \ {0}],
         NEW page \in Nat, NEW share \in Nat, NEW whole \in Nat \ {0}, share <= whole,
         Total(parts) <= page * of
  PROVE  LET wide == ExpandWidths([parts |-> parts, of |-> of],
                                  [parts |-> share * page, of |-> whole], weights)
         IN /\ wide.of \in Nat \ {0}
            /\ wide.parts \in [D -> Nat]
            /\ share * page * wide.of <= whole * Total(wide.parts)
            /\ Total(wide.parts) <= page * wide.of
            /\ \A i \in D : parts[i] * wide.of <= wide.parts[i] * of
<1> DEFINE target == [parts |-> share * page, of |-> whole]
           wide == ExpandWidths([parts |-> parts, of |-> of], target, weights)
<1>1. PICK t \in Nat, w \in Nat : /\ t = Total(parts) /\ t = SumFunctionOnSet(parts, D)
                                  /\ w = Total(weights) /\ w = SumFunctionOnSet(weights, D)
  <2>1. weights \in [D -> Nat]
    OBVIOUS
  <2>2. QED BY <2>1, TotalTyped
<1>2. w > 0
  <2>1. \A i \in D : weights[i] \in Nat /\ weights[i] > 0
    OBVIOUS
  <2>2. QED BY <1>1, <2>1, SumIsPositive
<1>3. PICK asked \in Nat, have \in Nat, room \in Nat :
        /\ asked = share * page * of /\ have = t * whole /\ room = page * of * whole
  BY Products0
<1>4. have <= room /\ asked <= room
  <2>1. t * whole <= (page * of) * whole
    BY <1>1, Products0, ProductsGrow
  <2>2. share * (page * of) <= whole * (page * of)
    BY Products0, ProductsGrow
  <2>3. share * (page * of) = share * page * of /\ whole * (page * of) = page * of * whole
    OBVIOUS
  <2>4. QED BY <1>3, <2>1, <2>2, <2>3
<1>5. CASE asked - have <= 0
  <2>1. wide = [parts |-> parts, of |-> of]
    BY <1>1, <1>3, <1>5 DEF ExpandWidths
  <2>2. share * page * of <= whole * Total(parts)
    BY <1>1, <1>3, <1>5
  <2>3. \A i \in D : parts[i] * of <= parts[i] * of
    OBVIOUS
  <2>4. QED BY <2>1, <2>2, <2>3
<1>6. CASE asked - have > 0
  <2>1. PICK extra \in Nat : extra = asked - have /\ asked = have + extra
    BY <1>6
  <2> DEFINE new == [i \in D |-> parts[i] * whole * w + extra * weights[i]]
             denominator == of * whole * w
  <2>2. wide = [parts |-> new, of |-> denominator]
    <3>1. share * page * of - Total(parts) * whole = extra /\ ~(extra <= 0)
      BY <1>1, <1>3, <1>6, <2>1
    <3>2. DOMAIN parts = D /\ Total(weights) = w
      BY <1>1
    <3> HIDE <1>1
    <3>3. QED BY <3>1, <3>2 DEF ExpandWidths
  <2>3. \A i \in D : /\ parts[i] \in Nat /\ weights[i] \in Nat
                     /\ parts[i] * whole * w \in Nat /\ extra * weights[i] \in Nat
                     /\ parts[i] * whole * w = (whole * w) * parts[i]
    BY Products0
  <2>4. new \in [D -> Nat]
    BY <2>3
  <2>5. \A i \in D : new[i] = (whole * w) * parts[i] + extra * weights[i]
    BY <2>3
  <2> HIDE DEF new
  <2>6. whole * w \in Int
    OBVIOUS
  <2>7. SumFunctionOnSet(new, D)
          = (whole * w) * SumFunctionOnSet(parts, D) + extra * SumFunctionOnSet(weights, D)
    BY <2>3, <2>5, <2>6, SumOfCombination
  <2>8. Total(new) = (whole * w) * t + extra * w
    BY <1>1, <2>4, <2>7, TotalTyped
  <2>9. Total(new) = asked * w
    BY <1>3, <2>1, <2>8
  <2>10. denominator \in Nat \ {0}
    BY <1>2
  <2>11. share * page * denominator = whole * Total(new)
    BY <1>3, <2>9
  <2>12. Total(new) <= page * denominator
    <3>1. asked * w <= room * w
      BY <1>4, ProductsGrow
    <3>2. room * w = page * denominator
      BY <1>3
    <3>3. QED BY <2>9, <3>1, <3>2
  <2>13. \A i \in D : parts[i] * denominator <= new[i] * of
    <3>1. SUFFICES ASSUME NEW i \in D PROVE parts[i] * denominator <= new[i] * of
      OBVIOUS
    <3>2. PICK part \in Nat, weight \in Nat, x \in Nat :
            part = parts[i] /\ weight = weights[i] /\ x = new[i]
      BY <2>3, <2>4
    <3>3. part * whole * w <= x
      <4>1. extra * weight \in Nat /\ part * whole * w \in Nat
        BY Products0
      <4>2. QED BY <2>3, <2>5, <3>2, <4>1
    <3>4. (part * whole * w) * of <= x * of
      BY <3>3, Products0, ProductsGrow
    <3>5. (part * whole * w) * of = part * denominator
      OBVIOUS
    <3>6. QED BY <3>2, <3>4, <3>5
  <2>14. share * page * denominator <= whole * Total(new)
    BY <2>9, <2>11
  <2> HIDE DEF denominator
  <2>15. QED BY <2>2, <2>4, <2>10, <2>11, <2>12, <2>13, <2>14
<1>7. QED BY <1>5, <1>6

\* There are n numbers from 1 to n.
LEMMA FirstNaturals ==
  ASSUME NEW n \in Nat
  PROVE  IsFiniteSet(1 .. n) /\ Cardinality(1 .. n) = n
<1>1. IsFiniteSet(1 .. n) /\ Cardinality(1 .. n) = IF 1 > n THEN 0 ELSE n - 1 + 1
  BY FS_Interval
<1>2. QED BY <1>1

\* The minimum widths of a table's columns fit on the page side by side.
LEMMA MinimumWidthsFit ==
  ASSUME NEW columns \in Tables, NEW on \in {Pdf, Png}
  PROVE  LET D == DOMAIN columns
             preferred == PreferredWidths(columns, on)
             minimum == MinimumWidths(columns, on)
         IN /\ IsFiniteSet(D) /\ D # {} /\ D = 1 .. Len(columns) /\ Len(columns) \in Nat
            /\ on.page \in Nat \ {0}
            /\ preferred \in [D -> Nat] /\ minimum \in [D -> Nat]
            /\ \A i \in D : on.least <= minimum[i] /\ minimum[i] <= preferred[i]
            /\ Total(minimum) <= on.page
<1> DEFINE D == DOMAIN columns
           preferred == PreferredWidths(columns, on)
           minimum == MinimumWidths(columns, on)
           n == Len(columns)
<1>1. /\ columns \in Seq(Column) /\ columns # <<>>
      /\ on.least <= on.unbroken /\ n * on.unbroken <= on.page
  BY DEF Tables
<1>2. D = 1 .. n /\ n \in Nat /\ n > 0 /\ \A i \in D : columns[i] \in Column
  BY <1>1
<1>3. IsFiniteSet(D) /\ Cardinality(D) = n /\ D # {}
  <2> HIDE DEF D
  <2>1. IsFiniteSet(1 .. n) /\ Cardinality(1 .. n) = n
    BY <1>2, FirstNaturals
  <2>2. 1 \in 1 .. n
    BY <1>2
  <2>3. QED BY <1>2, <2>1, <2>2
<1>4. on \in Measures /\ on.least \in Nat \ {0} /\ on.unbroken \in Nat /\ on.page \in Nat
  BY LayoutAssumption DEF Measures
<1>5. on.page # 0
  <2>1. PICK u \in Nat : u = on.unbroken /\ u > 0
    BY <1>1, <1>4
  <2>2. n * u > 0
    BY <1>2, <2>1
  <2>3. QED BY <1>1, <1>4, <2>1, <2>2
<1>6. \A i \in D : /\ preferred[i] \in Nat /\ minimum[i] \in Nat
                   /\ on.least <= minimum[i] /\ minimum[i] <= preferred[i]
                   /\ minimum[i] <= on.unbroken
  BY <1>1, <1>2, <1>4, ColumnTyped DEF PreferredWidths, MinimumWidths
<1>7. preferred \in [D -> Nat] /\ minimum \in [D -> Nat]
  BY <1>6 DEF PreferredWidths, MinimumWidths
<1> HIDE DEF preferred, minimum, D
<1>8. Total(minimum) <= on.page
  <2>1. PICK u \in Nat : u = on.unbroken
    BY <1>4
  <2>2. SumFunctionOnSet(minimum, D) <= u * Cardinality(D)
    BY <1>3, <1>6, <2>1, SumAtMost
  <2>3. u * n = n * u /\ n * u \in Nat
    BY <1>2
  <2>4. Total(minimum) = SumFunctionOnSet(minimum, D) /\ Total(minimum) \in Nat
    BY <1>3, <1>7, TotalTyped
  <2>5. QED BY <1>1, <1>3, <1>4, <2>1, <2>2, <2>3, <2>4
<1>9. QED BY <1>2, <1>3, <1>4, <1>5, <1>6, <1>7, <1>8 DEF preferred, minimum, D

\* A positive factor can be cancelled.
LEMMA Cancelled ==
  ASSUME NEW x \in Int, NEW y \in Int, NEW z \in Nat \ {0}, x * z <= y * z
  PROVE  x <= y
<1>1. SUFFICES ASSUME x > y PROVE FALSE
  OBVIOUS
<1>2. (y + 1) * z <= x * z
  BY <1>1, ProductsGrow
<1>3. (y + 1) * z = y * z + z
  OBVIOUS
<1>4. x * z \in Int /\ y * z \in Int
  OBVIOUS
<1>5. QED BY <1>2, <1>3, <1>4

\* _pdf_column_widths, whole: the table takes between 82 and 100 percent of the
\* page, and no column is below its minimum.
LEMMA PdfWidthsFill ==
  ASSUME NEW columns \in Tables
  PROVE  LET widths == PdfColumnWidths(columns)
             total == Total(widths.parts)
             least == MinimumWidths(columns, Pdf)
         IN /\ 41 * Pdf.page * widths.of <= 50 * total
            /\ total <= Pdf.page * widths.of
            /\ \A i \in DOMAIN least : least[i] * widths.of <= widths.parts[i]
<1> DEFINE D == DOMAIN columns
           preferred == PreferredWidths(columns, Pdf)
           minimum == MinimumWidths(columns, Pdf)
           weights == [i \in DOMAIN columns |-> columns[i].weight]
           fit == FitWidths(preferred, minimum, Pdf.page)
           wide == ExpandWidths(fit, [parts |-> 41 * Pdf.page, of |-> 50], weights)
<1>1. /\ IsFiniteSet(D) /\ D # {} /\ Pdf.page \in Nat \ {0}
      /\ preferred \in [D -> Nat] /\ minimum \in [D -> Nat]
      /\ \A i \in D : minimum[i] <= preferred[i]
      /\ Total(minimum) <= Pdf.page
  BY MinimumWidthsFit
<1>2. weights \in [D -> Nat \ {0}]
  <2>1. columns \in Seq(Column)
    BY DEF Tables
  <2>2. \A i \in D : columns[i] \in Column
    BY <2>1
  <2>3. \A i \in D : columns[i].weight \in Nat \ {0}
    BY <2>2 DEF Column
  <2>4. QED BY <2>3
<1>3. DOMAIN minimum = D
  BY DEF MinimumWidths
<1>4. PdfColumnWidths(columns) = wide
  BY DEF PdfColumnWidths
<1>5. fit = [parts |-> fit.parts, of |-> fit.of]
  BY DEF FitWidths
<1> HIDE DEF D, preferred, minimum, weights, fit
<1>6. /\ fit.of \in Nat \ {0} /\ fit.parts \in [D -> Nat]
      /\ Total(fit.parts) <= Pdf.page * fit.of
      /\ \A i \in D : minimum[i] * fit.of <= fit.parts[i]
  BY <1>1, FitWidthsFits DEF fit
<1>7. PICK parts \in [D -> Nat], of \in Nat \ {0} : parts = fit.parts /\ of = fit.of
  BY <1>6
<1>8. wide = ExpandWidths([parts |-> parts, of |-> of], [parts |-> 41 * Pdf.page, of |-> 50],
                          weights)
  BY <1>5, <1>7
<1> HIDE DEF wide
<1>9. PICK page \in Nat : page = Pdf.page
  BY <1>1
<1>10. Total(parts) <= page * of
  BY <1>6, <1>7, <1>9
<1>11. /\ wide.of \in Nat \ {0} /\ wide.parts \in [D -> Nat]
       /\ 41 * page * wide.of <= 50 * Total(wide.parts)
       /\ Total(wide.parts) <= page * wide.of
       /\ \A i \in D : parts[i] * wide.of <= wide.parts[i] * of
  <2>1. PICK share \in Nat, whole \in Nat \ {0} : share = 41 /\ whole = 50 /\ share <= whole
    OBVIOUS
  <2>2. wide = ExpandWidths([parts |-> parts, of |-> of],
                            [parts |-> share * page, of |-> whole], weights)
    BY <1>8, <1>9, <2>1
  <2>3. /\ wide.of \in Nat \ {0} /\ wide.parts \in [D -> Nat]
        /\ share * page * wide.of <= whole * Total(wide.parts)
        /\ Total(wide.parts) <= page * wide.of
        /\ \A i \in D : parts[i] * wide.of <= wide.parts[i] * of
    <3>1. IsFiniteSet(D) /\ D # {}
      BY <1>1
    <3>2. LET wider == ExpandWidths([parts |-> parts, of |-> of],
                                    [parts |-> share * page, of |-> whole], weights)
          IN /\ wider.of \in Nat \ {0}
             /\ wider.parts \in [D -> Nat]
             /\ share * page * wider.of <= whole * Total(wider.parts)
             /\ Total(wider.parts) <= page * wider.of
             /\ \A i \in D : parts[i] * wider.of <= wider.parts[i] * of
      <4> HIDE <2>2
      <4>1. share <= whole
        BY <2>1
      <4> HIDE <2>1
      <4>2. QED BY <1>2, <1>10, <3>1, <4>1, ExpandWidthsFills
    <3>3. QED BY <2>2, <3>2, Zenon
  <2>4. QED BY <2>1, <2>3
<1>12. ASSUME NEW i \in D
       PROVE  minimum[i] * wide.of <= wide.parts[i]
  <2>1. PICK m \in Nat, p \in Nat, q \in Nat, w \in Nat \ {0} :
          m = minimum[i] /\ p = parts[i] /\ q = wide.parts[i] /\ w = wide.of
    BY <1>1, <1>11
  <2>2. (m * of) * w <= p * w
    BY <1>6, <1>7, <2>1, Products0, ProductsGrow
  <2>3. (m * of) * w = (m * w) * of
    OBVIOUS
  <2>4. p * w <= q * of
    BY <1>11, <2>1
  <2>5. (m * w) * of <= q * of
    <3>1. /\ (m * of) * w \in Int /\ p * w \in Int /\ q * of \in Int
      OBVIOUS
    <3>2. QED BY <2>2, <2>3, <2>4, <3>1
  <2>6. m * w \in Int
    OBVIOUS
  <2>7. m * w <= q
    BY <2>5, <2>6, Cancelled
  <2>8. QED BY <2>1, <2>7
<1>13. QED BY <1>3, <1>4, <1>9, <1>11, <1>12 DEF minimum

\* round() is off by half at most, and does not go below a whole number that
\* was reached.
LEMMA RoundedIsNear ==
  ASSUME NEW part \in Nat, NEW of \in Nat \ {0}
  PROVE  /\ Rounded(part, of) \in Nat
         /\ 2 * of * Rounded(part, of) <= 2 * part + of
         /\ \A k \in Nat : k * of <= part => k <= Rounded(part, of)
<1>1. PICK floor \in Nat, rest \in Nat :
        /\ floor = part \div of /\ rest = part % of
        /\ part = of * floor + rest /\ rest < of
  <2>1. /\ part \div of \in Int /\ part % of \in 0 .. (of - 1)
        /\ part = of * (part \div of) + (part % of)
    OBVIOUS
  <2>2. part \div of >= 0
    <3>1. SUFFICES ASSUME part \div of <= -1 PROVE FALSE
      BY <2>1
    <3>2. (part \div of) * of <= (-1) * of
      BY <2>1, <3>1, ProductsGrow
    <3>3. QED BY <2>1, <3>2
  <2>3. QED BY <2>1, <2>2
<1>2. PICK r \in {floor, floor + 1} : /\ r = Rounded(part, of)
                                      /\ r = floor + 1 => of <= 2 * rest
  BY <1>1 DEF Rounded
<1>3. 2 * of * r <= 2 * part + of
  <2>1. CASE r = floor
    <3>1. 2 * of * r = 2 * part - 2 * rest
      BY <1>1, <2>1
    <3>2. QED BY <3>1
  <2>2. CASE r = floor + 1
    <3>1. 2 * of * (floor + 1) = 2 * (of * floor) + 2 * of
      OBVIOUS
    <3>2. of * floor \in Int /\ 2 * (of * floor) = 2 * part - 2 * rest
      BY <1>1
    <3>3. QED BY <1>2, <2>2, <3>1, <3>2
  <2>3. QED BY <2>1, <2>2
<1>4. ASSUME NEW k \in Nat, k * of <= part
      PROVE  k <= floor
  <2>1. SUFFICES ASSUME floor + 1 <= k PROVE FALSE
    OBVIOUS
  <2>2. (floor + 1) * of <= k * of
    BY <2>1, ProductsGrow
  <2>3. (floor + 1) * of = of * floor + of
    OBVIOUS
  <2>4. k * of \in Int /\ of * floor \in Int
    OBVIOUS
  <2>5. QED BY <1>1, <1>4, <2>2, <2>3, <2>4
<1>5. QED BY <1>1, <1>2, <1>3, <1>4

\* What the loop that takes away pixels does when there are no more of them
\* than columns and every column is wider than that: all come from the last.
LEMMA TrimmedFits ==
  ASSUME NEW n \in Nat \ {0}, NEW widths \in [1 .. n -> Nat], \A i \in 1 .. n : n < widths[i],
         NEW page \in Nat, Total(widths) - page <= n
  PROVE  LET cut == Trimmed(widths, Total(widths) - page)
         IN /\ cut \in [1 .. n -> Nat]
            /\ Total(cut) <= page
            /\ \A i \in 1 .. n : widths[i] - n <= cut[i]
<1> DEFINE D == 1 .. n
           overflow == Total(widths) - page
           cut == Trimmed(widths, overflow)
           After(i) == SumFunction([j \in {j \in DOMAIN widths : j > i} |-> widths[j] - 1])
<1>1. IsFiniteSet(D) /\ n \in D /\ DOMAIN widths = D
  BY FS_Interval
<1>2. PICK total \in Nat : total = Total(widths) /\ total = SumFunctionOnSet(widths, D)
  BY <1>1, TotalTyped
<1>3. overflow = total - page /\ overflow \in Int /\ overflow <= n
  BY <1>2
<1>4. cut = [i \in D |-> widths[i] - Max({0, Min({overflow - After(i), widths[i] - 1})})]
  BY <1>1 DEF Trimmed
<1> HIDE DEF overflow, cut
<1>5. ASSUME NEW i \in D
      PROVE  After(i) \in Nat /\ (i # n => n <= After(i)) /\ (i = n => After(i) = 0)
  <2> DEFINE T == {j \in DOMAIN widths : j > i}
             f == [j \in T |-> widths[j] - 1]
  <2>1. T \subseteq D /\ IsFiniteSet(T)
    BY <1>1, FS_Subset
  <2>2. DOMAIN f = T /\ \A j \in T : f[j] \in Nat /\ f[j] = widths[j] - 1
    BY <1>1
  <2>3. (i # n => n \in T) /\ (i = n => T = {})
    BY <1>1
  <2>4. After(i) = SumFunctionOnSet(f, T)
    BY <2>2 DEF SumFunction
  <2> HIDE DEF f, T, After
  <2>5. SumFunctionOnSet(f, T) \in Nat
    BY <2>1, <2>2, SumInNat
  <2>6. CASE i = n
    BY <2>3, <2>4, <2>6, SumOfNone, SMTT(30)
  <2>7. CASE i # n
    <3>1. PICK x \in T : x = n
      BY <2>3, <2>7
    <3>2. SumFunctionOnSet(f, T) = f[x] + SumFunctionOnSet(f, T \ {x})
      <4>1. \A j \in T : f[j] \in Int
        BY <2>2
      <4>2. IsFiniteSet(T)
        BY <2>1
      <4> HIDE <3>1
      <4>3. QED BY <4>1, <4>2, SumOfAny
    <3>3. IsFiniteSet(T \ {x}) /\ \A j \in T \ {x} : f[j] \in Nat
      BY <2>1, <2>2, FS_Subset
    <3>4. SumFunctionOnSet(f, T \ {x}) \in Nat
      BY <3>3, SumInNat
    <3>5. f[x] = widths[n] - 1 /\ n < widths[n]
      BY <1>1, <2>2, <3>1
    <3>6. QED BY <2>4, <2>5, <2>7, <3>2, <3>4, <3>5
  <2>8. QED BY <2>6, <2>7
<1> HIDE DEF After
<1>6. \A i \in D : i # n => cut[i] = widths[i]
  <2>1. SUFFICES ASSUME NEW i \in D, i # n PROVE cut[i] = widths[i]
    OBVIOUS
  <2>2. PICK left \in Int : left = overflow - After(i) /\ left <= 0
    BY <1>3, <1>5, <2>1
  <2>3. PICK spare \in Nat : spare = widths[i] - 1 /\ widths[i] \in Nat
    BY <1>1
  <2>4. Min({left, spare}) = left
    BY <2>2, <2>3, MinOfTwo
  <2>5. Max({0, left}) = 0
    BY <2>2, MaxOfTwo
  <2>6. cut[i] = widths[i] - Max({0, Min({left, spare})})
    BY <1>4, <2>2, <2>3
  <2>7. cut[i] = widths[i] - 0
    BY <2>4, <2>5, <2>6, Zenon
  <2>8. QED BY <2>3, <2>7
<1>7. PICK last \in Nat : /\ last = cut[n] /\ widths[n] - n <= last
                          /\ last <= widths[n] /\ last <= widths[n] - overflow
  <2>1. PICK spare \in Nat : spare = widths[n] - 1 /\ n <= spare /\ widths[n] \in Nat
    BY <1>1
  <2>2. overflow - After(n) = overflow
    BY <1>1, <1>3, <1>5
  <2>3. Min({overflow, spare}) = overflow
    BY <1>3, <2>1, MinOfTwo
  <2>4. Max({0, overflow}) = IF overflow <= 0 THEN 0 ELSE overflow
    BY <1>3, MaxOfTwo
  <2>5. cut[n] = widths[n] - Max({0, Min({overflow, spare})})
    BY <1>1, <1>4, <2>1, <2>2
  <2>6. cut[n] = widths[n] - Max({0, overflow})
    BY <2>3, <2>5, Zenon
  <2>7. PICK taken \in Nat : /\ taken = Max({0, overflow})
                             /\ taken <= n /\ overflow <= taken
    BY <1>3, <2>4
  <2>8. cut[n] = widths[n] - taken
    BY <2>6, <2>7
  <2>9. QED BY <1>3, <2>1, <2>7, <2>8, SMTT(30)
<1>8. cut \in [D -> Nat]
  <2>1. \A i \in D : cut[i] \in Nat
    BY <1>6, <1>7
  <2>2. QED BY <1>4, <2>1
<1>9. SumFunctionOnSet(cut, D) <= page
  <2>1. PICK S : S = D \ {n}
    OBVIOUS
  <2>2. IsFiniteSet(S) /\ \A i \in S : i \in D /\ i # n
    BY <1>1, <2>1, FS_Subset
  <2>3. \A i \in S : cut[i] \in Int /\ cut[i] = widths[i]
    BY <1>6, <2>2
  <2>4. SumFunctionOnSet(cut, S) = SumFunctionOnSet(widths, S)
    BY <2>2, <2>3, SumOfEqual
  <2>5. \A i \in D : cut[i] \in Int /\ widths[i] \in Int
    BY <1>8
  <2>6. /\ SumFunctionOnSet(cut, D) = cut[n] + SumFunctionOnSet(cut, S)
        /\ SumFunctionOnSet(widths, D) = widths[n] + SumFunctionOnSet(widths, S)
    <3>1. PICK x \in D : x = n
      BY <1>1
    <3> HIDE DEF D
    <3>2. SumFunctionOnSet(cut, D) = cut[x] + SumFunctionOnSet(cut, D \ {x})
      <4>1. \A i \in D : cut[i] \in Int
        BY <2>5
      <4>2. QED BY <1>1, <4>1, SumOfAny, SMTT(30)
    <3>3. SumFunctionOnSet(widths, D) = widths[x] + SumFunctionOnSet(widths, D \ {x})
      <4>1. \A i \in D : widths[i] \in Int
        BY <2>5
      <4>2. QED BY <1>1, <4>1, SumOfAny
    <3>4. QED BY <2>1, <3>1, <3>2, <3>3, Zenon
  <2>7. SumFunctionOnSet(widths, S) \in Int /\ widths[n] \in Int
    <3>1. \A i \in S : widths[i] \in Int
      BY <2>2, <2>5
    <3>2. QED BY <1>1, <2>2, <2>5, <3>1, SumInInt
  <2>8. PICK rest \in Int, w \in Int : rest = SumFunctionOnSet(widths, S) /\ w = widths[n]
    BY <2>7
  <2>9. total = w + rest
    BY <1>2, <2>6, <2>8
  <2>10. SumFunctionOnSet(cut, D) = last + rest
    BY <1>7, <2>4, <2>6, <2>8, Zenon
  <2>11. last <= w /\ last <= w - overflow
    BY <1>7, <2>8
  <2>12. last + rest <= page
    BY <1>3, <2>9, <2>11
  <2>13. QED BY <2>10, <2>12
<1>10. Total(cut) <= page
  BY <1>1, <1>8, <1>9, TotalTyped
<1>11. \A i \in D : widths[i] - n <= cut[i]
  <2>1. SUFFICES ASSUME NEW i \in D PROVE widths[i] - n <= cut[i]
    OBVIOUS
  <2>2. widths[i] \in Nat
    OBVIOUS
  <2>3. QED BY <1>6, <1>7, <2>2
<1>12. QED BY <1>8, <1>10, <1>11 DEF cut, overflow

\* Each width is the fraction it comes from, give or take a half.
Near(widths, parts, of) ==
  \A i \in DOMAIN widths : 2 * of * widths[i] <= 2 * parts[i] + of

\* A total keeps the bounds of rounding: half a unit for every column.
LEMMA RoundedTotal ==
  ASSUME NEW D, IsFiniteSet(D), NEW n \in Nat, Cardinality(D) = n,
         NEW parts \in [D -> Nat], NEW of \in Nat \ {0},
         NEW widths \in [D -> Nat], NEW page \in Nat,
         Total(parts) <= page * of,
         Near(widths, parts, of)
  PROVE  Total(widths) - page <= n
<1> DEFINE over == [i \in D |-> 2 * of * widths[i] + (-2) * parts[i]]
<1>1. PICK w \in Nat, p \in Nat : /\ w = Total(widths) /\ w = SumFunctionOnSet(widths, D)
                                  /\ p = Total(parts) /\ p = SumFunctionOnSet(parts, D)
  BY TotalTyped
<1>2. \A i \in D : /\ widths[i] \in Int /\ parts[i] \in Int
                   /\ over[i] = (2 * of) * widths[i] + (-2) * parts[i]
  OBVIOUS
<1>3. \A i \in D : over[i] \in Int /\ over[i] <= of
  <2>1. SUFFICES ASSUME NEW i \in D PROVE over[i] \in Int /\ over[i] <= of
    OBVIOUS
  <2>2. PICK v \in Nat, y \in Nat : v = widths[i] /\ y = parts[i]
    OBVIOUS
  <2>3. PICK x \in Int : x = 2 * of * v
    OBVIOUS
  <2>4. x <= 2 * y + of
    BY <2>2, <2>3 DEF Near
  <2>5. over[i] = x + (-2) * y
    BY <2>2, <2>3
  <2> HIDE DEF over
  <2>6. QED BY <2>4, <2>5
<1> HIDE DEF over
<1>4. SumFunctionOnSet(over, D) = (2 * of) * w + (-2) * p
  <2>1. PICK a \in Int, b \in Int : a = 2 * of /\ b = -2
    OBVIOUS
  <2>2. \A i \in D : /\ widths[i] \in Int /\ parts[i] \in Int
                     /\ over[i] = a * widths[i] + b * parts[i]
    BY <1>2, <2>1
  <2>3. SumFunctionOnSet(over, D)
          = a * SumFunctionOnSet(widths, D) + b * SumFunctionOnSet(parts, D)
    <3> HIDE <2>1
    <3>1. QED BY <2>2, SumOfCombination
  <2>4. SumFunctionOnSet(over, D) = a * w + b * p
    BY <1>1, <2>3, Zenon
  <2>5. QED BY <2>1, <2>4
<1>5. SumFunctionOnSet(over, D) <= of * n
  <2>1. PICK u \in Int : u = of
    OBVIOUS
  <2>2. \A i \in D : over[i] \in Int /\ over[i] <= u
    BY <1>3, <2>1
  <2>3. SumFunctionOnSet(over, D) <= u * Cardinality(D)
    BY <2>2, SumAtMost
  <2>4. QED BY <2>1, <2>3
<1>6. (2 * w) * of <= (2 * page + n) * of
  <2>1. (2 * of) * w = (2 * w) * of /\ (2 * page + n) * of = 2 * (page * of) + of * n
    OBVIOUS
  <2>2. PICK a \in Int, b \in Int, c \in Int : a = (2 * of) * w /\ b = page * of /\ c = of * n
    OBVIOUS
  <2>3. p <= b
    BY <1>1, <2>2
  <2>4. a + (-2) * p <= c
    BY <1>4, <1>5, <2>2
  <2>5. a <= 2 * b + c
    BY <2>3, <2>4
  <2>6. QED BY <2>1, <2>2, <2>5
<1>7. 2 * w <= 2 * page + n
  <2>1. 2 * w \in Int /\ 2 * page + n \in Int
    OBVIOUS
  <2>2. QED BY <1>6, <2>1, Cancelled
<1>8. QED BY <1>1, <1>7

\* _png_column_widths, whole: no wider than the page, and every column keeps
\* room for any character.
LEMMA PngWidthsFit ==
  ASSUME NEW columns \in Tables
  PROVE  LET widths == PngColumnWidths(columns)
         IN /\ widths \in [DOMAIN columns -> Nat]
            /\ Total(widths) <= Png.page
            /\ \A i \in DOMAIN widths, c \in DOMAIN CharWidth :
                 widths[i] - Png.padding >= CharWidth[c]
<1> DEFINE D == DOMAIN columns
           preferred == PreferredWidths(columns, Png)
           minimum == MinimumWidths(columns, Png)
           fit == FitWidths(preferred, minimum, Png.page)
           widths == [i \in D |-> Max({1, Rounded(fit.parts[i], fit.of)})]
           cut == Trimmed(widths, Total(widths) - Png.page)
<1>1. PICK n \in Nat : /\ n = Len(columns) /\ D = 1 .. n
  BY MinimumWidthsFit
<1>2. /\ IsFiniteSet(D) /\ D # {} /\ Png.page \in Nat \ {0}
      /\ preferred \in [D -> Nat] /\ minimum \in [D -> Nat]
      /\ \A i \in D : Png.least <= minimum[i] /\ minimum[i] <= preferred[i]
      /\ Total(minimum) <= Png.page
  BY MinimumWidthsFit
<1>3. n # 0
  BY <1>1, <1>2
<1>4. \A c \in DOMAIN CharWidth : Png.padding + CharWidth[c] + n <= Png.least
  BY <1>1 DEF Tables
<1>5. /\ Png.least \in Nat \ {0} /\ Png.padding \in Nat
      /\ \A c \in DOMAIN CharWidth : CharWidth[c] \in Nat \ {0}
      /\ Space \in DOMAIN CharWidth
  BY LayoutAssumption DEF Measures
<1>6. n < Png.least
  BY <1>4, <1>5
<1>7. PngColumnWidths(columns) = cut
  BY DEF PngColumnWidths
<1> HIDE DEF D, preferred, minimum, fit, cut
<1>8. /\ fit.of \in Nat \ {0} /\ fit.parts \in [D -> Nat]
      /\ Total(fit.parts) <= Png.page * fit.of
      /\ \A i \in D : minimum[i] * fit.of <= fit.parts[i]
  BY <1>2, FitWidthsFits DEF fit
<1>9. ASSUME NEW i \in D
      PROVE  /\ widths[i] \in Nat /\ Png.least <= widths[i]
             /\ 2 * fit.of * widths[i] <= 2 * fit.parts[i] + fit.of
  <2>1. PICK part \in Nat, of \in Nat \ {0}, m \in Nat :
          part = fit.parts[i] /\ of = fit.of /\ m = minimum[i] /\ m * of <= part
    BY <1>2, <1>8
  <2>2. PICK r \in Nat : /\ r = Rounded(part, of) /\ m <= r
                         /\ 2 * of * r <= 2 * part + of
    BY <2>1, RoundedIsNear
  <2>3. 1 <= r /\ Png.least <= r
    BY <1>2, <1>5, <2>1, <2>2
  <2>4. Max({1, r}) = r
    BY <2>3, MaxOfTwo
  <2>5. widths[i] = Max({1, r})
    BY <2>1, <2>2
  <2>6. widths[i] = r
    BY <2>4, <2>5, Zenon
  <2>7. QED BY <2>1, <2>2, <2>3, <2>6
<1>10. widths \in [1 .. n -> Nat]
  BY <1>1, <1>9
<1> HIDE DEF widths
<1>11. PICK page \in Nat : page = Png.page
  BY <1>2
<1>12. Total(widths) - page <= n
  <2>1. PICK parts \in [1 .. n -> Nat], of \in Nat \ {0} : parts = fit.parts /\ of = fit.of
    BY <1>1, <1>8
  <2>2. /\ Total(parts) <= page * of
        /\ Near(widths, parts, of)
    BY <1>1, <1>8, <1>9, <1>10, <1>11, <2>1 DEF Near
  <2>3. IsFiniteSet(1 .. n) /\ Cardinality(1 .. n) = n
    BY FirstNaturals
  <2>4. QED BY <1>10, <2>2, <2>3, RoundedTotal
<1>13. \A i \in 1 .. n : n < widths[i] /\ Png.least <= widths[i]
  BY <1>1, <1>5, <1>6, <1>9
<1>14. cut = Trimmed(widths, Total(widths) - page)
  BY <1>11 DEF cut
<1>15. /\ cut \in [1 .. n -> Nat] /\ Total(cut) <= page
       /\ \A i \in 1 .. n : widths[i] - n <= cut[i]
  <2>1. n \in Nat \ {0}
    BY <1>3
  <2>2. QED BY <1>10, <1>12, <1>13, <1>14, <2>1, TrimmedFits
<1>16. ASSUME NEW i \in DOMAIN cut, NEW c \in DOMAIN CharWidth
       PROVE  cut[i] - Png.padding >= CharWidth[c]
  <2>1. i \in 1 .. n
    BY <1>15
  <2>2. cut[i] \in Nat /\ widths[i] \in Nat /\ widths[i] - n <= cut[i] /\ Png.least <= widths[i]
    BY <1>10, <1>13, <1>15, <2>1
  <2>3. QED BY <1>4, <1>5, <2>2
<1>17. QED BY <1>1, <1>7, <1>11, <1>15, <1>16 DEF D

(***************************************************************************)
(* Recursion that follows a function downwards: the binary search, and the *)
(* loop that wraps a text, which puts a line before what follows.          *)
(***************************************************************************)
Onward(joined, line, rest) == IF joined THEN <<line>> \o rest ELSE rest

Following(f, S, stop, base, joined, line, next) ==
  f = [x \in S |-> IF x \in stop THEN base[x] ELSE Onward(joined, line[x], f[next[x]])]

\* Such a function exists when every step but the last is to something smaller.
LEMMA FollowingExists ==
  ASSUME NEW S, NEW stop, NEW base, NEW joined, NEW line, NEW next,
         NEW size, \A x \in S : size[x] \in Nat,
         NEW most \in Nat, \A x \in S : size[x] < most,
         \A x \in S \ stop : next[x] \in S /\ size[next[x]] < size[x]
  PROVE  \E f : Following(f, S, stop, base, joined, line, next)
<1> DEFINE Below(n) == {x \in S : size[x] < n}
           Good(f, n) == Following(f, Below(n), stop, base, joined, line, next)
           Bad == {n \in Nat : ~ \E f : Good(f, n)}
<1>1. SUFFICES ASSUME ~ \E f : Following(f, S, stop, base, joined, line, next) PROVE FALSE
  OBVIOUS
<1>2. Below(most) = S
  OBVIOUS
<1>3. most \in Bad
  BY <1>1, <1>2
<1>4. PICK n \in Bad : \A m \in Bad : n <= m
  <2>1. Bad \subseteq Nat /\ Bad # {}
    BY <1>3
  <2> HIDE DEF Bad
  <2>2. QED BY <2>1, LeastNatural
<1>5. n \in Nat /\ ~ \E f : Good(f, n)
  BY <1>4
<1>6. n # 0
  <2>1. SUFFICES ASSUME n = 0 PROVE FALSE
    OBVIOUS
  <2>2. Below(n) = {}
    BY <2>1
  <2> DEFINE f == [x \in {} |-> base[x]]
  <2>3. f = [x \in {} |-> IF x \in stop THEN base[x] ELSE Onward(joined, line[x], f[next[x]])]
    OBVIOUS
  <2>4. Good(f, n)
    BY <2>2, <2>3 DEF Following
  <2>5. QED BY <1>5, <2>4
<1>7. PICK m \in Nat : m = n - 1 /\ m < n
  BY <1>5, <1>6
<1>8. PICK g : Good(g, m)
  <2>1. m \notin Bad
    <3> HIDE DEF Bad
    <3>1. QED BY <1>4, <1>5, <1>7
  <2>2. QED BY <2>1
<1> DEFINE f == [x \in Below(n) |->
                   IF x \in stop THEN base[x] ELSE Onward(joined, line[x], g[next[x]])]
<1>9. ASSUME NEW x \in Below(n), x \notin stop
      PROVE  f[next[x]] = g[next[x]]
  <2>1. PICK y : y = next[x]
    OBVIOUS
  <2>2. y \in Below(m) /\ y \in Below(n)
    BY <1>5, <1>7, <1>9, <2>1
  <2>3. f[y] = IF y \in stop THEN base[y] ELSE Onward(joined, line[y], g[next[y]])
    BY <2>2
  <2>4. g[y] = IF y \in stop THEN base[y] ELSE Onward(joined, line[y], g[next[y]])
    <3> HIDE DEF Below
    <3>1. g = [z \in Below(m) |->
                 IF z \in stop THEN base[z] ELSE Onward(joined, line[z], g[next[z]])]
      BY <1>8 DEF Following
    <3>2. QED BY <2>2, <3>1
  <2>5. QED BY <2>1, <2>3, <2>4
<1>10. \A x \in Below(n) :
         f[x] = IF x \in stop THEN base[x] ELSE Onward(joined, line[x], f[next[x]])
  BY <1>9
<1>11. f = [x \in Below(n) |->
              IF x \in stop THEN base[x] ELSE Onward(joined, line[x], f[next[x]])]
  BY <1>10
<1>12. Good(f, n)
  <2> HIDE DEF f, Below
  <2>1. QED BY <1>11 DEF Following
<1>13. QED BY <1>5, <1>12

(***************************************************************************)
(* The binary search of _wrap_text.                                        *)
(***************************************************************************)
Middle(at) == (at[1] + at[2] + 1) \div 2

Searching(text, remaining, room, f) ==
  f = [at \in (remaining[1] .. remaining[2]) \X (remaining[1] .. remaining[2]) |->
         IF at[1] >= at[2] THEN at[1]
         ELSE IF Width(text, <<remaining[1], Middle(at)>>) <= room
              THEN f[<<Middle(at), at[2]>>] ELSE f[<<at[1], Middle(at) - 1>>]]

\* Fitting, as a function that need only exist.
LEMMA FittingSearches ==
  ASSUME NEW text, NEW remaining, NEW room
  PROVE  Fitting(text, remaining, room)
           = (CHOOSE f : Searching(text, remaining, room, f))[remaining]
BY DEF Fitting, Searching, Middle

\* The middle lies above the lower end and not above the upper.
LEMMA MiddleBetween ==
  ASSUME NEW low \in Nat, NEW high \in Nat, low < high
  PROVE  /\ Middle(<<low, high>>) \in Nat
         /\ low < Middle(<<low, high>>) /\ Middle(<<low, high>>) <= high
BY DEF Middle

\* The search ends at a place up to which the text fits, and past which it does
\* not, provided that the first character fits.
LEMMA FittingFits ==
  ASSUME NEW text, NEW room \in Int, NEW a \in Nat, NEW b \in Nat, a <= b
  PROVE  LET low == Fitting(text, <<a, b>>, room)
         IN /\ low \in a .. b
            /\ Width(text, <<a, a>>) <= room =>
                 /\ Width(text, <<a, low>>) <= room
                 /\ low = b \/ ~(Width(text, <<a, low + 1>>) <= room)
<1> DEFINE S == (a .. b) \X (a .. b)
           stop == {at \in S : at[1] >= at[2]}
           base == [at \in S |-> at[1]]
           next == [at \in S |-> IF Width(text, <<a, Middle(at)>>) <= room
                                 THEN <<Middle(at), at[2]>> ELSE <<at[1], Middle(at) - 1>>]
           size == [at \in S |-> IF at[1] >= at[2] THEN 0 ELSE at[2] - at[1]]
<1>1. ASSUME NEW low \in a .. b, NEW high \in a .. b
      PROVE  /\ <<low, high>> \in S
             /\ size[<<low, high>>] = IF low >= high THEN 0 ELSE high - low
             /\ <<low, high>> \in stop <=> low >= high
             /\ base[<<low, high>>] = low
             /\ next[<<low, high>>] = IF Width(text, <<a, Middle(<<low, high>>)>>) <= room
                                      THEN <<Middle(<<low, high>>), high>>
                                      ELSE <<low, Middle(<<low, high>>) - 1>>
             /\ low < high => /\ Middle(<<low, high>>) \in a .. b
                              /\ Middle(<<low, high>>) - 1 \in a .. b
                              /\ low < Middle(<<low, high>>) /\ Middle(<<low, high>>) <= high
  <2>1. <<low, high>> \in S
    OBVIOUS
  <2>2. low < high => /\ Middle(<<low, high>>) \in Nat
                      /\ low < Middle(<<low, high>>) /\ Middle(<<low, high>>) <= high
    BY MiddleBetween
  <2>3. QED BY <2>1, <2>2
<1>2. \A at \in S : \E low, high \in a .. b : at = <<low, high>>
  OBVIOUS
<1>20. \A low, high \in a .. b : <<low, high>> \in S
  BY <1>1
<1>21. \A low, high \in a .. b :
         size[<<low, high>>] = IF low >= high THEN 0 ELSE high - low
  BY <1>1
<1>22. \A low, high \in a .. b : <<low, high>> \in stop <=> low >= high
  BY <1>1
<1>23. \A low, high \in a .. b : base[<<low, high>>] = low
  BY <1>1
<1>24. \A low, high \in a .. b :
         Width(text, <<a, Middle(<<low, high>>)>>) <= room =>
           next[<<low, high>>] = <<Middle(<<low, high>>), high>>
  BY <1>1
<1>25. \A low, high \in a .. b :
         ~(Width(text, <<a, Middle(<<low, high>>)>>) <= room) =>
           next[<<low, high>>] = <<low, Middle(<<low, high>>) - 1>>
  BY <1>1
<1>26. \A low, high \in a .. b :
         low < high => \E m \in a .. b : /\ m = Middle(<<low, high>>) /\ m - 1 \in a .. b
                                         /\ low < m /\ m <= high
  BY <1>1
<1> HIDE DEF S, stop, base, next, size
<1>3. /\ \A at \in S : size[at] \in Nat /\ size[at] < b - a + 1
      /\ \A at \in S \ stop : next[at] \in S /\ size[next[at]] < size[at]
  <2>1. ASSUME NEW low \in a .. b, NEW high \in a .. b
        PROVE  /\ size[<<low, high>>] \in Nat /\ size[<<low, high>>] < b - a + 1
               /\ <<low, high>> \notin stop =>
                    /\ next[<<low, high>>] \in S
                    /\ size[next[<<low, high>>]] < size[<<low, high>>]
    <3>1. size[<<low, high>>] \in Nat /\ size[<<low, high>>] < b - a + 1
      BY <1>21
    <3>2. ASSUME low < high
          PROVE  /\ next[<<low, high>>] \in S
                 /\ size[next[<<low, high>>]] < size[<<low, high>>]
      <4>1. PICK m \in a .. b : /\ m = Middle(<<low, high>>) /\ m - 1 \in a .. b
                                /\ low < m /\ m <= high
        BY <1>26, <3>2
      <4>2. /\ <<m, high>> \in S /\ size[<<m, high>>] < size[<<low, high>>]
            /\ <<low, m - 1>> \in S /\ size[<<low, m - 1>>] < size[<<low, high>>]
        BY <1>20, <1>21, <3>2, <4>1
      <4>3. next[<<low, high>>] \in {<<m, high>>, <<low, m - 1>>}
        BY <1>24, <1>25, <4>1
      <4>4. QED BY <4>2, <4>3
    <3>3. QED BY <1>22, <3>1, <3>2
  <2>2. QED BY <1>2, <2>1
<1>4. PICK g : Following(g, S, stop, base, FALSE, base, next)
  <2>1. PICK most \in Nat : most = b - a + 1
    OBVIOUS
  <2>2. \A at \in S : size[at] \in Nat /\ size[at] < most
    BY <1>3, <2>1
  <2>3. QED BY <1>3, <2>2, FollowingExists
<1>5. \A f : Searching(text, <<a, b>>, room, f) <=>
             Following(f, S, stop, base, FALSE, base, next)
  <2>1. SUFFICES ASSUME NEW f
                 PROVE  Searching(text, <<a, b>>, room, f) <=>
                        Following(f, S, stop, base, FALSE, base, next)
    OBVIOUS
  <2>2. \A at \in S :
          (IF at[1] >= at[2] THEN at[1]
           ELSE IF Width(text, <<a, Middle(at)>>) <= room
                THEN f[<<Middle(at), at[2]>>] ELSE f[<<at[1], Middle(at) - 1>>])
          = IF at \in stop THEN base[at] ELSE Onward(FALSE, base[at], f[next[at]])
    <3>1. \A at \in S : Onward(FALSE, base[at], f[next[at]]) = f[next[at]]
      BY DEF Onward
    <3>2. QED BY <3>1 DEF stop, base, next
  <2>3. Searching(text, <<a, b>>, room, f) <=>
          f = [at \in S |-> IF at[1] >= at[2] THEN at[1]
                            ELSE IF Width(text, <<a, Middle(at)>>) <= room
                                 THEN f[<<Middle(at), at[2]>>]
                                 ELSE f[<<at[1], Middle(at) - 1>>]]
    BY DEF Searching, S
  <2>4. QED BY <2>2, <2>3 DEF Following
<1>6. PICK f : /\ Following(f, S, stop, base, FALSE, base, next)
               /\ Fitting(text, <<a, b>>, room) = f[<<a, b>>]
  <2>1. PICK f : f = CHOOSE h : Searching(text, <<a, b>>, room, h)
    OBVIOUS
  <2>2. Searching(text, <<a, b>>, room, g)
    BY <1>4, <1>5
  <2>3. Searching(text, <<a, b>>, room, f)
    BY <2>1, <2>2
  <2>4. QED BY <1>5, <2>1, <2>3, FittingSearches
<1>7. \A at \in S : f[at] = IF at \in stop THEN base[at] ELSE f[next[at]]
  BY <1>6 DEF Following, Onward
<1> DEFINE Starts(low, high) ==
             /\ low <= high
             /\ Width(text, <<a, a>>) <= room =>
                  /\ Width(text, <<a, low>>) <= room
                  /\ high = b \/ ~(Width(text, <<a, high + 1>>) <= room)
           Ends(r) ==
             /\ r \in a .. b
             /\ Width(text, <<a, a>>) <= room =>
                  /\ Width(text, <<a, r>>) <= room
                  /\ r = b \/ ~(Width(text, <<a, r + 1>>) <= room)
           Bad == {n \in Nat : \E low, high \in a .. b :
                     /\ Starts(low, high) /\ size[<<low, high>>] = n
                     /\ ~Ends(f[<<low, high>>])}
<1>8. Bad = {}
  <2>1. SUFFICES ASSUME Bad # {} PROVE FALSE
    OBVIOUS
  <2>2. PICK n \in Bad : \A m \in Bad : n <= m
    <3>1. Bad \subseteq Nat
      OBVIOUS
    <3> HIDE DEF Bad
    <3>2. QED BY <2>1, <3>1, LeastNatural
  <2>3. PICK low \in a .. b, high \in a .. b :
          Starts(low, high) /\ size[<<low, high>>] = n /\ ~Ends(f[<<low, high>>])
    OBVIOUS
  <2>4. ASSUME NEW x \in a .. b, NEW y \in a .. b, Starts(x, y),
               size[<<x, y>>] < size[<<low, high>>]
        PROVE  Ends(f[<<x, y>>])
    <3>1. SUFFICES ASSUME ~Ends(f[<<x, y>>]) PROVE FALSE
      OBVIOUS
    <3>2. size[<<x, y>>] \in Nat
      BY <1>21
    <3>3. size[<<x, y>>] \in Bad
      BY <2>4, <3>1, <3>2
    <3>4. n \in Nat /\ n <= size[<<x, y>>]
      BY <2>2, <3>3
    <3>5. QED BY <2>3, <2>4, <3>2, <3>4
  <2> HIDE DEF Bad
  <2>5. CASE low >= high
    <3>1. low = high /\ f[<<low, high>>] = low
      BY <1>20, <1>22, <1>23, <1>7, <2>3, <2>5
    <3>2. QED BY <2>3, <3>1
  <2>6. CASE low < high
    <3>1. PICK m \in a .. b : /\ m = Middle(<<low, high>>) /\ m - 1 \in a .. b
                              /\ low < m /\ m <= high
      BY <1>26, <2>6
    <3>2. f[<<low, high>>] = f[next[<<low, high>>]]
      BY <1>20, <1>22, <1>7, <2>6
    <3>3. CASE Width(text, <<a, m>>) <= room
      <4>1. next[<<low, high>>] = <<m, high>>
        BY <1>24, <3>1, <3>3
      <4>2. size[<<m, high>>] < size[<<low, high>>]
        BY <1>21, <2>6, <3>1
      <4>3. Starts(m, high)
        BY <2>3, <3>1, <3>3
      <4>4. Ends(f[<<m, high>>])
        BY <2>4, <4>2, <4>3
      <4>5. QED BY <2>3, <3>2, <4>1, <4>4
    <3>4. CASE ~(Width(text, <<a, m>>) <= room)
      <4>1. next[<<low, high>>] = <<low, m - 1>>
        BY <1>25, <3>1, <3>4
      <4>2. size[<<low, m - 1>>] < size[<<low, high>>]
        BY <1>21, <2>6, <3>1
      <4>3. (m - 1) + 1 = m
        OBVIOUS
      <4>4. Starts(low, m - 1)
        BY <2>3, <3>1, <3>4, <4>3
      <4>5. Ends(f[<<low, m - 1>>])
        BY <2>4, <3>1, <4>2, <4>4
      <4>6. QED BY <2>3, <3>2, <4>1, <4>5
    <3>5. QED BY <3>3, <3>4
  <2>7. QED BY <2>5, <2>6
<1>9. Starts(a, b)
  OBVIOUS
<1>10. Ends(f[<<a, b>>])
  <2>1. SUFFICES ASSUME ~Ends(f[<<a, b>>]) PROVE FALSE
    OBVIOUS
  <2>2. a \in a .. b /\ b \in a .. b
    OBVIOUS
  <2>3. size[<<a, b>>] \in Nat
    BY <1>21, <2>2
  <2>4. size[<<a, b>>] \in Bad
    BY <1>9, <2>1, <2>2, <2>3
  <2>5. QED BY <1>8, <2>4
<1>11. QED BY <1>6, <1>10

\* Where a text lies whose positions are to be broken into lines: it ends with
\* its last letter.
EndsWith(text, to) ==
  /\ to \in Letters(text)
  /\ \A k \in Letters(text) : k <= to

\* Letters are positions.
LEMMA LettersArePositions ==
  ASSUME NEW text \in Text
  PROVE  /\ Len(text) \in Nat
         /\ Letters(text) \subseteq 1 .. Len(text)
         /\ \A k \in 1 .. Len(text) : k \in Letters(text) <=> text[k] # Space
BY DEF Letters, Text

\* The letters before a place have a greatest.
LEMMA LetterBefore ==
  ASSUME NEW text \in Text, NEW s \in Int, NEW x \in Letters(text), x < s
  PROVE  LET m == Max({k \in Letters(text) : k < s})
         IN m \in Letters(text) /\ m < s /\ \A k \in Letters(text) : k < s => k <= m
<1> DEFINE T == {k \in Letters(text) : k < s}
<1>1. PICK n \in Nat : n = Len(text) /\ Letters(text) \subseteq 1 .. n
  BY LettersArePositions
<1>2. T \subseteq 0 .. n /\ T # {}
  BY <1>1
<1>3. \E m \in T : \A y \in T : y <= m
  <2> HIDE DEF T
  <2>1. QED BY <1>2, GreatestNatural
<1>4. Max(T) \in T /\ \A y \in T : y <= Max(T)
  <2> HIDE DEF T
  <2>1. QED BY <1>3 DEF Max
<1>5. QED BY <1>4

\* The letters after a place have a least.
LEMMA LetterAfter ==
  ASSUME NEW text \in Text, NEW s \in Int, NEW y \in Letters(text), s < y
  PROVE  LET m == Min({k \in Letters(text) : k > s})
         IN m \in Letters(text) /\ s < m /\ \A k \in Letters(text) : k > s => m <= k
<1> DEFINE T == {k \in Letters(text) : k > s}
<1>1. PICK n \in Nat : n = Len(text) /\ Letters(text) \subseteq 1 .. n
  BY LettersArePositions
<1>2. T \subseteq Nat /\ T # {}
  BY <1>1
<1>3. \E m \in T : \A k \in T : m <= k
  <2> HIDE DEF T
  <2>1. QED BY <1>2, LeastNatural
<1>4. Min(T) \in T /\ \A k \in T : Min(T) <= k
  <2> HIDE DEF T
  <2>1. QED BY <1>3 DEF Min
<1>5. QED BY <1>4

\* One turn of the loop, from a letter of a text that does not fit: the next
\* line begins at a letter, this one fits and holds all letters before that,
\* and no word that fits is divided between them.
LEMMA BreakDivides ==
  ASSUME NEW text \in Text, NEW room \in Int,
         \A c \in DOMAIN CharWidth : CharWidth[c] <= room,
         NEW to, EndsWith(text, to),
         NEW x \in Letters(text), ~(Width(text, <<x, to>>) <= room)
  PROVE  \E last, next \in Nat :
           /\ Break(text, <<x, to>>, room) = [line |-> <<x, last>>, next |-> next]
           /\ next \in Letters(text) /\ x < next /\ next <= to
           /\ x <= last /\ last < next
           /\ Width(text, <<x, last>>) <= room
           /\ \A k \in Letters(text) : k < next => k <= last
           /\ \A word \in Words(text) :
                x <= word[1] /\ Width(text, word) <= room =>
                  word[2] <= last \/ next <= word[1]
<1> DEFINE low == Fitting(text, <<x, to>>, room)
           reach == {k \in x + 1 .. to : text[k] = Space /\ k <= low + 1}
<1>1. PICK n \in Nat : /\ n = Len(text) /\ Letters(text) \subseteq 1 .. n
                       /\ \A k \in 1 .. n : k \in Letters(text) <=> text[k] # Space
  BY LettersArePositions
<1>2. /\ x \in 1 .. n /\ to \in 1 .. n /\ x <= to /\ text[x] # Space
      /\ \A k \in Letters(text) : k <= to
  BY <1>1 DEF EndsWith
<1>3. Width(text, <<x, x>>) <= room
  <2>1. Width(text, <<x, x>>) = CharWidth[text[x]]
    BY <1>1, <1>2, WidthOfOne
  <2>2. text[x] \in DOMAIN CharWidth
    BY <1>1, <1>2 DEF Text
  <2>3. QED BY <2>1, <2>2
<1>4. /\ low \in x .. to /\ Width(text, <<x, low>>) <= room
      /\ low = to \/ ~(Width(text, <<x, low + 1>>) <= room)
  <2>1. x \in Nat /\ to \in Nat
    BY <1>2
  <2>2. QED BY <1>2, <1>3, <2>1, FittingFits
<1>5. low < to
  BY <1>2, <1>4
<1>6. Break(text, <<x, to>>, room)
        = IF reach # {}
          THEN [line |-> <<x, Max({k \in Letters(text) : k < Max(reach)})>>,
                next |-> Min({k \in Letters(text) : k > Max(reach)})]
          ELSE [line |-> <<x, low>>, next |-> low + 1]
  BY DEF Break
<1>7. \A word \in Words(text) :
        /\ word[1] \in Letters(text) /\ word[2] \in Letters(text) /\ word[1] <= word[2]
        /\ \A k \in word[1] .. word[2] : text[k] # Space
        /\ word[1] = 1 \/ text[word[1] - 1] = Space
        /\ word = <<word[1], word[2]>>
  BY <1>1 DEF Words, Text, Letters
<1>8. CASE reach = {}
  <2>1. \A k \in x .. low + 1 : text[k] # Space
    <3> HIDE DEF low
    <3>1. QED BY <1>2, <1>4, <1>5, <1>8
  <2>2. PICK last \in Nat : last = low
    BY <1>2, <1>4
  <2> HIDE DEF low, reach
  <2>3. PICK next \in Nat : next = last + 1
    BY <2>2
  <2>4. Break(text, <<x, to>>, room) = [line |-> <<x, last>>, next |-> next]
    BY <1>6, <1>8, <2>2, <2>3
  <2>5. next \in Letters(text) /\ x < next /\ next <= to
    BY <1>1, <1>2, <1>4, <1>5, <2>1, <2>2, <2>3
  <2>6. x <= last /\ last < next /\ Width(text, <<x, last>>) <= room
    BY <1>2, <1>4, <2>2, <2>3
  <2>7. \A k \in Letters(text) : k < next => k <= last
    BY <1>1, <2>3
  <2>8. ASSUME NEW word \in Words(text), x <= word[1], Width(text, word) <= room
        PROVE  word[2] <= last \/ next <= word[1]
    <3>1. SUFFICES ASSUME ~(word[2] <= last), ~(next <= word[1]) PROVE FALSE
      OBVIOUS
    <3>2. PICK i \in 1 .. n, j \in 1 .. n :
            /\ i = word[1] /\ j = word[2] /\ word = <<i, j>>
            /\ i = 1 \/ text[i - 1] = Space
      BY <1>1, <1>7
    <3>3. x <= i /\ i <= last /\ next <= j
      BY <2>3, <2>8, <3>1, <3>2
    <3>4. i = x
      <4>1. SUFFICES ASSUME i # x PROVE FALSE
        OBVIOUS
      <4>2. i # 1 /\ i - 1 \in x .. low + 1
        BY <1>2, <2>2, <3>3, <4>1
      <4>3. QED BY <2>1, <3>2, <4>2
    <3>5. Width(text, <<x, next>>) <= Width(text, <<i, j>>)
      BY <1>1, <1>2, <3>2, <3>3, <3>4, WidthGrows
    <3>6. ~(Width(text, <<x, next>>) <= room)
      BY <1>4, <1>5, <2>2, <2>3
    <3>7. Width(text, <<x, next>>) \in Nat /\ Width(text, <<i, j>>) \in Nat
      <4>1. x \in Int /\ 1 <= x /\ next \in Int /\ next <= Len(text)
        BY <1>1, <1>2, <2>5
      <4>2. Width(text, <<x, next>>) \in Nat
        BY <4>1, WidthTyped
      <4>3. i \in Int /\ 1 <= i /\ j \in Int /\ j <= Len(text)
        BY <1>1
      <4>4. Width(text, <<i, j>>) \in Nat
        BY <4>3, WidthTyped
      <4>5. QED BY <4>2, <4>4
    <3>8. Width(text, <<i, j>>) <= room
      BY <2>8, <3>2
    <3>9. QED BY <3>5, <3>6, <3>7, <3>8
  <2>9. QED BY <2>4, <2>5, <2>6, <2>7, <2>8
<1>9. CASE reach # {}
  <2>1. PICK s : s = Max(reach)
    OBVIOUS
  <2>2. s \in reach
    <3>1. reach \subseteq 0 .. n
      BY <1>1, <1>2
    <3>2. \E m \in reach : \A y \in reach : y <= m
      <4> HIDE DEF reach
      <4>1. QED BY <1>9, <3>1, GreatestNatural
    <3>3. QED BY <2>1, <3>2 DEF Max
  <2>3. /\ s \in 1 .. n /\ x < s /\ s < to /\ s <= low + 1 /\ text[s] = Space
        /\ s \notin Letters(text)
    <3>1. s \in x + 1 .. to /\ text[s] = Space /\ s <= low + 1
      BY <2>2
    <3>2. s \in 1 .. n /\ s \notin Letters(text)
      BY <1>1, <1>2, <3>1
    <3>3. QED BY <1>2, <3>1, <3>2 DEF EndsWith
  <2> HIDE DEF low, reach
  <2>4. PICK last : /\ last = Max({k \in Letters(text) : k < s})
                    /\ last \in Letters(text) /\ last < s
                    /\ \A k \in Letters(text) : k < s => k <= last
    <3>1. s \in Int
      BY <2>3
    <3>2. LET m == Max({k \in Letters(text) : k < s})
          IN m \in Letters(text) /\ m < s /\ \A k \in Letters(text) : k < s => k <= m
      BY <2>3, <3>1, LetterBefore
    <3>3. QED BY <3>2
  <2>5. PICK next : /\ next = Min({k \in Letters(text) : k > s})
                    /\ next \in Letters(text) /\ s < next
                    /\ \A k \in Letters(text) : k > s => next <= k
    BY <2>3, LetterAfter DEF EndsWith
  <2>6. Break(text, <<x, to>>, room) = [line |-> <<x, last>>, next |-> next]
    BY <1>6, <1>9, <2>1, <2>4, <2>5
  <2>7. last \in Nat /\ next \in Nat /\ last \in 1 .. n
    BY <1>1, <2>4, <2>5
  <2>8. x < next /\ next <= to /\ x <= last /\ last < next /\ last <= low
    BY <1>2, <1>4, <2>3, <2>4, <2>5, <2>7
  <2>9. Width(text, <<x, last>>) <= room
    <3>1. Width(text, <<x, last>>) <= Width(text, <<x, low>>)
      BY <1>1, <1>2, <1>4, <2>7, <2>8, WidthGrows
    <3>2. Width(text, <<x, last>>) \in Nat /\ Width(text, <<x, low>>) \in Nat
      <4>1. x \in Int /\ 1 <= x /\ last \in Int /\ last <= Len(text)
        BY <1>1, <1>2, <2>7
      <4>2. low \in Int /\ low <= Len(text)
        BY <1>1, <1>2, <1>4
      <4>3. Width(text, <<x, last>>) \in Nat
        BY <4>1, WidthTyped
      <4>4. Width(text, <<x, low>>) \in Nat
        BY <4>1, <4>2, WidthTyped
      <4>5. QED BY <4>3, <4>4
    <3>3. QED BY <1>4, <3>1, <3>2
  <2>10. \A k \in Letters(text) : k < next => k <= last
    BY <1>1, <2>3, <2>4, <2>5, <2>7
  <2>11. ASSUME NEW word \in Words(text)
         PROVE  word[2] <= last \/ next <= word[1]
    <3>1. PICK i \in Letters(text), j \in Letters(text) :
            /\ i = word[1] /\ j = word[2]
            /\ \A k \in i .. j : text[k] # Space
      BY <1>7
    <3>2. i \in Nat /\ j \in Nat
      BY <1>1
    <3>3. ~(i <= s /\ s <= j)
      BY <2>3, <3>1, <3>2
    <3>4. CASE s < i
      BY <2>5, <3>1, <3>4
    <3>5. CASE j < s
      BY <2>4, <3>1, <3>5
    <3>6. QED BY <2>3, <3>2, <3>3, <3>4, <3>5
  <2>12. QED BY <2>4, <2>5, <2>6, <2>7, <2>8, <2>9, <2>10, <2>11
<1>10. QED BY <1>8, <1>9

(***************************************************************************)
(* The loop: what Kept says of the lines, from a position on.              *)
(***************************************************************************)
Within(lines, from, upto) ==
  \E i \in 1 .. Len(lines) : lines[i][1] <= from /\ upto <= lines[i][2]

KeptFrom(text, room, x, lines) ==
  /\ lines \in Seq(Nat \X Nat)
  /\ \A i \in 1 .. Len(lines) : Width(text, lines[i]) <= room /\ x <= lines[i][1]
  /\ \A i \in 1 .. Len(lines) : i # 1 => lines[i - 1][2] < lines[i][1]
  /\ \A k \in Letters(text) : x <= k => Within(lines, k, k)
  /\ \A word \in Words(text) :
       x <= word[1] /\ Width(text, word) <= room => Within(lines, word[1], word[2])

\* A line before others.
LEMMA Joined ==
  ASSUME NEW lines \in Seq(Nat \X Nat), NEW x \in Nat, NEW last \in Nat
  PROVE  \E all :
           /\ all = << <<x, last>> >> \o lines
           /\ all \in Seq(Nat \X Nat) /\ Len(all) = Len(lines) + 1
           /\ all[1] = <<x, last>>
           /\ \A i \in 1 .. Len(lines) : all[i + 1] = lines[i]
           /\ \A i \in 1 .. Len(all) : i # 1 => i - 1 \in 1 .. Len(lines) /\ all[i] = lines[i - 1]
<1>1. PICK Spans : Spans = Nat \X Nat
  OBVIOUS
<1>2. PICK one : one = << <<x, last>> >>
  OBVIOUS
<1>3. one \in Seq(Spans) /\ Len(one) = 1 /\ one[1] = <<x, last>> /\ lines \in Seq(Spans)
  BY <1>1, <1>2
<1>4. PICK all : all = one \o lines
  OBVIOUS
<1>5. /\ all \in Seq(Spans) /\ Len(all) = 1 + Len(lines)
      /\ \A i \in 1 .. 1 + Len(lines) : all[i] = IF i <= 1 THEN one[i] ELSE lines[i - 1]
  <2>1. /\ one \o lines \in Seq(Spans)
        /\ Len(one \o lines) = Len(one) + Len(lines)
        /\ \A i \in 1 .. Len(one) + Len(lines) :
             (one \o lines)[i] = IF i <= Len(one) THEN one[i] ELSE lines[i - Len(one)]
    BY <1>3, ConcatProperties
  <2>2. QED BY <1>3, <1>4, <2>1
<1>6. Len(lines) \in Nat
  OBVIOUS
<1>7. all[1] = <<x, last>>
  BY <1>3, <1>5, <1>6
<1>8. \A i \in 1 .. Len(lines) : all[i + 1] = lines[i]
  <2>1. SUFFICES ASSUME NEW i \in 1 .. Len(lines) PROVE all[i + 1] = lines[i]
    OBVIOUS
  <2>2. i + 1 \in 1 .. 1 + Len(lines) /\ ~(i + 1 <= 1) /\ (i + 1) - 1 = i
    BY <1>6
  <2>3. all[i + 1] = lines[(i + 1) - 1]
    BY <1>5, <2>2
  <2>4. QED BY <2>2, <2>3
<1>9. \A i \in 1 .. Len(all) : i # 1 => i - 1 \in 1 .. Len(lines) /\ all[i] = lines[i - 1]
  BY <1>5, <1>6
<1>10. Len(all) = Len(lines) + 1
  BY <1>5, <1>6
<1>11. all = << <<x, last>> >> \o lines /\ all \in Seq(Nat \X Nat)
  BY <1>1, <1>2, <1>4, <1>5
<1>12. QED BY <1>7, <1>8, <1>9, <1>10, <1>11

\* What held from the next line on holds from this one on.
LEMMA LineBefore ==
  ASSUME NEW text \in Text, NEW room \in Int, NEW x \in Nat, NEW last \in Nat, NEW next \in Nat,
         x <= last, last < next, Width(text, <<x, last>>) <= room,
         \A k \in Letters(text) : k < next => k <= last,
         \A word \in Words(text) :
           x <= word[1] /\ Width(text, word) <= room => word[2] <= last \/ next <= word[1],
         NEW lines, KeptFrom(text, room, next, lines)
  PROVE  KeptFrom(text, room, x, << <<x, last>> >> \o lines)
<1>1. lines \in Seq(Nat \X Nat) /\ Len(lines) \in Nat
  BY DEF KeptFrom
<1>2. PICK all :
        /\ all = << <<x, last>> >> \o lines
        /\ all \in Seq(Nat \X Nat) /\ Len(all) = Len(lines) + 1
        /\ all[1] = <<x, last>>
        /\ \A i \in 1 .. Len(lines) : all[i + 1] = lines[i]
        /\ \A i \in 1 .. Len(all) : i # 1 => i - 1 \in 1 .. Len(lines) /\ all[i] = lines[i - 1]
  BY <1>1, Joined, ZenonT(30)
<1>3. 1 \in 1 .. Len(all) /\ all[1][1] = x /\ all[1][2] = last
  BY <1>1, <1>2
<1>4. ASSUME NEW i \in 1 .. Len(all) PROVE Width(text, all[i]) <= room /\ x <= all[i][1]
  <2>1. CASE i = 1
    BY <1>2, <2>1
  <2>2. CASE i # 1
    <3>1. PICK j \in 1 .. Len(lines) : all[i] = lines[j]
      BY <1>2, <2>2
    <3>2. Width(text, lines[j]) <= room /\ next <= lines[j][1]
      BY DEF KeptFrom
    <3>3. lines[j][1] \in Nat
      BY <1>1, SMTT(30)
    <3>4. QED BY <3>1, <3>2, <3>3
  <2>3. QED BY <2>1, <2>2
<1>5. ASSUME NEW i \in 1 .. Len(all), i # 1 PROVE all[i - 1][2] < all[i][1]
  <2>1. PICK j \in 1 .. Len(lines) : j = i - 1 /\ all[i] = lines[j] /\ all[j] = all[i - 1]
    BY <1>2, <1>5
  <2>2. next <= lines[j][1] /\ lines[j][1] \in Nat
    BY <1>1 DEF KeptFrom
  <2>3. CASE j = 1
    BY <1>3, <2>1, <2>2, <2>3
  <2>4. CASE j # 1
    <3>1. j \in 1 .. Len(all)
      BY <1>1, <1>2
    <3>2. all[j] = lines[j - 1]
      BY <1>2, <2>4, <3>1
    <3>3. lines[j - 1][2] < lines[j][1]
      BY <2>4 DEF KeptFrom
    <3>4. QED BY <2>1, <3>2, <3>3
  <2>5. QED BY <2>3, <2>4
<1>6. ASSUME NEW from, NEW upto, Within(lines, from, upto) PROVE Within(all, from, upto)
  <2>1. PICK j \in 1 .. Len(lines) : lines[j][1] <= from /\ upto <= lines[j][2]
    BY <1>6 DEF Within
  <2>2. j + 1 \in 1 .. Len(all) /\ all[j + 1] = lines[j]
    BY <1>1, <1>2
  <2>3. QED BY <2>1, <2>2 DEF Within
<1>7. ASSUME NEW k \in Letters(text), x <= k PROVE Within(all, k, k)
  <2>1. k \in Nat
    BY LettersArePositions
  <2>2. CASE k <= last
    BY <1>3, <1>7, <2>2 DEF Within
  <2>3. CASE next <= k
    BY <1>6, <2>3 DEF KeptFrom
  <2>4. QED BY <2>1, <2>2, <2>3
<1>8. ASSUME NEW word \in Words(text), x <= word[1], Width(text, word) <= room
      PROVE  Within(all, word[1], word[2])
  <2>1. CASE word[2] <= last
    BY <1>3, <1>8, <2>1 DEF Within
  <2>2. CASE next <= word[1]
    BY <1>6, <1>8, <2>2 DEF KeptFrom
  <2>3. QED BY <1>8, <2>1, <2>2
<1>9. KeptFrom(text, room, x, all)
  BY <1>2, <1>4, <1>5, <1>7, <1>8 DEF KeptFrom
<1>10. QED BY <1>2, <1>9

\* What fits is one line.
LEMMA OneLine ==
  ASSUME NEW text \in Text, NEW room \in Int, NEW to, EndsWith(text, to),
         NEW x \in Nat, Width(text, <<x, to>>) <= room
  PROVE  KeptFrom(text, room, x, << <<x, to>> >>)
<1>1. to \in Nat /\ \A k \in Letters(text) : k \in Nat /\ k <= to
  BY LettersArePositions DEF EndsWith
<1>2. PICK lines : lines = << <<x, to>> >>
  OBVIOUS
<1>3. /\ lines \in Seq(Nat \X Nat) /\ Len(lines) = 1
      /\ lines[1] = <<x, to>> /\ lines[1][1] = x /\ lines[1][2] = to
  BY <1>1, <1>2
<1>4. \A i \in 1 .. Len(lines) : i = 1
  BY <1>3
<1>5. \A k \in Letters(text) : x <= k => Within(lines, k, k)
  BY <1>1, <1>3 DEF Within
<1>6. \A word \in Words(text) : word[2] \in Letters(text)
  BY DEF Words, Letters, Text
<1>7. \A word \in Words(text) : x <= word[1] => Within(lines, word[1], word[2])
  BY <1>1, <1>3, <1>6 DEF Within
<1>8. KeptFrom(text, room, x, lines)
  BY <1>3, <1>4, <1>5, <1>7 DEF KeptFrom
<1>9. QED BY <1>2, <1>8

\* Wrapped, as a function that need only exist.
Wrapping(text, stripped, room, f) ==
  f = [k \in stripped[1] .. stripped[2] + 1 |->
         IF Width(text, <<k, stripped[2]>>) <= room THEN << <<k, stripped[2]>> >>
         ELSE <<Break(text, <<k, stripped[2]>>, room).line>>
                \o f[Break(text, <<k, stripped[2]>>, room).next]]

\* The function Wrapped chooses is one that Wrapping describes, if any is.
LEMMA WrappedWraps ==
  ASSUME NEW text, NEW stripped, NEW room
  PROVE  Wrapped(text, stripped, room)
           = (CHOOSE f : Wrapping(text, stripped, room, f))[stripped[1]]
BY DEF Wrapped, Wrapping

\* Every turn of the loop goes on, even from a space.
LEMMA BreakGoesOn ==
  ASSUME NEW text \in Text, NEW room \in Int,
         NEW to, EndsWith(text, to),
         NEW x \in 1 .. to, ~(Width(text, <<x, to>>) <= room),
         \A c \in DOMAIN CharWidth : CharWidth[c] <= room
  PROVE  Break(text, <<x, to>>, room).next \in x + 1 .. to
<1> DEFINE low == Fitting(text, <<x, to>>, room)
           reach == {k \in x + 1 .. to : text[k] = Space /\ k <= low + 1}
<1>1. PICK n \in Nat : /\ n = Len(text) /\ Letters(text) \subseteq 1 .. n
                       /\ \A k \in 1 .. n : k \in Letters(text) <=> text[k] # Space
  BY LettersArePositions
<1>2. /\ to \in 1 .. n /\ to \in Letters(text) /\ x \in 1 .. n /\ x <= to
      /\ \A k \in Letters(text) : k <= to
  BY <1>1 DEF EndsWith
<1>3. Width(text, <<x, x>>) <= room
  <2>1. Width(text, <<x, x>>) = CharWidth[text[x]]
    BY <1>1, <1>2, WidthOfOne
  <2>2. text[x] \in DOMAIN CharWidth
    BY <1>1, <1>2 DEF Text
  <2>3. QED BY <2>1, <2>2
<1>4. low \in x .. to /\ Width(text, <<x, low>>) <= room
  <2>1. x \in Nat /\ to \in Nat
    BY <1>2
  <2>2. QED BY <1>2, <1>3, <2>1, FittingFits
<1>5. low < to
  BY <1>2, <1>4
<1>6. CASE reach = {}
  <2>1. Break(text, <<x, to>>, room) = [line |-> <<x, low>>, next |-> low + 1]
    BY <1>6 DEF Break
  <2> HIDE DEF low, reach
  <2>2. QED BY <1>2, <1>4, <1>5, <2>1
<1>7. CASE reach # {}
  <2>1. PICK s : s = Max(reach)
    OBVIOUS
  <2>2. s \in reach
    <3>1. reach \subseteq 0 .. n
      BY <1>1, <1>2
    <3>2. \E m \in reach : \A y \in reach : y <= m
      <4> HIDE DEF reach
      <4>1. QED BY <1>7, <3>1, GreatestNatural
    <3>3. QED BY <2>1, <3>2 DEF Max
  <2>3. s \in Nat /\ x < s /\ s < to
    <3>1. s \in x + 1 .. to /\ text[s] = Space
      BY <2>2
    <3>2. s # to
      BY <1>1, <1>2, <3>1
    <3>3. QED BY <1>2, <3>1, <3>2
  <2>4. PICK next : /\ next = Min({k \in Letters(text) : k > s})
                    /\ next \in Letters(text) /\ s < next
    <3>1. s \in Int
      BY <2>3
    <3>2. LET m == Min({k \in Letters(text) : k > s})
          IN m \in Letters(text) /\ s < m /\ \A k \in Letters(text) : k > s => m <= k
      BY <1>2, <2>3, <3>1, LetterAfter
    <3>3. QED BY <3>2
  <2>5. Break(text, <<x, to>>, room).next = next
    BY <1>7, <2>1, <2>4 DEF Break
  <2>6. QED BY <1>1, <1>2, <2>3, <2>4, <2>5
<1>8. QED BY <1>6, <1>7

\* The lines of what remains, for every letter it may begin with.
LEMMA WrappedKeeps ==
  ASSUME NEW text \in Text, NEW room \in Int,
         \A c \in DOMAIN CharWidth : CharWidth[c] <= room,
         NEW to, EndsWith(text, to), NEW first \in Letters(text)
  PROVE  KeptFrom(text, room, first, Wrapped(text, <<first, to>>, room))
<1>1. PICK n \in Nat : n = Len(text) /\ Letters(text) \subseteq 1 .. n
  BY LettersArePositions
<1>2. /\ first \in 1 .. n /\ to \in 1 .. n /\ first <= to
      /\ \A k \in Letters(text) : k <= to
  BY <1>1 DEF EndsWith
<1> DEFINE S == first .. to + 1
           stop == {k \in S : Width(text, <<k, to>>) <= room}
           base == [k \in S |-> << <<k, to>> >>]
           line == [k \in S |-> Break(text, <<k, to>>, room).line]
           next == [k \in S |-> Break(text, <<k, to>>, room).next]
           size == [k \in S |-> to + 1 - k]
<1>3. to + 1 \in stop
  <2>1. /\ to + 1 \in Int /\ to \in Int /\ to <= to + 1 /\ to <= to /\ 1 <= to
        /\ to <= Len(text) /\ 1 <= to + 1 /\ to + 1 \in S
    BY <1>1, <1>2
  <2>2. Width(text, <<to + 1, to>>) <= Width(text, <<to, to>>)
    BY <2>1, WidthGrows
  <2>3. Width(text, <<to + 1, to>>) \in Nat
    BY <2>1, WidthTyped
  <2>4. Width(text, <<to, to>>) \in Nat
    BY <2>1, WidthTyped
  <2>5. Width(text, <<to, to>>) = CharWidth[text[to]]
    BY <1>1, <1>2, WidthOfOne
  <2>6. text[to] \in DOMAIN CharWidth
    BY <1>1, <1>2 DEF Text
  <2>7. Width(text, <<to, to>>) <= room
    BY <2>5, <2>6
  <2>8. Width(text, <<to + 1, to>>) <= room
    BY <2>2, <2>3, <2>4, <2>7
  <2>9. QED BY <2>1, <2>8
<1>4. /\ \A k \in S : size[k] \in Nat /\ size[k] < to + 1
      /\ \A k \in S \ stop : /\ k \in 1 .. to /\ next[k] \in S
                             /\ size[next[k]] < size[k]
  <2>1. \A k \in S : size[k] \in Nat /\ size[k] < to + 1
    BY <1>2
  <2>2. ASSUME NEW k \in S \ stop
        PROVE  k \in 1 .. to /\ next[k] \in S /\ size[next[k]] < size[k]
    <3>1. k \in 1 .. to /\ ~(Width(text, <<k, to>>) <= room)
      BY <1>2, <1>3
    <3>2. PICK m : m = Break(text, <<k, to>>, room).next
      OBVIOUS
    <3>3. m \in k + 1 .. to
      BY <3>1, <3>2, BreakGoesOn
    <3>4. next[k] = m /\ m \in S /\ size[m] = to + 1 - m /\ size[k] = to + 1 - k
      BY <1>2, <3>1, <3>2, <3>3, SMTT(30)
    <3>5. QED BY <1>2, <3>1, <3>3, <3>4
  <2>3. QED BY <2>1, <2>2
<1>5. \A f : Wrapping(text, <<first, to>>, room, f) <=>
             Following(f, S, stop, base, TRUE, line, next)
  BY DEF Wrapping, Following, Onward
<1> HIDE DEF stop, base, line, next, size
<1>6. \E g : Following(g, S, stop, base, TRUE, line, next)
  <2>1. PICK most \in Nat : most = to + 1
    BY <1>2
  <2>2. \A k \in S : size[k] \in Nat /\ size[k] < most
    BY <1>4, <2>1
  <2> HIDE DEF S
  <2>3. QED BY <1>4, <2>2, FollowingExists
<1>7. PICK f : /\ Following(f, S, stop, base, TRUE, line, next)
               /\ Wrapped(text, <<first, to>>, room) = f[first]
  <2>1. PICK f : f = CHOOSE h : Wrapping(text, <<first, to>>, room, h)
    OBVIOUS
  <2>2. Wrapping(text, <<first, to>>, room, f)
    BY <1>5, <1>6, <2>1
  <2>3. Wrapped(text, <<first, to>>, room) = f[first]
    BY <2>1, WrappedWraps
  <2>4. QED BY <1>5, <2>2, <2>3
<1>8. \A k \in S : f[k] = IF k \in stop THEN base[k] ELSE <<line[k]>> \o f[next[k]]
  BY <1>7 DEF Following, Onward
<1> DEFINE Bad == {m \in Nat : \E k \in S : /\ k \in Letters(text) /\ to + 1 - k = m
                                            /\ ~KeptFrom(text, room, k, f[k])}
<1>9. Bad = {}
  <2>1. SUFFICES ASSUME Bad # {} PROVE FALSE
    OBVIOUS
  <2>2. PICK m \in Bad : \A j \in Bad : m <= j
    <3>1. Bad \subseteq Nat
      OBVIOUS
    <3> HIDE DEF Bad
    <3>2. QED BY <2>1, <3>1, LeastNatural
  <2>3. PICK k \in S : /\ k \in Letters(text) /\ to + 1 - k = m
                       /\ ~KeptFrom(text, room, k, f[k])
    OBVIOUS
  <2>4. k \in Nat /\ m \in Nat /\ k \in 1 .. to
    BY <1>1, <1>2, <2>3
  <2>5. ASSUME NEW j \in Letters(text), j \in S, k < j PROVE KeptFrom(text, room, j, f[j])
    <3>1. SUFFICES ASSUME ~KeptFrom(text, room, j, f[j]) PROVE FALSE
      OBVIOUS
    <3>2. to + 1 - j \in Nat /\ to + 1 - j < m
      BY <1>2, <2>3, <2>4, <2>5
    <3>3. to + 1 - j \in Bad
      BY <2>5, <3>1, <3>2
    <3>4. QED BY <2>2, <2>4, <3>2, <3>3
  <2> HIDE DEF Bad
  <2>6. CASE k \in stop
    <3>1. f[k] = << <<k, to>> >> /\ Width(text, <<k, to>>) <= room
      BY <1>8, <2>6 DEF stop, base
    <3>2. KeptFrom(text, room, k, << <<k, to>> >>)
      BY <2>4, <3>1, OneLine
    <3>3. QED BY <2>3, <3>1, <3>2
  <2>7. CASE k \notin stop
    <3>1. ~(Width(text, <<k, to>>) <= room)
      BY <2>7 DEF stop
    <3>2. PICK last \in Nat, j \in Nat :
           /\ Break(text, <<k, to>>, room) = [line |-> <<k, last>>, next |-> j]
           /\ j \in Letters(text) /\ k < j /\ j <= to
           /\ k <= last /\ last < j
           /\ Width(text, <<k, last>>) <= room
           /\ \A i \in Letters(text) : i < j => i <= last
           /\ \A word \in Words(text) :
                k <= word[1] /\ Width(text, word) <= room =>
                  word[2] <= last \/ j <= word[1]
      BY <2>3, <3>1, BreakDivides, ZenonT(30)
    <3>3. line[k] = <<k, last>> /\ next[k] = j /\ j \in S
      BY <1>2, <3>2 DEF line, next
    <3>4. f[k] = << <<k, last>> >> \o f[j]
      BY <1>8, <2>7, <3>3
    <3>5. KeptFrom(text, room, j, f[j])
      BY <2>5, <3>2, <3>3
    <3>6. KeptFrom(text, room, k, << <<k, last>> >> \o f[j])
      BY <2>4, <3>2, <3>5, LineBefore
    <3>7. QED BY <2>3, <3>4, <3>6
  <2>8. QED BY <2>6, <2>7
<1>10. KeptFrom(text, room, first, f[first])
  <2>1. SUFFICES ASSUME ~KeptFrom(text, room, first, f[first]) PROVE FALSE
    OBVIOUS
  <2>2. first \in S /\ to + 1 - first \in Nat
    BY <1>2
  <2>3. to + 1 - first \in Bad
    BY <2>1, <2>2
  <2>4. QED BY <1>9, <2>3
<1>11. QED BY <1>7, <1>10

\* What WrapText makes of a text, when every character fits: Kept.
LEMMA WrapKeeps ==
  ASSUME NEW text \in Text, NEW room \in Nat,
         \A c \in DOMAIN CharWidth : CharWidth[c] <= room
  PROVE  Kept(text, WrapText(text, room), room)
<1>1. PICK n \in Nat : n = Len(text) /\ Letters(text) \subseteq 1 .. n
  BY LettersArePositions
<1>2. \A word \in Words(text) : /\ word[1] \in Letters(text) /\ word[2] \in Letters(text)
                                /\ word[1] <= word[2]
  BY DEF Words, Letters, Text
<1>3. CASE Letters(text) = {}
  <2>1. PICK lines : lines = << <<1, 0>> >>
    OBVIOUS
  <2>2. WrapText(text, room) = lines
    BY <1>3, <2>1 DEF WrapText
  <2>3. DOMAIN lines = {1} /\ lines[1] = <<1, 0>>
    BY <2>1
  <2>4. Width(text, <<1, 0>>) = 0
    <3> DEFINE widths == [k \in 1 .. 0 |-> CharWidth[text[k]]]
    <3>1. DOMAIN widths = {}
      OBVIOUS
    <3>2. Width(text, <<1, 0>>) = SumFunctionOnSet(widths, DOMAIN widths)
      BY DEF Width, SumFunction
    <3> HIDE DEF widths
    <3>3. QED BY <3>1, <3>2, SumOfNone
  <2>5. Words(text) = {}
    BY <1>2, <1>3
  <2>6. Kept(text, lines, room)
    BY <1>3, <2>3, <2>4, <2>5 DEF Kept
  <2>7. QED BY <2>2, <2>6
<1>4. CASE Letters(text) # {}
  <2>1. PICK first : first = Min(Letters(text))
    OBVIOUS
  <2>2. PICK to : to = Max(Letters(text))
    OBVIOUS
  <2>3. first \in Letters(text) /\ \A k \in Letters(text) : first <= k
    <3>1. Letters(text) \subseteq Nat
      BY <1>1
    <3>2. \E m \in Letters(text) : \A k \in Letters(text) : m <= k
      BY <1>4, <3>1, LeastNatural
    <3>3. QED BY <2>1, <3>2 DEF Min
  <2>4. EndsWith(text, to)
    <3>1. Letters(text) \subseteq 0 .. n
      BY <1>1
    <3>2. \E m \in Letters(text) : \A k \in Letters(text) : k <= m
      BY <1>4, <3>1, GreatestNatural
    <3>3. QED BY <2>2, <3>2 DEF Max, EndsWith
  <2>5. PICK lines : lines = Wrapped(text, <<first, to>>, room)
    OBVIOUS
  <2>6. WrapText(text, room) = lines
    <3>1. ~(room < 0)
      OBVIOUS
    <3>2. QED BY <1>4, <2>1, <2>2, <2>5, <3>1 DEF WrapText
  <2>7. KeptFrom(text, room, first, lines)
    BY <2>3, <2>4, <2>5, WrappedKeeps
  <2>8. DOMAIN lines = 1 .. Len(lines)
    BY <2>7 DEF KeptFrom
  <2>9. /\ \A k \in DOMAIN lines : Width(text, lines[k]) <= room
        /\ \A k \in DOMAIN lines : k # 1 => lines[k - 1][2] < lines[k][1]
    BY <2>7, <2>8 DEF KeptFrom
  <2>10. \A letter \in Letters(text) : Within(lines, letter, letter)
    BY <2>3, <2>7 DEF KeptFrom
  <2>11. \A word \in Words(text) :
           Width(text, word) <= room => Within(lines, word[1], word[2])
    BY <1>2, <2>3, <2>7 DEF KeptFrom
  <2>12. Kept(text, lines, room)
    BY <2>8, <2>9, <2>10, <2>11 DEF Kept, Within
  <2>13. QED BY <2>6, <2>12
<1>5. QED BY <1>3, <1>4

(***************************************************************************)
(* What was drawn.  A rendered report is a table the layout was made for,  *)
(* and its page is the one the layout makes of it.                         *)
(***************************************************************************)
DrawnInv ==
  report.pc = "rendered" =>
    /\ report.document \in Tables
    /\ report.kind = "png" => report.page = PngPage(report.document)
    /\ report.kind = "pdf" => report.page = PdfColumnWidths(report.document)

\* A table whose cells are emptied is still a table.
LEMMA TabulatedStays ==
  ASSUME NEW columns \in Tables
  PROVE  Tabulated(columns) \in Tables
<1> DEFINE empty == [i \in DOMAIN columns |-> [columns[i] EXCEPT !.cell = <<>>]]
<1>1. columns \in Seq(Column) /\ columns # <<>>
  BY DEF Tables
<1>2. PICK n \in Nat : n = Len(columns) /\ DOMAIN columns = 1 .. n /\ n # 0
  BY <1>1
<1>3. <<>> \in Text
  BY DEF Text
<1>4. \A i \in 1 .. n : [columns[i] EXCEPT !.cell = <<>>] \in Column
  <2>1. ASSUME NEW column \in Column PROVE [column EXCEPT !.cell = <<>>] \in Column
    <3>1. column = [title |-> column.title, cell |-> column.cell, weight |-> column.weight]
      BY DEF Column
    <3>2. [column EXCEPT !.cell = <<>>]
            = [title |-> column.title, cell |-> <<>>, weight |-> column.weight]
      BY <3>1
    <3>3. QED BY <1>3, <3>2 DEF Column
  <2>2. QED BY <1>1, <1>2, <2>1
<1>5. empty \in [1 .. n -> Column]
  BY <1>2, <1>4
<1> HIDE DEF empty
<1>6. empty \in Seq(Column) /\ Len(empty) = n
  BY <1>5
<1>7. empty \in Tables
  BY <1>2, <1>6 DEF Tables
<1>8. QED BY <1>7 DEF Tabulated, empty

\* Nothing is drawn at first.
LEMMA DrawnInitially == Init => DrawnInv
BY DEF Init, InitReport, NoReport, DrawnInv

\* Only rendering makes a rendered report; only ending it changes it.
LEMMA DrawnStepKeeps ==
  ASSUME ReportInv, ReportAssumption, DrawnInv, [Next]_vars
  PROVE  DrawnInv'
<1>1. ASSUME report' = report
      PROVE  DrawnInv'
  BY <1>1 DEF DrawnInv
<1>2. ASSUME report'.pc # "rendered"
      PROVE  DrawnInv'
  BY <1>2 DEF DrawnInv
<1>3. ASSUME Disturb
      PROVE  DrawnInv'
  <2>1. CASE report.pc = "counted" /\ rows' # rows
    <3>1. report # NoReport /\ ~HasItems
      BY <2>1 DEF NoReport, HasItems
    <3>2. IsCounted(report)
      BY <3>1 DEF ReportInv, ReportShape
    <3>3. report'.pc = "counted"
      BY <1>3, <2>1, <3>2 DEF Disturb, IsCounted
    <3>4. QED BY <1>2, <3>3
  <2>2. CASE ~(report.pc = "counted" /\ rows' # rows)
    BY <1>1, <1>3, <2>2 DEF Disturb
  <2>3. QED BY <2>1, <2>2
<1>4. ASSUME NEW kind, NEW filter, NEW skip, NEW limit, Count(kind, filter, skip, limit)
      PROVE  DrawnInv'
  BY <1>2, <1>4 DEF Count
<1>5. ASSUME ReadItems
      PROVE  DrawnInv'
  BY <1>2, <1>5 DEF ReadItems
<1>6. ASSUME NEW columns \in Documents, Render(columns)
      PROVE  DrawnInv'
  <2>1. PICK table : table = Tabulated(columns)
    OBVIOUS
  <2>2. table \in Tables
    BY <2>1, TabulatedStays DEF ReportAssumption
  <2>3. /\ report'.document = table /\ report'.kind = report.kind
        /\ report'.page = CASE report.kind = "png" -> PngPage(table)
                            [] report.kind = "pdf" -> PdfColumnWidths(table)
                            [] OTHER -> NoPage
    BY <1>6, <2>1 DEF Render
  <2>4. QED BY <2>2, <2>3 DEF DrawnInv
<1>7. ASSUME EndReport
      PROVE  DrawnInv'
  BY <1>2, <1>7 DEF EndReport, NoReport
<1>8. CASE NextReport(Documents)
  <2>1. \/ \E kind, filter, skip, limit : Count(kind, filter, skip, limit)
        \/ ReadItems
        \/ \E columns \in Documents : Render(columns)
        \/ EndReport
    BY <1>8 DEF NextReport, CountForExport, CountForPreview, CountForDashboard
  <2>2. QED BY <1>4, <1>5, <1>6, <1>7, <2>1
<1>9. CASE UNCHANGED vars
  BY <1>1, <1>9 DEF vars
<1>10. QED BY <1>3, <1>8, <1>9 DEF Next, NextAmong

\* What is drawn was laid out, in every reachable state.
THEOREM DrawnInvariance == Spec => []DrawnInv
<1>1. Init => DrawnInv
  BY DrawnInitially
<1>2. ReportInv /\ DrawnInv /\ [Next]_vars => DrawnInv'
  BY ReportAssumption, DrawnStepKeeps
<1>3. QED BY <1>1, <1>2, ReportInvariance, PTL DEF Spec

\* PicturesFitThePage: whatever the columns, a picture is no wider than A4 at
\* 300 dpi and every column has room for any one character, so that no line
\* need leave its column.
THEOREM PicturesFit == Spec => []PicturesFitThePage
<1>1. DrawnInv => PicturesFitThePage
  <2>1. SUFFICES ASSUME DrawnInv, Drawn("png") PROVE PicturesFitThePage
    BY DEF PicturesFitThePage
  <2>2. PICK columns \in Tables : report.page = PngPage(columns)
    BY <2>1 DEF DrawnInv, Drawn
  <2>3. report.page.widths = PngColumnWidths(columns)
    BY <2>2 DEF PngPage
  <2>4. QED BY <2>3, PngWidthsFit DEF PicturesFitThePage
<1>2. QED BY <1>1, DrawnInvariance, PTL

\* PdfTablesFillThePage: whatever the columns, a table in a PDF takes between
\* 82 and 100 percent of the page, and no column is below its minimum.
THEOREM PdfTablesFill == Spec => []PdfTablesFillThePage
<1>1. DrawnInv => PdfTablesFillThePage
  <2>1. SUFFICES ASSUME DrawnInv, Drawn("pdf") PROVE PdfTablesFillThePage
    BY DEF PdfTablesFillThePage
  <2>2. report.document \in Tables /\ report.page = PdfColumnWidths(report.document)
    BY <2>1 DEF DrawnInv, Drawn
  <2>3. QED BY <2>2, PdfWidthsFill DEF PdfTablesFillThePage
<1>2. QED BY <1>1, DrawnInvariance, PTL

\* CellsKeepTheirText: whatever the columns and their texts, the lines of a
\* picture fit their columns, hold every letter once and in order, and keep
\* whole every word that fits.
THEOREM CellsKept == Spec => []CellsKeepTheirText
<1>1. DrawnInv => CellsKeepTheirText
  <2>1. SUFFICES ASSUME DrawnInv, Drawn("png"), NEW i \in DOMAIN report.document
                 PROVE  LET room == report.page.widths[i] - Png.padding
                        IN /\ Kept(report.document[i].title, report.page.header[i], room)
                           /\ Kept(report.document[i].cell, report.page.cells[i], room)
    BY DEF CellsKeepTheirText
  <2>2. PICK columns \in Tables : columns = report.document /\ report.page = PngPage(columns)
    BY <2>1 DEF DrawnInv, Drawn
  <2>3. PICK widths : widths = PngColumnWidths(columns)
    OBVIOUS
  <2>4. /\ widths \in [DOMAIN columns -> Nat]
        /\ \A k \in DOMAIN widths, c \in DOMAIN CharWidth :
             widths[k] - Png.padding >= CharWidth[c]
    BY <2>2, <2>3, PngWidthsFit
  <2>5. PICK room : room = widths[i] - Png.padding
    OBVIOUS
  <2>6. i \in DOMAIN columns /\ columns[i] \in Column
    BY <2>1, <2>2 DEF Tables
  <2>7. PICK title \in Text, cell \in Text : title = columns[i].title /\ cell = columns[i].cell
    BY <2>6 DEF Column
  <2>8. room \in Nat /\ \A c \in DOMAIN CharWidth : CharWidth[c] <= room
    <3>1. \A c \in DOMAIN CharWidth : CharWidth[c] \in Nat \ {0}
      BY LayoutAssumption
    <3>2. widths[i] \in Nat /\ Png.padding \in Nat /\ Space \in DOMAIN CharWidth
      BY <2>4, <2>6, LayoutAssumption DEF Measures
    <3>3. \A c \in DOMAIN CharWidth : room >= CharWidth[c]
      BY <2>4, <2>5, <2>6
    <3>4. room \in Int
      BY <2>5, <3>2
    <3>5. QED BY <3>1, <3>2, <3>3, <3>4
  <2>9. Kept(title, WrapText(title, room), room) /\ Kept(cell, WrapText(cell, room), room)
    BY <2>8, WrapKeeps
  <2>10. /\ report.page.widths = widths
         /\ report.page.header[i] = WrapText(title, room)
         /\ report.page.cells[i] = WrapText(cell, room)
    BY <2>2, <2>3, <2>5, <2>6, <2>7 DEF PngPage
  <2>11. QED BY <2>2, <2>5, <2>7, <2>9, <2>10
<1>2. QED BY <1>1, DrawnInvariance, PTL
===============================================================================
