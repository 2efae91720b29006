---------------------------- MODULE StockRefinement ----------------------------
(***************************************************************************)
(* StockLedger implements StockBook: a page of the book is the committed   *)
(* row of the product together with the kilograms of its ledger rows.      *)
(***************************************************************************)
EXTENDS StockLedger

Kilograms(m) == m.new_stock - m.previous_stock

EntriesOf(rows) == [i \in 1 .. Len(rows) |-> Kilograms(rows[i])]

Book == INSTANCE StockBook WITH
          status <- [p \in Products |-> product[p].status],
          balance <- [p \in Products |-> product[p].stock],
          count <- [p \in Products |-> product[p].count],
          entries <- [p \in Products |-> EntriesOf(ledger[p])]

\* The stock and product endpoints, interleaved, locked and rolled back as
\* they are, behave like a book in which every movement, correction, delete
\* and restore happens in one step against the balance of that moment.
ImplementsBook == Book!Spec
=============================================================================
