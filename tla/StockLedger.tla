------------------------------ MODULE StockLedger ------------------------------
(***************************************************************************)
(* The stock balance of a product and its ledger of movements, as the      *)
(* concurrent requests of app/services/stock.py and                        *)
(* app/services/product.py change them.                                    *)
(*                                                                         *)
(* One request is one database session and one READ COMMITTED transaction. *)
(* Each action below is one round trip of a handler: the read (with or     *)
(* without FOR UPDATE), and the commit, which publishes every write of the *)
(* transaction at once.  Between the two the session holds a copy of the   *)
(* row (SQLAlchemy's identity map) and other sessions run.  An UPDATE      *)
(* statement writes only the columns the handler changed, and waits, like  *)
(* FOR UPDATE, for a row another transaction has locked.                   *)
(*                                                                         *)
(* Amounts are integers: NUMERIC(14,3) counted in thousandths.  A product  *)
(* is named by the code it was created with, which a soft delete does not  *)
(* free; renaming it by PUT is left out.                                   *)
(***************************************************************************)
EXTENDS Integers, Sequences

CONSTANTS
  Products,            \* product codes
  Sessions,            \* request slots of the API server
  NoCount,             \* SQL NULL in the nullable count columns
  Quantities,          \* kilograms a stock-in or stock-out may carry
  Adjustments,         \* signed kilograms of an adjustment, zero included
  Counts,              \* pieces a stock-in or stock-out may carry
  CountAdjustments,    \* signed pieces of an adjustment, never zero
  InitialStocks,       \* initial_stock of a new product
  ProductCounts,       \* count of ProductCreate and ProductUpdate
  MaxStock,            \* largest magnitude NUMERIC(14,3) stores
  MaxCount,            \* largest value INTEGER stores
  AllowNegativeStock,  \* Settings.allow_negative_stock
  MaxRequests          \* bound: requests begun in one behaviour

ASSUME NoCountAssumption == NoCount \notin Int
ASSUME BoundsAssumption == /\ MaxStock \in Nat
                           /\ MaxCount \in Nat
                           /\ MaxRequests \in Nat
                           /\ AllowNegativeStock \in BOOLEAN
ASSUME PayloadAssumption == /\ Quantities \subseteq 1 .. MaxStock
                            /\ Adjustments \subseteq (-MaxStock) .. MaxStock
                            /\ Counts \subseteq Nat \ {0}
                            /\ CountAdjustments \subseteq Int \ {0}
                            /\ InitialStocks \subseteq 0 .. MaxStock
                            /\ ProductCounts \subseteq Nat

Nullable(S) == S \cup {NoCount}

\* What a request may ask: the validated payloads of the product and stock
\* endpoints, reduced to the fields that reach the balance and the count.
MovementRequests ==
  [op : {"IN", "OUT"}, pid : Products,
     quantity : Quantities, count : Nullable(Counts)]
  \cup [op : {"ADJUSTMENT"}, pid : Products,
     quantity : Adjustments, count : Nullable(CountAdjustments)]

CreateRequests == [op : {"CREATE"}, pid : Products,
                   quantity : InitialStocks, count : Nullable(ProductCounts)]

UpdateRequests == [op : {"UPDATE"}, pid : Products,
                   quantity : {0}, count : Nullable(ProductCounts)]

LifecycleRequests == [op : {"DELETE", "RESTORE"}, pid : Products,
                      quantity : {0}, count : {NoCount}]

Requests == MovementRequests \cup CreateRequests \cup UpdateRequests
              \cup LifecycleRequests

VARIABLES
  product,  \* committed row of each product code
  ledger,   \* committed stock_transactions of each product, in id order
  sess,     \* what each request slot is doing
  clock     \* transaction starts so far; the database's now()

vars == <<product, ledger, sess, clock>>

Rows == [status : {"absent", "live", "deleted"}, stock : Int,
         count : Nullable(Int)]

Movements == [type : {"IN", "OUT", "ADJUSTMENT"}, quantity : Int,
              previous_stock : Int, new_stock : Int,
              count : Nullable(Int), previous_count : Nullable(Int),
              new_count : Nullable(Int), created_at : Nat]

NoRow == [status |-> "absent", stock |-> 0, count |-> NoCount]
Idle == [pc |-> "idle"]
ActiveSessions == [pc : {"begun", "loaded", "locked"}, req : Requests,
                   start : Nat, seen : Rows]

TypeOK == /\ product \in [Products -> Rows]
          /\ ledger \in [Products -> Seq(Movements)]
          /\ sess \in [Sessions -> {Idle} \cup ActiveSessions]
          /\ clock \in 0 .. MaxRequests

Init == /\ product = [p \in Products |-> NoRow]
        /\ ledger = [p \in Products |-> <<>>]
        /\ sess = [s \in Sessions |-> Idle]
        /\ clock = 0

(***************************************************************************)
(* Row locks.  A session that read its product FOR UPDATE holds the row    *)
(* until its transaction ends.                                             *)
(***************************************************************************)
Holds(s, p) == sess[s].pc = "locked" /\ sess[s].req.pid = p

Unlocked(p) == \A s \in Sessions : ~Holds(s, p)

Running(s, pc, ops) == sess[s].pc = pc /\ sess[s].req.op \in ops

Changes == {"IN", "OUT", "ADJUSTMENT"}

Finish(s) == sess' = [sess EXCEPT ![s] = Idle]

Load(s, pc) ==
  sess' = [sess EXCEPT ![s] =
             [@ EXCEPT !.pc = pc, !.seen = product[sess[s].req.pid]]]

(***************************************************************************)
(* Arithmetic of StockService.change on the row it has read.               *)
(***************************************************************************)
NewStock(req, row) == IF req.op = "OUT" THEN row.stock - req.quantity
                                        ELSE row.stock + req.quantity

OrZero(count) == IF count = NoCount THEN 0 ELSE count

NewCount(req, row) ==
  CASE req.count = NoCount -> row.count
    [] req.count # NoCount /\ req.op = "OUT" -> OrZero(row.count) - req.count
    [] OTHER -> OrZero(row.count) + req.count

\* Mutants of Sufficient: the guard of stock-outs alone, which an adjustment
\* escapes, and the guard of the kilograms alone.
SufficientForOut(req, row) ==
  /\ req.op = "OUT" => NewStock(req, row) >= 0 \/ AllowNegativeStock
  /\ NewCount(req, row) # NoCount => NewCount(req, row) >= 0

SufficientKilograms(req, row) == NewStock(req, row) >= 0 \/ AllowNegativeStock

\* The two 409 guards, and the column widths the database enforces at flush.
Sufficient(req, row) == /\ NewStock(req, row) >= 0 \/ AllowNegativeStock
                        /\ NewCount(req, row) # NoCount => NewCount(req, row) >= 0

Storable(stock, count) == /\ stock \in (-MaxStock) .. MaxStock
                          /\ count # NoCount => count <= MaxCount

Accepted(req, row) == /\ Sufficient(req, row)
                      /\ Storable(NewStock(req, row), NewCount(req, row))

MovementOf(req, row, start) ==
  [type |-> req.op, quantity |-> req.quantity,
   previous_stock |-> row.stock, new_stock |-> NewStock(req, row),
   count |-> req.count, previous_count |-> row.count,
   new_count |-> NewCount(req, row), created_at |-> start]

(***************************************************************************)
(* A request begins: its transaction starts, and with it the value that    *)
(* now() will have, at the first query of its authentication.              *)
(***************************************************************************)
Begin(s, req) ==
  /\ sess[s] = Idle
  /\ clock < MaxRequests
  /\ clock' = clock + 1
  /\ sess' = [sess EXCEPT ![s] = [pc |-> "begun", req |-> req,
                                  start |-> clock + 1, seen |-> NoRow]]
  /\ UNCHANGED <<product, ledger>>

(***************************************************************************)
(* Reads.  FOR UPDATE waits for the row and then re-evaluates its WHERE    *)
(* clause, so it returns the newest committed row or none.                 *)
(***************************************************************************)
\* Mutant of LockForChange: the read without FOR UPDATE.
LockForChangeUnlocked(s) ==
  /\ Running(s, "begun", Changes)
  /\ product[sess[s].req.pid].status = "live"
  /\ Load(s, "locked")
  /\ UNCHANGED <<product, ledger, clock>>

LockForChange(s) ==
  LET p == sess[s].req.pid IN
  /\ Running(s, "begun", Changes)
  /\ product[p].status = "live"
  /\ Unlocked(p)
  /\ Load(s, "locked")
  /\ UNCHANGED <<product, ledger, clock>>

LockForRestore(s) ==
  LET p == sess[s].req.pid IN
  /\ Running(s, "begun", {"RESTORE"})
  /\ product[p].status = "deleted"
  /\ Unlocked(p)
  /\ Load(s, "locked")
  /\ UNCHANGED <<product, ledger, clock>>

\* PUT and DELETE read the product without a lock.
LoadForWrite(s) ==
  /\ Running(s, "begun", {"UPDATE", "DELETE"})
  /\ product[sess[s].req.pid].status = "live"
  /\ Load(s, "loaded")
  /\ UNCHANGED <<product, ledger, clock>>

\* 404: no row satisfies the read's WHERE clause.
NotFound(s) ==
  LET p == sess[s].req.pid IN
  /\ \/ Running(s, "begun", Changes \cup {"UPDATE", "DELETE"})
          /\ product[p].status # "live"
     \/ Running(s, "begun", {"RESTORE"}) /\ product[p].status # "deleted"
  /\ Finish(s)
  /\ UNCHANGED <<product, ledger, clock>>

(***************************************************************************)
(* StockService.change from the locked read to its end.                    *)
(***************************************************************************)
CommitChange(s) ==
  LET req == sess[s].req
      p == req.pid
      row == sess[s].seen
  IN
  /\ Running(s, "locked", Changes)
  /\ Accepted(req, row)
  /\ product' = [product EXCEPT
       ![p].stock = NewStock(req, row),
       ![p].count = IF req.count = NoCount THEN @ ELSE NewCount(req, row)]
  /\ ledger' = [ledger EXCEPT ![p] = Append(@, MovementOf(req, row, sess[s].start))]
  /\ Finish(s)
  /\ UNCHANGED clock

\* Mutant of RejectChange: the error path leaves the transaction open.
RejectChangeUnfinished(s) ==
  /\ Running(s, "locked", Changes)
  /\ ~Accepted(sess[s].req, sess[s].seen)
  /\ UNCHANGED vars

\* INSUFFICIENT_STOCK, INSUFFICIENT_PRODUCT_COUNT, or a value too wide to store.
RejectChange(s) ==
  /\ Running(s, "locked", Changes)
  /\ ~Accepted(sess[s].req, sess[s].seen)
  /\ Finish(s)
  /\ UNCHANGED <<product, ledger, clock>>

(***************************************************************************)
(* ProductService.create: the row, and its first movement when there is    *)
(* initial stock, are committed together.  A taken code is refused, by the *)
(* check or by the unique index.                                           *)
(***************************************************************************)
\* Mutant of InitialMovement: previous_stock is left NULL.
InitialMovementUnset(req, start) ==
  [type |-> "IN", quantity |-> req.quantity,
   previous_stock |-> NoCount, new_stock |-> req.quantity,
   count |-> req.count, previous_count |-> NoCount,
   new_count |-> req.count, created_at |-> start]

InitialMovement(req, start) ==
  [type |-> "IN", quantity |-> req.quantity,
   previous_stock |-> 0, new_stock |-> req.quantity,
   count |-> IF req.count = 0 THEN NoCount ELSE req.count,
   previous_count |-> IF req.count = NoCount THEN NoCount ELSE 0,
   new_count |-> req.count, created_at |-> start]

Creatable(req) == /\ product[req.pid].status = "absent"
                  /\ Storable(req.quantity, req.count)

CommitCreate(s) ==
  LET req == sess[s].req
      p == req.pid
  IN
  /\ Running(s, "begun", {"CREATE"})
  /\ Creatable(req)
  /\ product' = [product EXCEPT ![p] = [status |-> "live", stock |-> req.quantity,
                                        count |-> req.count]]
  /\ ledger' = IF req.quantity > 0
               THEN [ledger EXCEPT ![p] = <<InitialMovement(req, sess[s].start)>>]
               ELSE ledger
  /\ Finish(s)
  /\ UNCHANGED clock

RefuseCreate(s) ==
  /\ Running(s, "begun", {"CREATE"})
  /\ ~Creatable(sess[s].req)
  /\ Finish(s)
  /\ UNCHANGED <<product, ledger, clock>>

(***************************************************************************)
(* ProductService.update on the count column.  SQLAlchemy emits the column *)
(* only when its value differs from the one loaded; the UPDATE matches by  *)
(* primary key, deleted or not, and waits for the row.                     *)
(***************************************************************************)
\* Mutant of CommitUpdate: every column is written from the copy, as a full
\* replacement of the row would.
CommitUpdateWholeRow(s) ==
  LET p == sess[s].req.pid IN
  /\ Running(s, "loaded", {"UPDATE"})
  /\ Unlocked(p) /\ Storable(0, sess[s].req.count)
  /\ product' = [product EXCEPT ![p] = [sess[s].seen EXCEPT !.count = sess[s].req.count]]
  /\ Finish(s)
  /\ UNCHANGED <<ledger, clock>>

CommitUpdate(s) ==
  LET req == sess[s].req
      p == req.pid
      dirty == req.count # sess[s].seen.count
  IN
  /\ Running(s, "loaded", {"UPDATE"})
  /\ dirty => Unlocked(p) /\ Storable(0, req.count)
  /\ product' = [product EXCEPT ![p].count = IF dirty THEN req.count ELSE @]
  /\ Finish(s)
  /\ UNCHANGED <<ledger, clock>>

RejectUpdate(s) ==
  /\ Running(s, "loaded", {"UPDATE"})
  /\ ~Storable(0, sess[s].req.count)
  /\ Finish(s)
  /\ UNCHANGED <<product, ledger, clock>>

\* Mutant of CommitDelete: the delete does not wait for the locked row.
CommitDeleteUnwaited(s) ==
  /\ Running(s, "loaded", {"DELETE"})
  /\ product' = [product EXCEPT ![sess[s].req.pid].status = "deleted"]
  /\ Finish(s)
  /\ UNCHANGED <<ledger, clock>>

\* ProductService.delete: the soft delete writes deleted_at alone.
CommitDelete(s) ==
  LET p == sess[s].req.pid IN
  /\ Running(s, "loaded", {"DELETE"})
  /\ Unlocked(p)
  /\ product' = [product EXCEPT ![p].status = "deleted"]
  /\ Finish(s)
  /\ UNCHANGED <<ledger, clock>>

CommitRestore(s) ==
  LET p == sess[s].req.pid IN
  /\ Running(s, "locked", {"RESTORE"})
  /\ product' = [product EXCEPT ![p].status = "live"]
  /\ Finish(s)
  /\ UNCHANGED <<ledger, clock>>

\* The client, the server process or the connection is lost before the
\* commit: the database rolls the transaction back and frees its lock.
Rollback(s) ==
  /\ sess[s] # Idle
  /\ Finish(s)
  /\ UNCHANGED <<product, ledger, clock>>

Advance(s) == \/ LockForChange(s) \/ LockForRestore(s) \/ LoadForWrite(s)
              \/ NotFound(s)
              \/ CommitChange(s) \/ RejectChange(s)
              \/ CommitCreate(s) \/ RefuseCreate(s)
              \/ CommitUpdate(s) \/ RejectUpdate(s)
              \/ CommitDelete(s) \/ CommitRestore(s)

Next == \E s \in Sessions : \/ \E req \in Requests : Begin(s, req)
                            \/ Advance(s)
                            \/ Rollback(s)

Spec == Init /\ [][Next]_vars

\* The event loop keeps running every request, and PostgreSQL hands a
\* contended row to its waiters in turn, so a session whose next round trip
\* is enabled again and again takes it.
FairSpec == Spec /\ \A s \in Sessions : SF_vars(Advance(s))

(***************************************************************************)
(* Properties                                                              *)
(***************************************************************************)

\* The committed balance is the one the newest movement left, and a product
\* without movements has none: no interleaving of changes, edits, deletes
\* and restores loses or repeats a movement (the row lock of
\* StockService.change, and the changed columns only of the others).
StockMatchesLedger ==
  \A p \in Products :
    product[p].stock = IF ledger[p] = <<>> THEN 0
                       ELSE ledger[p][Len(ledger[p])].new_stock

\* Movements of a product chain: each starts from the balance the one before
\* it left, the first from zero, and its kilograms account for the difference.
Balanced(m) == m.new_stock = IF m.type = "OUT" THEN m.previous_stock - m.quantity
                                               ELSE m.previous_stock + m.quantity

LedgerChains ==
  \A p \in Products : \A i \in 1 .. Len(ledger[p]) :
    /\ Balanced(ledger[p][i])
    /\ ledger[p][i].previous_stock = IF i = 1 THEN 0 ELSE ledger[p][i - 1].new_stock

\* INSUFFICIENT_STOCK: unless the setting allows it, no balance, present or
\* recorded, is ever negative, however two stock-outs interleave.
StockNeverNegative ==
  AllowNegativeStock \/
    \A p \in Products : /\ product[p].stock >= 0
                        /\ \A i \in 1 .. Len(ledger[p]) : ledger[p][i].new_stock >= 0

\* INSUFFICIENT_PRODUCT_COUNT and the ge=0 of the product payloads together:
\* a count is absent or nonnegative, in the row and in the ledger, so the
\* check constraints of stock_transactions never turn a change away.
CountNeverNegative ==
  \A p \in Products :
    /\ product[p].count # NoCount => product[p].count >= 0
    /\ \A i \in 1 .. Len(ledger[p]) :
         LET m == ledger[p][i] IN
         /\ m.count # NoCount => m.count # 0
         /\ m.previous_count # NoCount => m.previous_count >= 0
         /\ m.new_count # NoCount => m.new_count >= 0

\* The ledger is immutable and moves only with a product that is live at that
\* moment: a change that waited behind a delete finds no product.
LedgerStep(p) ==
  ledger'[p] # ledger[p] =>
    /\ Len(ledger'[p]) = Len(ledger[p]) + 1
    /\ \A i \in 1 .. Len(ledger[p]) : ledger'[p][i] = ledger[p][i]
    /\ product'[p].status = "live"
    /\ ledger[p] # <<>> => product[p].status = "live"

LedgerOnlyGrowsWhileLive == [][\A p \in Products : LedgerStep(p)]_vars

(***************************************************************************)
(* The inductive invariant.  A session that holds a row holds it alone,    *)
(* and its copy is the committed row; a session that read a row without a  *)
(* lock knows no more than that the product exists; a code without a       *)
(* product is blank; and what is committed fits its columns.               *)
(***************************************************************************)
LocksExclusive ==
  \A s, t \in Sessions :
    sess[s].pc = "locked" /\ sess[t].pc = "locked" /\ s # t
      => sess[s].req.pid # sess[t].req.pid

LockedCopyIsCurrent ==
  \A s \in Sessions :
    sess[s].pc = "locked" =>
      LET req == sess[s].req IN
      /\ sess[s].seen = product[req.pid]
      /\ \/ req.op \in Changes /\ product[req.pid].status = "live"
         \/ req.op = "RESTORE" /\ product[req.pid].status = "deleted"

LoadedProductExists ==
  \A s \in Sessions :
    sess[s].pc = "loaded" => product[sess[s].req.pid].status # "absent"

BlankUntilCreated ==
  \A p \in Products :
    product[p].status = "absent" => product[p] = NoRow /\ ledger[p] = <<>>

ColumnsFit == \A p \in Products : Storable(product[p].stock, product[p].count)

IInv == /\ TypeOK
        /\ LocksExclusive
        /\ LockedCopyIsCurrent
        /\ LoadedProductExists
        /\ BlankUntilCreated
        /\ ColumnsFit
        /\ StockMatchesLedger
        /\ LedgerChains
        /\ StockNeverNegative
        /\ CountNeverNegative

\* Every request the server accepted is answered: no wait for a product row
\* lasts for ever.
RequestsFinish == \A s \in Sessions : (sess[s] # Idle) ~> (sess[s] = Idle)
=============================================================================
