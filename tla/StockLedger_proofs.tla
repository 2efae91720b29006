-------------------------- MODULE StockLedger_proofs --------------------------
(***************************************************************************)
(* Proofs about StockLedger, StockRefinement and DailyReport: the inductive*)
(* invariant, the safety properties it implies, that the ledger implements *)
(* the book, and what the reports make of it, for any products, sessions,  *)
(* payloads and column widths.                                             *)
(*                                                                         *)
(* The invariant says that a session holding a row holds it alone, with a  *)
(* copy of the row as it is, so what it appends continues the chain of the *)
(* ledger.  The reports need two facts more, DatesInv: a movement is dated *)
(* in the past, and a stock-in or stock-out moves a positive quantity.     *)
(* Then a report's sums are sums of differences over the ids of a period,  *)
(* which telescope where the ids are consecutive and add up where periods  *)
(* meet.                                                                   *)
(***************************************************************************)
EXTENDS StockRefinement, DailyReport, SequenceTheorems, SumTheorems, TLAPS

USE NoCountAssumption, BoundsAssumption

(***************************************************************************)
(* What the payload validation gives: the fields every request has, and    *)
(* the ranges its operation adds.                                          *)
(***************************************************************************)
LEMMA RequestFields ==
  ASSUME NEW r \in Requests
  PROVE  /\ r.pid \in Products
         /\ r.op \in {"IN", "OUT", "ADJUSTMENT", "CREATE", "UPDATE",
                      "DELETE", "RESTORE"}
         /\ r.quantity \in Int
         /\ r.count \in Nullable(Int)
         /\ r.op \in {"IN", "OUT", "ADJUSTMENT"} => r.quantity \in (-MaxStock) .. MaxStock
         /\ r.op \in {"IN", "OUT", "ADJUSTMENT"} => r.count # 0
         /\ r.op = "CREATE" => r.quantity \in 0 .. MaxStock
         /\ r.op \in {"CREATE", "UPDATE"} => r.count \in Nullable(Nat)
<1>1. CASE r \in MovementRequests
  <2>1. CASE r \in [op : {"IN", "OUT"}, pid : Products,
                   quantity : Quantities, count : Nullable(Counts)]
    <3>1. r.quantity \in 1 .. MaxStock /\ r.count \in Nullable(Nat \ {0})
      BY <2>1, PayloadAssumption DEF Nullable
    <3> QED  BY <2>1, <3>1 DEF Nullable
  <2>2. CASE r \in [op : {"ADJUSTMENT"}, pid : Products,
                   quantity : Adjustments, count : Nullable(CountAdjustments)]
    <3>1. r.quantity \in (-MaxStock) .. MaxStock /\ r.count \in Nullable(Int \ {0})
      BY <2>2, PayloadAssumption DEF Nullable
    <3> QED  BY <2>2, <3>1 DEF Nullable
  <2> QED  BY <1>1, <2>1, <2>2 DEF MovementRequests
<1>2. CASE r \in CreateRequests
  <2>1. /\ r.op = "CREATE" /\ r.pid \in Products
        /\ r.quantity \in 0 .. MaxStock /\ r.count \in Nullable(Nat)
    BY <1>2, PayloadAssumption DEF CreateRequests, Nullable
  <2> QED  BY <2>1 DEF Nullable
<1>3. CASE r \in UpdateRequests
  <2>1. /\ r.op = "UPDATE" /\ r.pid \in Products
        /\ r.quantity = 0 /\ r.count \in Nullable(Nat)
    BY <1>3, PayloadAssumption DEF UpdateRequests, Nullable
  <2> QED  BY <2>1 DEF Nullable
<1>4. CASE r \in LifecycleRequests
  <2>1. /\ r.op \in {"DELETE", "RESTORE"} /\ r.pid \in Products
        /\ r.quantity = 0 /\ r.count = NoCount
    BY <1>4 DEF LifecycleRequests
  <2> QED  BY <2>1 DEF Nullable
<1> QED  BY <1>1, <1>2, <1>3, <1>4 DEF Requests

\* A session that is not idle has the four fields of an active one.
LEMMA ActiveFields ==
  ASSUME TypeOK, NEW s \in Sessions, sess[s].pc # "idle"
  PROVE  /\ sess[s] \in ActiveSessions
         /\ sess[s].pc \in {"begun", "loaded", "locked"}
         /\ sess[s].req \in Requests
         /\ sess[s].req.pid \in Products
         /\ sess[s].start \in Nat
         /\ sess[s].seen \in Rows
<1>1. sess[s] \in ActiveSessions
  BY DEF TypeOK, Idle
<1> QED  BY <1>1, RequestFields DEF ActiveSessions

\* Ending a request keeps the type of the request slots.
LEMMA FinishType ==
  ASSUME TypeOK, NEW s \in Sessions, Finish(s)
  PROVE  sess' \in [Sessions -> {Idle} \cup ActiveSessions]
BY DEF TypeOK, Finish

\* Reading a committed row into a request keeps the type of the slots.
LEMMA LoadType ==
  ASSUME TypeOK, NEW s \in Sessions, sess[s].pc # "idle",
         NEW pc \in {"loaded", "locked"}, Load(s, pc)
  PROVE  sess' \in [Sessions -> {Idle} \cup ActiveSessions]
<1>1. /\ sess[s] \in ActiveSessions
      /\ product[sess[s].req.pid] \in Rows
  BY ActiveFields DEF TypeOK
<1>2. [sess[s] EXCEPT !.pc = pc, !.seen = product[sess[s].req.pid]] \in ActiveSessions
  BY <1>1 DEF ActiveSessions
<1> QED  BY <1>2 DEF TypeOK, Load

\* The arithmetic of StockService.change stays within the types.
LEMMA ArithmeticTypes ==
  ASSUME NEW req \in Requests, NEW row \in Rows
  PROVE  /\ NewStock(req, row) \in Int
         /\ NewCount(req, row) \in Nullable(Int)
BY RequestFields DEF NewStock, NewCount, OrZero, Rows, Nullable

\* The empty database with no request in flight satisfies the invariant.
THEOREM InitEstablishesIInv == Init => IInv
<1> SUFFICES ASSUME Init PROVE IInv
  OBVIOUS
<1>1. TypeOK
  BY DEF Init, TypeOK, NoRow, Rows, Nullable, Idle
<1>2. /\ LocksExclusive
      /\ LockedCopyIsCurrent
      /\ LoadedProductExists
  BY DEF Init, Idle, LocksExclusive, LockedCopyIsCurrent, LoadedProductExists
<1>3. /\ BlankUntilCreated
      /\ ColumnsFit
      /\ StockMatchesLedger
      /\ LedgerChains
      /\ StockNeverNegative
      /\ CountNeverNegative
  BY DEF Init, NoRow, BlankUntilCreated, ColumnsFit, Storable, StockMatchesLedger,
         LedgerChains, StockNeverNegative, CountNeverNegative
<1> QED  BY <1>1, <1>2, <1>3 DEF IInv

\* The conjuncts about committed data alone.
DataInv == /\ BlankUntilCreated
           /\ ColumnsFit
           /\ StockMatchesLedger
           /\ LedgerChains
           /\ StockNeverNegative
           /\ CountNeverNegative

\* The promises about committed data survive a step that writes none.
LEMMA DataUnchanged ==
  ASSUME DataInv, UNCHANGED <<product, ledger>>
  PROVE  DataInv'
BY DEF DataInv, BlankUntilCreated, ColumnsFit, StockMatchesLedger, LedgerChains,
       StockNeverNegative, CountNeverNegative

\* A request that ends without a write: an error response or a rollback.
LEMMA EndWithoutWrite ==
  ASSUME IInv, NEW s \in Sessions, Finish(s), UNCHANGED <<product, ledger, clock>>
  PROVE  IInv'
<1>1. TypeOK'
  BY FinishType DEF IInv, TypeOK
<1>2. \A t \in Sessions : sess'[t] = IF t = s THEN Idle ELSE sess[t]
  BY DEF IInv, TypeOK, Finish
<1>3. LocksExclusive' /\ LockedCopyIsCurrent' /\ LoadedProductExists'
  BY <1>2 DEF IInv, Idle, LocksExclusive, LockedCopyIsCurrent, LoadedProductExists
<1>4. DataInv'
  BY DataUnchanged DEF IInv, DataInv
<1> QED  BY <1>1, <1>3, <1>4 DEF IInv, DataInv

\* The start of a request: it holds nothing and has read nothing.
LEMMA BeginPreserves ==
  ASSUME IInv, NEW s \in Sessions, NEW req \in Requests, Begin(s, req)
  PROVE  IInv'
<1> DEFINE new == [pc |-> "begun", req |-> req, start |-> clock + 1, seen |-> NoRow]
<1>1. new \in ActiveSessions
  BY DEF Begin, IInv, TypeOK, ActiveSessions, NoRow, Rows, Nullable
<1>2. TypeOK'
  BY <1>1 DEF IInv, TypeOK, Begin
<1>3. \A t \in Sessions : sess'[t] = IF t = s THEN new ELSE sess[t]
  BY DEF IInv, TypeOK, Begin
<1>4. LocksExclusive' /\ LockedCopyIsCurrent' /\ LoadedProductExists'
  BY <1>3 DEF Begin, IInv, LocksExclusive, LockedCopyIsCurrent, LoadedProductExists
<1>5. DataInv'
  BY DataUnchanged DEF Begin, IInv, DataInv
<1> QED  BY <1>2, <1>4, <1>5 DEF IInv, DataInv

\* A read that takes the row: nobody else holds it, and the copy is fresh.
LEMMA LockPreserves ==
  ASSUME IInv, NEW s \in Sessions, LockForChange(s) \/ LockForRestore(s)
  PROVE  IInv'
<1> DEFINE p == sess[s].req.pid
<1>1. /\ sess[s].pc = "begun"
      /\ Unlocked(p)
      /\ Load(s, "locked")
      /\ UNCHANGED <<product, ledger, clock>>
      /\ \/ sess[s].req.op \in Changes /\ product[p].status = "live"
         \/ sess[s].req.op = "RESTORE" /\ product[p].status = "deleted"
  BY DEF LockForChange, LockForRestore, Running
<1>2. TypeOK'
  BY <1>1, LoadType DEF IInv, TypeOK
<1>3. /\ sess[s] \in ActiveSessions
      /\ p \in Products
  BY <1>1, ActiveFields DEF IInv
<1>4. /\ sess'[s].pc = "locked"
      /\ sess'[s].req = sess[s].req
      /\ sess'[s].seen = product[p]
      /\ \A t \in Sessions : t # s => sess'[t] = sess[t]
  BY <1>1, <1>3 DEF IInv, TypeOK, Load, ActiveSessions
<1>5. LocksExclusive'
  BY <1>1, <1>4 DEF IInv, LocksExclusive, Unlocked, Holds
<1>6. LockedCopyIsCurrent'
  BY <1>1, <1>4 DEF IInv, LockedCopyIsCurrent
<1>7. LoadedProductExists'
  BY <1>1, <1>4 DEF IInv, LoadedProductExists
<1>8. DataInv'
  BY <1>1, DataUnchanged DEF IInv, DataInv
<1> QED  BY <1>2, <1>5, <1>6, <1>7, <1>8 DEF IInv, DataInv

\* A read without a lock: all it learns is that the product exists.
LEMMA LoadPreserves ==
  ASSUME IInv, NEW s \in Sessions, LoadForWrite(s)
  PROVE  IInv'
<1> DEFINE p == sess[s].req.pid
<1>1. /\ sess[s].pc = "begun"
      /\ product[p].status = "live"
      /\ Load(s, "loaded")
      /\ UNCHANGED <<product, ledger, clock>>
  BY DEF LoadForWrite, Running
<1>2. TypeOK'
  BY <1>1, LoadType DEF IInv, TypeOK
<1>3. sess[s] \in ActiveSessions
  BY <1>1, ActiveFields DEF IInv
<1>4. /\ sess'[s].pc = "loaded"
      /\ sess'[s].req = sess[s].req
      /\ \A t \in Sessions : t # s => sess'[t] = sess[t]
  BY <1>1, <1>3 DEF IInv, TypeOK, Load, ActiveSessions
<1>5. LocksExclusive' /\ LockedCopyIsCurrent' /\ LoadedProductExists'
  BY <1>1, <1>4 DEF IInv, LocksExclusive, LockedCopyIsCurrent, LoadedProductExists
<1>6. DataInv'
  BY <1>1, DataUnchanged DEF IInv, DataInv
<1> QED  BY <1>2, <1>5, <1>6 DEF IInv, DataInv

(***************************************************************************)
(* The commit of a stock change.  The copy it computes from is the         *)
(* committed row, so the new ledger row continues the chain.               *)
(***************************************************************************)
LEMMA CommitChangeEffect ==
  ASSUME IInv, NEW s \in Sessions, CommitChange(s)
  PROVE  LET p == sess[s].req.pid
             req == sess[s].req
             row == product[p]
             new == [row EXCEPT !.stock = NewStock(req, row),
                                !.count = IF req.count = NoCount THEN @
                                          ELSE NewCount(req, row)]
             move == MovementOf(req, row, sess[s].start)
         IN /\ p \in Products
            /\ req \in Requests /\ req.op \in Changes
            /\ row \in Rows /\ row.status = "live"
            /\ Accepted(req, row)
            /\ new \in Rows /\ move \in Movements
            /\ new.status = "live"
            /\ new.stock = NewStock(req, row)
            /\ new.count = NewCount(req, row)
            /\ product' = [product EXCEPT ![p] = new]
            /\ ledger' = [ledger EXCEPT ![p] = Append(ledger[p], move)]
<1> DEFINE p == sess[s].req.pid
           req == sess[s].req
           row == product[p]
<1>1. /\ sess[s].pc = "locked" /\ req.op \in Changes
      /\ Accepted(req, sess[s].seen)
  BY DEF CommitChange, Running
<1>2. /\ req \in Requests
      /\ p \in Products
      /\ sess[s].start \in Nat
  BY <1>1, ActiveFields DEF IInv
<1>3. sess[s].seen = row /\ row.status = "live"
  BY <1>1 DEF IInv, LockedCopyIsCurrent, Changes
<1>4. row \in Rows
  BY <1>2 DEF IInv, TypeOK
<1>5. /\ NewStock(req, row) \in Int
      /\ NewCount(req, row) \in Nullable(Int)
  BY <1>2, <1>4, ArithmeticTypes
<1>6. req.count = NoCount => NewCount(req, row) = row.count
  BY DEF NewCount
<1>7. MovementOf(req, row, sess[s].start) \in Movements
  BY <1>1, <1>2, <1>4, <1>5, RequestFields DEF MovementOf, Movements, Changes, Rows
<1> DEFINE new == [row EXCEPT !.stock = NewStock(req, row),
                              !.count = IF req.count = NoCount THEN @
                                        ELSE NewCount(req, row)]
<1>8. /\ new \in Rows
      /\ new.status = "live"
      /\ new.stock = NewStock(req, row)
      /\ new.count = NewCount(req, row)
  BY <1>3, <1>4, <1>5, <1>6 DEF Rows
<1>9. product' = [product EXCEPT ![p] = new]
  BY <1>2, <1>3, <1>4 DEF CommitChange, IInv, TypeOK, Rows
<1>10. ledger' = [ledger EXCEPT ![p] = Append(ledger[p], MovementOf(req, row, sess[s].start))]
  BY <1>3 DEF CommitChange
<1> QED  BY <1>1, <1>2, <1>3, <1>4, <1>7, <1>8, <1>9, <1>10

\* Ending the session that holds the row leaves the other sessions as they
\* were, and their copies current whatever was written to that row.
LEMMA EndOfHolder ==
  ASSUME IInv, NEW s \in Sessions, sess[s].pc = "locked", Finish(s),
         product' \in [Products -> Rows],
         \A q \in Products : q # sess[s].req.pid => product'[q] = product[q],
         product'[sess[s].req.pid].status # "absent"
  PROVE  LocksExclusive' /\ LockedCopyIsCurrent' /\ LoadedProductExists'
<1>1. \A t \in Sessions : sess'[t] = IF t = s THEN Idle ELSE sess[t]
  BY DEF IInv, TypeOK, Finish
<1>2. \A t \in Sessions : sess[t].pc # "idle" => sess[t].req.pid \in Products
  BY ActiveFields DEF IInv
<1>3. LocksExclusive'
  BY <1>1 DEF IInv, LocksExclusive, Idle
<1>4. LockedCopyIsCurrent'
  BY <1>1, <1>2 DEF IInv, LocksExclusive, LockedCopyIsCurrent, Idle
<1>5. LoadedProductExists'
  BY <1>1, <1>2 DEF IInv, LoadedProductExists, Idle
<1> QED  BY <1>3, <1>4, <1>5

\* A row that continues the chain of its product keeps every promise about
\* committed data.
LEMMA AppendPreservesData ==
  ASSUME product \in [Products -> Rows], ledger \in [Products -> Seq(Movements)],
         DataInv, NEW p \in Products, NEW new \in Rows, NEW move \in Movements,
         product' = [product EXCEPT ![p] = new],
         ledger' = [ledger EXCEPT ![p] = Append(ledger[p], move)],
         new.status = "live",
         Storable(new.stock, new.count),
         Balanced(move),
         move.previous_stock = product[p].stock, move.new_stock = new.stock,
         new.stock >= 0 \/ AllowNegativeStock,
         move.count # NoCount => move.count # 0,
         move.previous_count # NoCount => move.previous_count >= 0,
         move.new_count = new.count,
         new.count # NoCount => new.count >= 0
  PROVE  /\ product' \in [Products -> Rows]
         /\ ledger' \in [Products -> Seq(Movements)]
         /\ DataInv'
<1>1. /\ product' \in [Products -> Rows]
      /\ product'[p] = new
      /\ \A q \in Products : q # p => product'[q] = product[q]
  OBVIOUS
<1> DEFINE rows == ledger[p]
<1>2. rows \in Seq(Movements)
  OBVIOUS
<1>3. /\ Append(rows, move) \in Seq(Movements)
      /\ Append(rows, move) # <<>>
      /\ Len(Append(rows, move)) = Len(rows) + 1
      /\ \A i \in 1 .. Len(rows) : Append(rows, move)[i] = rows[i]
      /\ Append(rows, move)[Len(rows) + 1] = move
  BY <1>2, AppendProperties
<1>4. /\ ledger'[p] = Append(rows, move)
      /\ \A q \in Products : q # p => ledger'[q] = ledger[q]
      /\ ledger' \in [Products -> Seq(Movements)]
  BY <1>3
<1>5. Len(rows) \in Nat /\ (rows = <<>> <=> Len(rows) = 0)
  BY <1>2, EmptySeq
<1> HIDE DEF rows
<1>6. BlankUntilCreated'
  BY <1>1, <1>4 DEF DataInv, BlankUntilCreated
<1>7. ColumnsFit'
  BY <1>1 DEF DataInv, ColumnsFit
<1>8. StockMatchesLedger'
  <2>1. product'[p].stock = ledger'[p][Len(ledger'[p])].new_stock
    BY <1>1, <1>3, <1>4
  <2>2. ledger'[p] # <<>>
    BY <1>3, <1>4
  <2>3. ASSUME NEW q \in Products, q # p
        PROVE  product'[q].stock = IF ledger'[q] = <<>> THEN 0
                                   ELSE ledger'[q][Len(ledger'[q])].new_stock
    BY <1>1, <1>4, <2>3 DEF DataInv, StockMatchesLedger
  <2> QED  BY <2>1, <2>2, <2>3 DEF StockMatchesLedger
<1>9. LedgerChains'
  <2>1. move.previous_stock = IF rows = <<>> THEN 0 ELSE rows[Len(rows)].new_stock
    BY DEF DataInv, StockMatchesLedger, rows
  <2>2. ASSUME NEW i \in 1 .. Len(rows)
        PROVE  /\ Balanced(rows[i])
               /\ rows[i].previous_stock = IF i = 1 THEN 0 ELSE rows[i - 1].new_stock
    BY DEF DataInv, LedgerChains, rows
  <2>3. ASSUME NEW i \in 1 .. Len(rows) + 1
        PROVE  /\ Balanced(Append(rows, move)[i])
               /\ Append(rows, move)[i].previous_stock =
                    IF i = 1 THEN 0 ELSE Append(rows, move)[i - 1].new_stock
    <3>1. CASE i \in 1 .. Len(rows)
      BY <1>3, <1>5, <2>2, <3>1
    <3>2. CASE i = Len(rows) + 1
      BY <1>3, <1>5, <2>1, <3>2
    <3> QED  BY <1>5, <3>1, <3>2
  <2>4. ASSUME NEW i \in 1 .. Len(ledger'[p])
        PROVE  /\ Balanced(ledger'[p][i])
               /\ ledger'[p][i].previous_stock =
                    IF i = 1 THEN 0 ELSE ledger'[p][i - 1].new_stock
    BY <1>3, <1>4, <2>3
  <2>5. ASSUME NEW q \in Products, q # p, NEW i \in 1 .. Len(ledger'[q])
        PROVE  /\ Balanced(ledger'[q][i])
               /\ ledger'[q][i].previous_stock =
                    IF i = 1 THEN 0 ELSE ledger'[q][i - 1].new_stock
    BY <1>4, <2>5 DEF DataInv, LedgerChains
  <2> QED  BY <2>4, <2>5 DEF LedgerChains
<1>10. StockNeverNegative'
  <2>1. CASE AllowNegativeStock
    BY <2>1 DEF StockNeverNegative
  <2>2. CASE ~AllowNegativeStock
    <3>1. \A i \in 1 .. Len(rows) : rows[i].new_stock >= 0
      BY <2>2 DEF DataInv, StockNeverNegative, rows
    <3>2. \A i \in 1 .. Len(rows) + 1 : Append(rows, move)[i].new_stock >= 0
      BY <1>3, <1>5, <2>2, <3>1
    <3> QED  BY <1>1, <1>3, <1>4, <2>2, <3>2 DEF DataInv, StockNeverNegative
  <2> QED  BY <2>1, <2>2, BoundsAssumption
<1>11. CountNeverNegative'
  <2> DEFINE Sound(m) == /\ m.count # NoCount => m.count # 0
                         /\ m.previous_count # NoCount => m.previous_count >= 0
                         /\ m.new_count # NoCount => m.new_count >= 0
  <2>1. \A i \in 1 .. Len(rows) : Sound(rows[i])
    BY DEF DataInv, CountNeverNegative, rows
  <2>2. Sound(move)
    OBVIOUS
  <2>3. \A i \in 1 .. Len(rows) + 1 : Sound(Append(rows, move)[i])
    BY <1>3, <1>5, <2>1, <2>2
  <2> QED  BY <1>1, <1>3, <1>4, <2>3 DEF DataInv, CountNeverNegative
<1> QED  BY <1>1, <1>4, <1>6, <1>7, <1>8, <1>9, <1>10, <1>11 DEF DataInv

\* The whole invariant survives the commit of a stock change.
LEMMA CommitChangePreserves ==
  ASSUME IInv, NEW s \in Sessions, CommitChange(s)
  PROVE  IInv'
<1> DEFINE req == sess[s].req
           row == product[req.pid]
           new == [row EXCEPT !.stock = NewStock(req, row),
                              !.count = IF req.count = NoCount THEN @
                                        ELSE NewCount(req, row)]
           move == MovementOf(req, row, sess[s].start)
<1>1. /\ req.pid \in Products
      /\ req \in Requests /\ req.op \in Changes
      /\ row \in Rows /\ row.status = "live"
      /\ Accepted(req, row)
      /\ new \in Rows /\ move \in Movements
      /\ new.status = "live"
      /\ new.stock = NewStock(req, row)
      /\ new.count = NewCount(req, row)
      /\ product' = [product EXCEPT ![req.pid] = new]
      /\ ledger' = [ledger EXCEPT ![req.pid] = Append(ledger[req.pid], move)]
  BY CommitChangeEffect
<1>2. /\ sess[s].pc = "locked" /\ Finish(s) /\ UNCHANGED clock
  BY DEF CommitChange, Running
<1>3. /\ move.previous_stock = row.stock /\ move.new_stock = new.stock
      /\ move.count = req.count
      /\ move.previous_count = row.count /\ move.new_count = new.count
      /\ move.type = req.op /\ move.quantity = req.quantity
  BY <1>1 DEF MovementOf
<1>4. Balanced(move)
  BY <1>1, <1>3 DEF Balanced, NewStock
<1>5. /\ new.stock >= 0 \/ AllowNegativeStock
      /\ new.count # NoCount => new.count >= 0
      /\ Storable(new.stock, new.count)
  BY <1>1 DEF Accepted, Sufficient
<1>6. /\ move.count # NoCount => move.count # 0
      /\ move.previous_count # NoCount => move.previous_count >= 0
  BY <1>1, <1>3, RequestFields DEF IInv, CountNeverNegative, Changes
<1> HIDE DEF new, move
<1>7. /\ product' \in [Products -> Rows]
      /\ ledger' \in [Products -> Seq(Movements)]
      /\ DataInv'
  BY <1>1, <1>3, <1>4, <1>5, <1>6, AppendPreservesData DEF IInv, TypeOK, DataInv
<1>8. TypeOK'
  BY <1>2, <1>7, FinishType DEF IInv, TypeOK
<1>9. product'[req.pid] = new /\ \A q \in Products : q # req.pid => product'[q] = product[q]
  BY <1>1 DEF IInv, TypeOK
<1>10. LocksExclusive' /\ LockedCopyIsCurrent' /\ LoadedProductExists'
  BY <1>1, <1>2, <1>7, <1>9, EndOfHolder
<1> QED  BY <1>7, <1>8, <1>10 DEF IInv, DataInv

(***************************************************************************)
(* The commit of a new product, with its first movement or without.        *)
(***************************************************************************)
LEMMA CommitCreatePreserves ==
  ASSUME IInv, NEW s \in Sessions, CommitCreate(s)
  PROVE  IInv'
<1> DEFINE req == sess[s].req
           new == [status |-> "live", stock |-> req.quantity, count |-> req.count]
           move == InitialMovement(req, sess[s].start)
<1>1. /\ sess[s].pc = "begun" /\ req.op = "CREATE"
      /\ Finish(s) /\ UNCHANGED clock
      /\ product[req.pid].status = "absent"
      /\ Storable(req.quantity, req.count)
      /\ product' = [product EXCEPT ![req.pid] = new]
      /\ ledger' = IF req.quantity > 0 THEN [ledger EXCEPT ![req.pid] = <<move>>]
                   ELSE ledger
  BY DEF CommitCreate, Running, Creatable
<1>2. /\ req \in Requests /\ req.pid \in Products
      /\ req.quantity \in 0 .. MaxStock /\ req.count \in Nullable(Nat)
      /\ sess[s].start \in Nat
  BY <1>1, ActiveFields, RequestFields DEF IInv
<1>3. new \in Rows
  BY <1>2 DEF Rows, Nullable
<1>4. ledger[req.pid] = <<>> /\ product[req.pid] = NoRow
  BY <1>1, <1>2 DEF IInv, BlankUntilCreated
<1>5. /\ product' \in [Products -> Rows]
      /\ ledger' \in [Products -> Seq(Movements)]
      /\ DataInv'
  <2>1. CASE req.quantity > 0
    <3>1. /\ move \in Movements
          /\ move.previous_stock = 0 /\ move.new_stock = req.quantity
          /\ move.type = "IN" /\ move.quantity = req.quantity
          /\ move.count # NoCount => move.count # 0
          /\ move.previous_count # NoCount => move.previous_count >= 0
          /\ move.new_count = req.count
      BY <1>2 DEF InitialMovement, Movements, Nullable
    <3>2. Balanced(move)
      BY <1>2, <3>1 DEF Balanced
    <3>3. ledger' = [ledger EXCEPT ![req.pid] = Append(ledger[req.pid], move)]
      BY <1>1, <1>4, <2>1
    <3>4. /\ new.status = "live" /\ new.stock = req.quantity /\ new.count = req.count
          /\ new.stock >= 0
          /\ new.count # NoCount => new.count >= 0
          /\ move.previous_stock = product[req.pid].stock
      BY <1>2, <1>4, <3>1 DEF NoRow, Nullable
    <3> HIDE DEF new, move
    <3> QED
      BY <1>1, <1>2, <1>3, <3>1, <3>2, <3>3, <3>4, AppendPreservesData, ZenonT(30)
         DEF IInv, TypeOK, DataInv
  <2>2. CASE ~(req.quantity > 0)
    <3>1. ledger' = ledger /\ new.stock = 0 /\ new.count \in Nullable(Nat)
      BY <1>1, <1>2, <2>2
    <3>2. /\ product' \in [Products -> Rows]
          /\ product'[req.pid] = new
          /\ \A q \in Products : q # req.pid => product'[q] = product[q]
      BY <1>1, <1>2, <1>3 DEF IInv, TypeOK
    <3>3. BlankUntilCreated'
      BY <3>1, <3>2 DEF IInv, BlankUntilCreated
    <3>4. ColumnsFit'
      BY <1>1, <3>2 DEF IInv, ColumnsFit
    <3>5. StockMatchesLedger'
      BY <1>4, <3>1, <3>2 DEF IInv, StockMatchesLedger
    <3>6. LedgerChains'
      BY <3>1 DEF IInv, LedgerChains
    <3>7. StockNeverNegative'
      BY <3>1, <3>2 DEF IInv, StockNeverNegative
    <3>8. CountNeverNegative'
      BY <3>1, <3>2 DEF IInv, CountNeverNegative, Nullable
    <3> QED
      BY <3>1, <3>2, <3>3, <3>4, <3>5, <3>6, <3>7, <3>8 DEF IInv, TypeOK, DataInv
  <2> QED  BY <2>1, <2>2
<1>6. TypeOK'
  BY <1>1, <1>5, FinishType DEF IInv, TypeOK
<1>7. /\ \A t \in Sessions : sess'[t] = IF t = s THEN Idle ELSE sess[t]
      /\ product'[req.pid].status = "live"
      /\ \A q \in Products : q # req.pid => product'[q] = product[q]
  BY <1>1, <1>2 DEF IInv, TypeOK, Finish
<1>8. \A t \in Sessions : sess[t].pc # "idle" => sess[t].req.pid \in Products
  BY ActiveFields DEF IInv
<1>9. LocksExclusive' /\ LoadedProductExists'
  BY <1>7, <1>8 DEF IInv, LocksExclusive, LoadedProductExists, Idle
<1>10. LockedCopyIsCurrent'
  BY <1>1, <1>7, <1>8 DEF IInv, LockedCopyIsCurrent, Idle
<1> QED  BY <1>5, <1>6, <1>9, <1>10 DEF IInv, DataInv

(***************************************************************************)
(* Commits that write the count or the deletion mark and leave the balance *)
(* and the ledger alone.                                                   *)
(***************************************************************************)
LEMMA MetadataPreservesData ==
  ASSUME product \in [Products -> Rows], DataInv, NEW p \in Products, NEW new \in Rows,
         product[p].status # "absent",
         product' = [product EXCEPT ![p] = new], UNCHANGED ledger,
         new.status # "absent",
         new.stock = product[p].stock,
         Storable(new.stock, new.count),
         new.count # NoCount => new.count >= 0
  PROVE  DataInv'
<1>1. /\ product'[p] = new
      /\ \A q \in Products : q # p => product'[q] = product[q]
  OBVIOUS
<1>2. BlankUntilCreated' /\ ColumnsFit'
  BY <1>1 DEF DataInv, BlankUntilCreated, ColumnsFit
<1>3. StockMatchesLedger'
  BY <1>1 DEF DataInv, StockMatchesLedger
<1>4. LedgerChains'
  BY DEF DataInv, LedgerChains
<1>5. StockNeverNegative'
  BY <1>1 DEF DataInv, StockNeverNegative
<1>6. CountNeverNegative'
  BY <1>1 DEF DataInv, CountNeverNegative
<1> QED  BY <1>2, <1>3, <1>4, <1>5, <1>6 DEF DataInv

\* ... the write of the count by PUT,
LEMMA CommitUpdatePreserves ==
  ASSUME IInv, NEW s \in Sessions, CommitUpdate(s)
  PROVE  IInv'
<1> DEFINE req == sess[s].req
           row == product[req.pid]
           new == [row EXCEPT !.count = req.count]
<1>1. /\ sess[s].pc = "loaded" /\ req.op = "UPDATE"
      /\ Finish(s) /\ UNCHANGED <<ledger, clock>>
  BY DEF CommitUpdate, Running
<1>2. /\ req \in Requests /\ req.pid \in Products /\ req.count \in Nullable(Nat)
  BY <1>1, ActiveFields, RequestFields DEF IInv
<1>3. row \in Rows /\ row.status # "absent"
  BY <1>1, <1>2 DEF IInv, TypeOK, LoadedProductExists
<1>4. CASE UNCHANGED product
  BY <1>1, <1>4, EndWithoutWrite
<1>5. CASE Unlocked(req.pid) /\ Storable(0, req.count)
           /\ product' = [product EXCEPT ![req.pid] = new]
  <2>1. /\ new \in Rows /\ new.status = row.status
        /\ new.stock = row.stock /\ new.count = req.count
    BY <1>2, <1>3 DEF Rows, Nullable
  <2>2. Storable(new.stock, new.count)
    BY <1>2, <1>5, <2>1 DEF IInv, ColumnsFit, Storable
  <2> HIDE DEF new
  <2>3. /\ product' \in [Products -> Rows]
        /\ product'[req.pid] = new
        /\ \A q \in Products : q # req.pid => product'[q] = product[q]
    BY <1>2, <1>5, <2>1 DEF IInv, TypeOK
  <2>4. DataInv'
    <3>1. new.count # NoCount => new.count >= 0
      BY <1>2, <2>1 DEF Nullable
    <3> QED
      BY <1>1, <1>2, <1>3, <1>5, <2>1, <2>2, <3>1, MetadataPreservesData
         DEF IInv, TypeOK, DataInv
  <2>5. TypeOK'
    BY <1>1, <2>3, FinishType DEF IInv, TypeOK
  <2>6. \A t \in Sessions : sess'[t] = IF t = s THEN Idle ELSE sess[t]
    BY <1>1 DEF IInv, TypeOK, Finish
  <2>7. \A t \in Sessions : sess[t].pc # "idle" => sess[t].req.pid \in Products
    BY ActiveFields DEF IInv
  <2>8. LocksExclusive'
    BY <2>6 DEF IInv, LocksExclusive, Idle
  <2>9. LockedCopyIsCurrent'
    BY <1>5, <2>3, <2>6, <2>7 DEF IInv, LockedCopyIsCurrent, Unlocked, Holds, Idle
  <2>10. LoadedProductExists'
    BY <1>3, <2>1, <2>3, <2>6, <2>7 DEF IInv, LoadedProductExists, Idle
  <2> QED  BY <2>4, <2>5, <2>8, <2>9, <2>10 DEF IInv, DataInv
<1>6. \/ UNCHANGED product
      \/ /\ Unlocked(req.pid) /\ Storable(0, req.count)
         /\ product' = [product EXCEPT ![req.pid] = new]
  <2>1. CASE req.count = sess[s].seen.count
    <3>1. product' = [product EXCEPT ![req.pid].count = product[req.pid].count]
      BY <2>1 DEF CommitUpdate
    <3>2. [row EXCEPT !.count = row.count] = row
      BY <1>3 DEF Rows
    <3>3. product' = [product EXCEPT ![req.pid] = row]
      BY <3>1, <3>2
    <3>4. product \in [Products -> Rows]
      BY DEF IInv, TypeOK
    <3>5. [product EXCEPT ![req.pid] = row] = product
      BY <1>2, <3>4
    <3>6. product' = product
      BY <3>3, <3>5
    <3> QED  BY <3>6
  <2>2. CASE req.count # sess[s].seen.count
    BY <2>2 DEF CommitUpdate
  <2> QED  BY <2>1, <2>2
<1> QED  BY <1>4, <1>5, <1>6

\* ... the soft delete,
LEMMA CommitDeletePreserves ==
  ASSUME IInv, NEW s \in Sessions, CommitDelete(s)
  PROVE  IInv'
<1> DEFINE p == sess[s].req.pid
           new == [product[p] EXCEPT !.status = "deleted"]
<1>1. /\ sess[s].pc = "loaded" /\ Unlocked(p)
      /\ product' = [product EXCEPT ![p] = new]
      /\ Finish(s) /\ UNCHANGED <<ledger, clock>>
  BY DEF CommitDelete, Running
<1>2. p \in Products
  BY <1>1, ActiveFields DEF IInv
<1>3. product[p] \in Rows /\ product[p].status # "absent"
  BY <1>1, <1>2 DEF IInv, TypeOK, LoadedProductExists
<1>4. /\ new \in Rows /\ new.status = "deleted"
      /\ new.stock = product[p].stock /\ new.count = product[p].count
  BY <1>3 DEF Rows
<1> HIDE DEF new
<1>5. /\ product' \in [Products -> Rows]
      /\ product'[p] = new
      /\ \A q \in Products : q # p => product'[q] = product[q]
  BY <1>1, <1>2, <1>4 DEF IInv, TypeOK
<1>6. Storable(new.stock, new.count) /\ (new.count # NoCount => new.count >= 0)
  BY <1>2, <1>4 DEF IInv, ColumnsFit, CountNeverNegative
<1>7. DataInv'
  BY <1>1, <1>2, <1>3, <1>4, <1>6, MetadataPreservesData DEF IInv, TypeOK, DataInv
<1>8. TypeOK'
  BY <1>1, <1>5, FinishType DEF IInv, TypeOK
<1>9. \A t \in Sessions : sess'[t] = IF t = s THEN Idle ELSE sess[t]
  BY <1>1 DEF IInv, TypeOK, Finish
<1>10. \A t \in Sessions : sess[t].pc # "idle" => sess[t].req.pid \in Products
  BY ActiveFields DEF IInv
<1>11. LocksExclusive'
  BY <1>9 DEF IInv, LocksExclusive, Idle
<1>12. LockedCopyIsCurrent'
  BY <1>1, <1>5, <1>9, <1>10 DEF IInv, LockedCopyIsCurrent, Unlocked, Holds, Idle
<1>13. LoadedProductExists'
  BY <1>4, <1>5, <1>9, <1>10 DEF IInv, LoadedProductExists, Idle
<1> QED  BY <1>7, <1>8, <1>11, <1>12, <1>13 DEF IInv, DataInv

\* ... and the restore.
LEMMA CommitRestorePreserves ==
  ASSUME IInv, NEW s \in Sessions, CommitRestore(s)
  PROVE  IInv'
<1> DEFINE p == sess[s].req.pid
           new == [product[p] EXCEPT !.status = "live"]
<1>1. /\ sess[s].pc = "locked" /\ sess[s].req.op = "RESTORE"
      /\ product' = [product EXCEPT ![p] = new]
      /\ Finish(s) /\ UNCHANGED <<ledger, clock>>
  BY DEF CommitRestore, Running
<1>2. p \in Products
  BY <1>1, ActiveFields DEF IInv
<1>3. product[p] \in Rows /\ product[p].status # "absent"
  BY <1>1, <1>2 DEF IInv, TypeOK, LockedCopyIsCurrent
<1>4. /\ new \in Rows /\ new.status = "live"
      /\ new.stock = product[p].stock /\ new.count = product[p].count
  BY <1>3 DEF Rows
<1> HIDE DEF new
<1>5. /\ product' \in [Products -> Rows]
      /\ product'[p] = new
      /\ \A q \in Products : q # p => product'[q] = product[q]
  BY <1>1, <1>2, <1>4 DEF IInv, TypeOK
<1>6. Storable(new.stock, new.count) /\ (new.count # NoCount => new.count >= 0)
  BY <1>2, <1>4 DEF IInv, ColumnsFit, CountNeverNegative
<1>7. DataInv'
  BY <1>1, <1>2, <1>3, <1>4, <1>6, MetadataPreservesData DEF IInv, TypeOK, DataInv
<1>8. TypeOK'
  BY <1>1, <1>5, FinishType DEF IInv, TypeOK
<1>9. LocksExclusive' /\ LockedCopyIsCurrent' /\ LoadedProductExists'
  BY <1>1, <1>4, <1>5, EndOfHolder
<1> QED  BY <1>7, <1>8, <1>9 DEF IInv, DataInv

\* A step that changes nothing.
LEMMA StutterPreserves ==
  ASSUME IInv, UNCHANGED vars
  PROVE  IInv'
<1>1. TypeOK'
  BY DEF vars, IInv, TypeOK
<1>2. LocksExclusive' /\ LockedCopyIsCurrent' /\ LoadedProductExists'
  BY DEF vars, IInv, LocksExclusive, LockedCopyIsCurrent, LoadedProductExists
<1>3. DataInv'
  BY DataUnchanged DEF vars, IInv, DataInv
<1> QED  BY <1>1, <1>2, <1>3 DEF IInv, DataInv

\* Every action of every request slot, and every step that changes nothing,
\* keeps the invariant: one step of the proof per action.
THEOREM StepPreservesIInv == IInv /\ [Next]_vars => IInv'
<1> SUFFICES ASSUME IInv, [Next]_vars PROVE IInv'
  OBVIOUS
<1>1. CASE UNCHANGED vars
  BY <1>1, StutterPreserves
<1>2. ASSUME NEW s \in Sessions, NEW req \in Requests, Begin(s, req) PROVE IInv'
  BY <1>2, BeginPreserves
<1>3. ASSUME NEW s \in Sessions, LockForChange(s) \/ LockForRestore(s) PROVE IInv'
  BY <1>3, LockPreserves
<1>4. ASSUME NEW s \in Sessions, LoadForWrite(s) PROVE IInv'
  BY <1>4, LoadPreserves
<1>5. ASSUME NEW s \in Sessions,
             \/ NotFound(s) \/ RejectChange(s) \/ RefuseCreate(s)
             \/ RejectUpdate(s) \/ Rollback(s)
      PROVE  IInv'
  BY <1>5, EndWithoutWrite DEF NotFound, RejectChange, RefuseCreate, RejectUpdate, Rollback
<1>6. ASSUME NEW s \in Sessions, CommitChange(s) PROVE IInv'
  BY <1>6, CommitChangePreserves
<1>7. ASSUME NEW s \in Sessions, CommitCreate(s) PROVE IInv'
  BY <1>7, CommitCreatePreserves
<1>8. ASSUME NEW s \in Sessions, CommitUpdate(s) PROVE IInv'
  BY <1>8, CommitUpdatePreserves
<1>9. ASSUME NEW s \in Sessions, CommitDelete(s) PROVE IInv'
  BY <1>9, CommitDeletePreserves
<1>10. ASSUME NEW s \in Sessions, CommitRestore(s) PROVE IInv'
  BY <1>10, CommitRestorePreserves
<1> QED
  BY <1>1, <1>2, <1>3, <1>4, <1>5, <1>6, <1>7, <1>8, <1>9, <1>10 DEF Next, Advance

\* The inductive invariant holds in every reachable state, for any numbers of
\* products and sessions.
THEOREM Invariance == Spec => []IInv
BY InitEstablishesIInv, StepPreservesIInv, PTL DEF Spec

\* Committed and in-flight state keep their types.
THEOREM TypeCorrect == Spec => []TypeOK
<1>1. IInv => TypeOK
  BY DEF IInv
<1> QED  BY <1>1, Invariance, PTL

\* No interleaving of requests loses or repeats a movement: the balance is
\* what the newest ledger row says.
THEOREM NoLostMovement == Spec => []StockMatchesLedger
<1>1. IInv => StockMatchesLedger
  BY DEF IInv
<1> QED  BY <1>1, Invariance, PTL

\* Consecutive ledger rows of a product fit together, from zero onwards.
THEOREM LedgerIsAChain == Spec => []LedgerChains
<1>1. IInv => LedgerChains
  BY DEF IInv
<1> QED  BY <1>1, Invariance, PTL

\* Without allow_negative_stock no balance is ever below zero.
THEOREM NeverNegative == Spec => []StockNeverNegative
<1>1. IInv => StockNeverNegative
  BY DEF IInv
<1> QED  BY <1>1, Invariance, PTL

\* Counts are never below zero, so the ledger's check constraints never fire.
THEOREM CountsNeverNegative == Spec => []CountNeverNegative
<1>1. IInv => CountNeverNegative
  BY DEF IInv
<1> QED  BY <1>1, Invariance, PTL

(***************************************************************************)
(* The ledger is append-only and moves with live products only.            *)
(***************************************************************************)
LEMMA GrowthStep == IInv /\ [Next]_vars => [\A p \in Products : LedgerStep(p)]_vars
<1> SUFFICES ASSUME IInv, [Next]_vars, NEW p \in Products, ledger'[p] # ledger[p]
             PROVE  LedgerStep(p)
  BY DEF LedgerStep
<1>1. ASSUME NEW s \in Sessions, CommitChange(s) PROVE LedgerStep(p)
  <2> DEFINE q == sess[s].req.pid
             move == MovementOf(sess[s].req, product[q], sess[s].start)
  <2>1. /\ q \in Products
        /\ product[q].status = "live"
        /\ move \in Movements
        /\ product'[q].status = "live"
        /\ ledger' = [ledger EXCEPT ![q] = Append(ledger[q], move)]
    BY <1>1, CommitChangeEffect DEF IInv, TypeOK
  <2> HIDE DEF move
  <2>2. ledger \in [Products -> Seq(Movements)]
    BY DEF IInv, TypeOK
  <2>3. p = q /\ ledger'[p] = Append(ledger[p], move)
    BY <2>1, <2>2
  <2>4. ledger[p] \in Seq(Movements)
    BY <2>2
  <2>5. /\ Len(ledger'[p]) = Len(ledger[p]) + 1
        /\ \A i \in 1 .. Len(ledger[p]) : ledger'[p][i] = ledger[p][i]
    <3>1. PICK before \in Seq(Movements), m \in Movements : before = ledger[p] /\ m = move
      BY <2>1, <2>4
    <3>2. /\ Len(Append(before, m)) = Len(before) + 1
          /\ \A i \in 1 .. Len(before) : Append(before, m)[i] = before[i]
      BY <3>1, AppendProperties
    <3>3. ledger'[p] = Append(before, m)
      BY <2>3, <3>1
    <3> QED  BY <3>1, <3>2, <3>3, ZenonT(30)
  <2> QED  BY <2>1, <2>3, <2>5 DEF LedgerStep
<1>2. ASSUME NEW s \in Sessions, CommitCreate(s) PROVE LedgerStep(p)
  <2> DEFINE q == sess[s].req.pid
  <2>1. q \in Products
    BY <1>2, ActiveFields DEF CommitCreate, Running, IInv
  <2>2. ledger[q] = <<>> /\ ledger \in [Products -> Seq(Movements)]
        /\ product \in [Products -> Rows]
    BY <1>2, <2>1 DEF CommitCreate, Creatable, IInv, BlankUntilCreated, TypeOK
  <2>3. /\ ledger' = [ledger EXCEPT ![q] = <<InitialMovement(sess[s].req, sess[s].start)>>]
        /\ product'[q].status = "live"
    BY <1>2, <2>1, <2>2 DEF CommitCreate
  <2>4. p = q /\ Len(ledger'[p]) = 1 /\ Len(ledger[p]) = 0
    BY <2>1, <2>2, <2>3
  <2> QED  BY <2>2, <2>3, <2>4 DEF LedgerStep
<1>3. \/ \E s \in Sessions : CommitChange(s)
      \/ \E s \in Sessions : CommitCreate(s)
  BY DEF Next, Advance, vars, Begin, LockForChange, LockForRestore, LoadForWrite,
         NotFound, RejectChange, RefuseCreate, CommitUpdate, RejectUpdate,
         CommitDelete, CommitRestore, Rollback
<1> QED  BY <1>1, <1>2, <1>3

\* Ledger rows are never changed or removed, and a soft-deleted product never
\* gets another one, whatever waited behind the delete.
THEOREM LedgerGrowth == Spec => LedgerOnlyGrowsWhileLive
BY Invariance, GrowthStep, PTL DEF Spec, LedgerOnlyGrowsWhileLive

(***************************************************************************)
(* StockLedger implements StockBook.                                       *)
(***************************************************************************)
\* The entries of an empty ledger, and of a ledger with one row more.
LEMMA EntriesEmpty == EntriesOf(<<>>) = <<>>
BY DEF EntriesOf

\* The book's entries of a ledger grow with it.
LEMMA EntriesAppend ==
  ASSUME NEW rows \in Seq(Movements), NEW move \in Movements
  PROVE  EntriesOf(Append(rows, move)) = Append(EntriesOf(rows), Kilograms(move))
<1>1. /\ Len(Append(rows, move)) = Len(rows) + 1
      /\ \A i \in 1 .. Len(rows) : Append(rows, move)[i] = rows[i]
      /\ Append(rows, move)[Len(rows) + 1] = move
      /\ Len(rows) \in Nat
  BY AppendProperties, LenProperties
<1>2. /\ \A i \in 1 .. Len(rows) : rows[i] \in Movements
      /\ \A m \in Movements : Kilograms(m) \in Int
  <2>1. \A i \in 1 .. Len(rows) : rows[i] \in Movements
    BY LenProperties
  <2>2. \A m \in Movements : Kilograms(m) \in Int
    BY DEF Kilograms, Movements
  <2> QED  BY <2>1, <2>2
<1>3. EntriesOf(rows) \in Seq(Int) /\ Len(EntriesOf(rows)) = Len(rows)
  BY <1>1, <1>2 DEF EntriesOf
<1> DEFINE all == Append(EntriesOf(rows), Kilograms(move))
<1>4. /\ all \in Seq(Int)
      /\ Len(all) = Len(rows) + 1
      /\ \A i \in 1 .. Len(rows) : all[i] = Kilograms(rows[i])
      /\ all[Len(rows) + 1] = Kilograms(move)
  BY <1>2, <1>3, AppendProperties DEF EntriesOf
<1>5. all = [i \in 1 .. Len(all) |-> all[i]]
  BY <1>4, LenProperties
<1> HIDE DEF all
<1>6. \A i \in 1 .. Len(rows) + 1 : all[i] = Kilograms(Append(rows, move)[i])
  BY <1>1, <1>4
<1>7. EntriesOf(Append(rows, move)) = [i \in 1 .. Len(rows) + 1 |-> all[i]]
  BY <1>1, <1>6 DEF EntriesOf
<1> QED  BY <1>4, <1>5, <1>7 DEF all

\* A stock change in the book's terms: so many kilograms, so many pieces.
SignedPieces(req) == IF req.count = NoCount THEN NoCount
                     ELSE IF req.op = "OUT" THEN -req.count ELSE req.count

\* The arithmetic of a stock change is the signed arithmetic of the book.
LEMMA MoveArithmetic ==
  ASSUME NEW req \in Requests, req.op \in Changes, NEW row \in Rows,
         Accepted(req, row),
         row.count # NoCount => row.count \in 0 .. MaxCount
  PROVE  /\ NewStock(req, row) - row.stock \in (-MaxStock) .. MaxStock
         /\ row.stock + (NewStock(req, row) - row.stock) = NewStock(req, row)
         /\ SignedPieces(req) \in (-MaxCount) .. MaxCount \cup {NoCount}
         /\ Book!Recounted(row.count, SignedPieces(req)) = NewCount(req, row)
         /\ NewStock(req, row) >= 0 \/ AllowNegativeStock
         /\ NewStock(req, row) \in (-MaxStock) .. MaxStock
         /\ NewCount(req, row) \in (0 .. MaxCount) \cup {NoCount}
<1>1. /\ req.quantity \in (-MaxStock) .. MaxStock
      /\ req.count \in Int \/ req.count = NoCount
      /\ row.stock \in Int
      /\ row.count \in 0 .. MaxCount \/ row.count = NoCount
  BY RequestFields DEF Changes, Nullable, Rows
<1>2. /\ NewStock(req, row) - row.stock \in (-MaxStock) .. MaxStock
      /\ row.stock + (NewStock(req, row) - row.stock) = NewStock(req, row)
  BY <1>1 DEF NewStock
<1>3. /\ NewStock(req, row) >= 0 \/ AllowNegativeStock
      /\ NewStock(req, row) \in (-MaxStock) .. MaxStock
      /\ NewCount(req, row) # NoCount => NewCount(req, row) >= 0 /\ NewCount(req, row) <= MaxCount
  BY DEF Accepted, Sufficient, Storable
<1>4. CASE req.count = NoCount
  BY <1>1, <1>2, <1>3, <1>4 DEF NewCount, SignedPieces, Book!Recounted
<1>5. CASE req.count # NoCount
  <2>1. req.count \in Int
    BY <1>1, <1>5
  <2>2. /\ SignedPieces(req) = IF req.op = "OUT" THEN -req.count ELSE req.count
        /\ SignedPieces(req) \in Int
    BY <1>5, <2>1 DEF SignedPieces
  <2>3. NewCount(req, row) = OrZero(row.count) + SignedPieces(req)
    BY <1>1, <1>5, <2>1, <2>2 DEF NewCount, OrZero
  <2>4. OrZero(row.count) \in 0 .. MaxCount
    BY <1>1 DEF OrZero
  <2>5. NewCount(req, row) \in 0 .. MaxCount /\ SignedPieces(req) \in (-MaxCount) .. MaxCount
    BY <1>3, <2>2, <2>3, <2>4
  <2>6. Book!Recounted(row.count, SignedPieces(req)) = NewCount(req, row)
    BY <1>1, <2>2, <2>3 DEF OrZero, Book!Recounted
  <2> QED  BY <1>2, <1>3, <2>5, <2>6
<1> QED  BY <1>4, <1>5

\* The commit of a stock change is a movement entered in the book.
LEMMA MapsToMove ==
  ASSUME IInv, NEW s \in Sessions, CommitChange(s),
         NEW p \in Products, p = sess[s].req.pid
  PROVE  Book!Next
<1> DEFINE req == sess[s].req
           row == product[p]
           new == [row EXCEPT !.stock = NewStock(req, row),
                              !.count = IF req.count = NoCount THEN @
                                        ELSE NewCount(req, row)]
           move == MovementOf(req, row, sess[s].start)
           kilograms == NewStock(req, row) - row.stock
           pieces == SignedPieces(req)
<1>1. /\ req \in Requests /\ req.op \in Changes
      /\ row \in Rows /\ row.status = "live"
      /\ Accepted(req, row)
      /\ new \in Rows /\ move \in Movements
      /\ new.status = "live"
      /\ new.stock = NewStock(req, row)
      /\ new.count = NewCount(req, row)
      /\ product' = [product EXCEPT ![p] = new]
      /\ ledger' = [ledger EXCEPT ![p] = Append(ledger[p], move)]
  BY CommitChangeEffect
<1>2. row.count # NoCount => row.count \in 0 .. MaxCount
  <2>1. row.count \in Nullable(Int)
    BY <1>1 DEF Rows
  <2>2. row.count # NoCount => row.count <= MaxCount
    BY DEF IInv, ColumnsFit, Storable
  <2>3. row.count # NoCount => row.count >= 0
    BY DEF IInv, CountNeverNegative
  <2> QED  BY <2>1, <2>2, <2>3, BoundsAssumption DEF Nullable
<1>3. /\ kilograms \in (-MaxStock) .. MaxStock
      /\ row.stock + kilograms = NewStock(req, row)
      /\ pieces \in (-MaxCount) .. MaxCount \cup {NoCount}
      /\ Book!Recounted(row.count, pieces) = NewCount(req, row)
      /\ NewStock(req, row) >= 0 \/ AllowNegativeStock
      /\ NewStock(req, row) \in (-MaxStock) .. MaxStock
      /\ NewCount(req, row) \in (0 .. MaxCount) \cup {NoCount}
  BY <1>1, <1>2, MoveArithmetic
<1>4. Kilograms(move) = kilograms
  BY DEF Kilograms, MovementOf
<1> HIDE DEF new, move, kilograms, pieces
<1>5. /\ product'[p] = new
      /\ ledger'[p] = Append(ledger[p], move)
      /\ ledger[p] \in Seq(Movements)
      /\ \A q \in Products : q # p => product'[q] = product[q] /\ ledger'[q] = ledger[q]
  BY <1>1 DEF IInv, TypeOK
<1>6. EntriesOf(ledger'[p]) = Append(EntriesOf(ledger[p]), kilograms)
  BY <1>1, <1>4, <1>5, EntriesAppend
<1>7. /\ [q \in Products |-> product'[q].status] = [q \in Products |-> product[q].status]
      /\ [q \in Products |-> product'[q].stock] =
           [[q \in Products |-> product[q].stock] EXCEPT ![p] = @ + kilograms]
      /\ [q \in Products |-> product'[q].count] =
           [[q \in Products |-> product[q].count] EXCEPT ![p] = Book!Recounted(@, pieces)]
  <2>1. /\ new.status = row.status
        /\ new.stock = row.stock + kilograms
        /\ new.count = Book!Recounted(row.count, pieces)
    BY <1>1, <1>3
  <2> QED  BY <1>5, <2>1
<1>8. [q \in Products |-> EntriesOf(ledger'[q])] =
        [[q \in Products |-> EntriesOf(ledger[q])] EXCEPT ![p] = Append(@, kilograms)]
  BY <1>5, <1>6
<1>9. PICK k \in Book!Balances, n \in (-MaxCount) .. MaxCount \cup {NoCount} :
        k = kilograms /\ n = pieces
  BY <1>3 DEF Book!Balances
<1>10. Book!Move(p, k, n)
  BY <1>1, <1>3, <1>7, <1>8, <1>9 DEF Book!Move, Book!Balances, Book!Pieces, EntriesOf
<1> QED  BY <1>10 DEF Book!Next

\* The commit of a new product opens a page.
LEMMA MapsToOpen ==
  ASSUME IInv, NEW s \in Sessions, CommitCreate(s),
         NEW p \in Products, p = sess[s].req.pid
  PROVE  Book!Next
<1> DEFINE req == sess[s].req
           move == InitialMovement(req, sess[s].start)
<1>1. /\ sess[s].pc = "begun" /\ req.op = "CREATE"
      /\ product[p].status = "absent"
      /\ Storable(req.quantity, req.count)
      /\ product' = [product EXCEPT ![p] = [status |-> "live", stock |-> req.quantity,
                                           count |-> req.count]]
      /\ ledger' = IF req.quantity > 0 THEN [ledger EXCEPT ![p] = <<move>>] ELSE ledger
  BY DEF CommitCreate, Running, Creatable
<1>2. req.quantity \in 0 .. MaxStock /\ req.count \in Nullable(Nat)
  BY <1>1, ActiveFields, RequestFields DEF IInv
<1>2b. sess[s].start \in Nat
  BY <1>1, ActiveFields DEF IInv
<1>3. PICK opening \in 0 .. MaxStock, pieces \in Book!Pieces :
        opening = req.quantity /\ pieces = req.count
  <2>1. req.count \in Book!Pieces
    <3> DEFINE n == req.count
    <3>1. n \in Nullable(Nat) /\ (n # NoCount => n <= MaxCount)
      BY <1>1, <1>2 DEF Storable
    <3> HIDE DEF n
    <3>2. n \in Book!Pieces
      BY <3>1, BoundsAssumption DEF Book!Pieces, Nullable
    <3>3. QED
      BY <3>2 DEF n
  <2>2. QED
    BY <1>2, <2>1
<1>4. ledger[p] = <<>>
  BY <1>1 DEF IInv, BlankUntilCreated
<1>5. Kilograms(move) = opening
  BY <1>2, <1>3 DEF Kilograms, InitialMovement
<1> HIDE DEF move
<1>6. /\ product'[p] = [status |-> "live", stock |-> opening, count |-> pieces]
      /\ ledger'[p] = IF opening > 0 THEN <<move>> ELSE <<>>
      /\ \A q \in Products : q # p => product'[q] = product[q] /\ ledger'[q] = ledger[q]
  BY <1>1, <1>3, <1>4 DEF IInv, TypeOK
<1>7. /\ EntriesOf(<<move>>) = <<opening>>
      /\ EntriesOf(<<>>) = <<>>
  <2>1. EntriesOf(<<>>) = <<>>
    BY EntriesEmpty
  <2>2. move \in Movements
    BY <1>2, <1>2b DEF move, InitialMovement, Movements, Nullable
  <2>3. /\ <<>> \in Seq(Movements)
        /\ <<move>> = Append(<<>>, move) /\ <<opening>> = Append(<<>>, opening)
    OBVIOUS
  <2> QED  BY <1>5, <2>1, <2>2, <2>3, EntriesAppend
<1>8. /\ [q \in Products |-> product'[q].status] =
           [[q \in Products |-> product[q].status] EXCEPT ![p] = "live"]
      /\ [q \in Products |-> product'[q].stock] =
           [[q \in Products |-> product[q].stock] EXCEPT ![p] = opening]
      /\ [q \in Products |-> product'[q].count] =
           [[q \in Products |-> product[q].count] EXCEPT ![p] = pieces]
  <2>1. /\ product'[p].status = "live"
        /\ product'[p].stock = opening
        /\ product'[p].count = pieces
    BY <1>6
  <2>2. \A q \in Products : q # p => product'[q] = product[q]
    BY <1>6
  <2> QED  BY <2>1, <2>2
<1>9. EntriesOf(ledger'[p]) = IF opening > 0 THEN <<opening>> ELSE <<>>
  BY <1>6, <1>7
<1>10. [q \in Products |-> EntriesOf(ledger'[q])] =
         [[q \in Products |-> EntriesOf(ledger[q])]
            EXCEPT ![p] = IF opening > 0 THEN <<opening>> ELSE <<>>]
  BY <1>6, <1>9
<1>11. Book!Open(p, opening, pieces)
  BY <1>1, <1>8, <1>10 DEF Book!Open, EntriesOf
<1> QED  BY <1>11 DEF Book!Next

\* A write of the count or of the deletion mark maps to a step that leaves
\* the entries alone.
LEMMA MapsToOneColumn ==
  ASSUME NEW p \in Products, NEW new,
         product' = [product EXCEPT ![p] = new], product \in [Products -> Rows],
         UNCHANGED ledger, new.stock = product[p].stock
  PROVE  /\ [q \in Products |-> product'[q].status] =
              [[q \in Products |-> product[q].status] EXCEPT ![p] = new.status]
         /\ [q \in Products |-> product'[q].stock] = [q \in Products |-> product[q].stock]
         /\ [q \in Products |-> product'[q].count] =
              [[q \in Products |-> product[q].count] EXCEPT ![p] = new.count]
         /\ [q \in Products |-> EntriesOf(ledger'[q])] = [q \in Products |-> EntriesOf(ledger[q])]
<1>1. /\ product'[p] = new
      /\ \A q \in Products : q # p => product'[q] = product[q]
  OBVIOUS
<1> QED  BY <1>1

\* PUT corrects the count, or changes nothing the book shows.
LEMMA MapsToRecount ==
  ASSUME IInv, NEW s \in Sessions, CommitUpdate(s),
         NEW p \in Products, p = sess[s].req.pid
  PROVE  \/ Book!Next
         \/ UNCHANGED <<product, ledger>>
<1> DEFINE req == sess[s].req
           new == [product[p] EXCEPT !.count = req.count]
<1>1. sess[s].pc = "loaded" /\ req.op = "UPDATE" /\ UNCHANGED ledger
  BY DEF CommitUpdate, Running
<1>2. /\ req.count \in Nullable(Nat)
      /\ product \in [Products -> Rows] /\ product[p] \in Rows
      /\ product[p].status # "absent"
  BY <1>1, ActiveFields, RequestFields DEF IInv, TypeOK, LoadedProductExists
<1>3. CASE req.count = sess[s].seen.count
  <2>1. product' = [product EXCEPT ![p] = [product[p] EXCEPT !.count = product[p].count]]
    BY <1>3 DEF CommitUpdate
  <2>2. [product[p] EXCEPT !.count = product[p].count] = product[p]
    BY <1>2 DEF Rows
  <2>3. product' = [product EXCEPT ![p] = product[p]]
    BY <2>1, <2>2
  <2>4. product' = product
    BY <1>2, <2>3
  <2> QED  BY <1>1, <2>4
<1>4. CASE req.count # sess[s].seen.count
  <2>1. Storable(0, req.count) /\ product' = [product EXCEPT ![p] = new]
    BY <1>4 DEF CommitUpdate
  <2>2. new.status = product[p].status /\ new.stock = product[p].stock
        /\ new.count = req.count
    BY <1>2 DEF Rows
  <2>3. PICK pieces \in Book!Pieces : pieces = req.count
    BY <1>2, <2>1 DEF Book!Pieces, Storable, Nullable
  <2> HIDE DEF new
  <2>4. /\ [q \in Products |-> product'[q].status] =
             [[q \in Products |-> product[q].status] EXCEPT ![p] = product[p].status]
        /\ [q \in Products |-> product'[q].stock] = [q \in Products |-> product[q].stock]
        /\ [q \in Products |-> product'[q].count] =
             [[q \in Products |-> product[q].count] EXCEPT ![p] = pieces]
        /\ [q \in Products |-> EntriesOf(ledger'[q])] = [q \in Products |-> EntriesOf(ledger[q])]
    BY <1>1, <1>2, <2>1, <2>2, <2>3, MapsToOneColumn
  <2>5. [[q \in Products |-> product[q].status] EXCEPT ![p] = product[p].status]
          = [q \in Products |-> product[q].status]
    OBVIOUS
  <2>6. Book!Recount(p, pieces)
    BY <1>2, <2>4, <2>5 DEF Book!Recount, EntriesOf
  <2> QED  BY <2>6 DEF Book!Next
<1> QED  BY <1>3, <1>4

\* Deleting closes the page, restoring reopens it.
LEMMA MapsToCloseOrReopen ==
  ASSUME IInv, NEW s \in Sessions, CommitDelete(s) \/ CommitRestore(s),
         NEW p \in Products, p = sess[s].req.pid
  PROVE  Book!Next
<1>1. PICK mark \in {"live", "deleted"} :
        /\ product' = [product EXCEPT ![p] = [product[p] EXCEPT !.status = mark]]
        /\ mark = "deleted" => product[p].status # "absent"
        /\ mark = "live" => product[p].status = "deleted"
        /\ UNCHANGED ledger
  <2>1. CASE CommitDelete(s)
    BY <2>1 DEF CommitDelete, Running, IInv, LoadedProductExists
  <2>2. CASE CommitRestore(s)
    BY <2>2 DEF CommitRestore, Running, IInv, LockedCopyIsCurrent, Changes
  <2> QED  BY <2>1, <2>2
<1> DEFINE new == [product[p] EXCEPT !.status = mark]
<1>2. product \in [Products -> Rows] /\ product[p] \in Rows
  BY DEF IInv, TypeOK
<1>3. new.status = mark /\ new.stock = product[p].stock /\ new.count = product[p].count
  BY <1>2 DEF Rows
<1>4. product' = [product EXCEPT ![p] = new]
  BY <1>1
<1> HIDE DEF new
<1>5. /\ [q \in Products |-> product'[q].status] =
           [[q \in Products |-> product[q].status] EXCEPT ![p] = mark]
      /\ [q \in Products |-> product'[q].stock] = [q \in Products |-> product[q].stock]
      /\ [q \in Products |-> product'[q].count] =
           [[q \in Products |-> product[q].count] EXCEPT ![p] = product[p].count]
      /\ [q \in Products |-> EntriesOf(ledger'[q])] = [q \in Products |-> EntriesOf(ledger[q])]
  BY <1>1, <1>2, <1>3, <1>4, MapsToOneColumn, ZenonT(30)
<1>6. [[q \in Products |-> product[q].count] EXCEPT ![p] = product[p].count]
        = [q \in Products |-> product[q].count]
  OBVIOUS
<1>7. CASE mark = "deleted"
  <2>1. Book!Close(p)
    BY <1>1, <1>5, <1>6, <1>7 DEF Book!Close, EntriesOf
  <2> QED  BY <2>1 DEF Book!Next
<1>8. CASE mark = "live"
  <2>1. Book!Reopen(p)
    BY <1>1, <1>5, <1>6, <1>8 DEF Book!Reopen, EntriesOf
  <2> QED  BY <2>1 DEF Book!Next
<1> QED  BY <1>7, <1>8

\* The empty database is the empty book.
LEMMA InitRefines == Init => Book!Init
<1> SUFFICES ASSUME Init PROVE Book!Init
  OBVIOUS
<1>1. \A p \in Products : EntriesOf(ledger[p]) = <<>>
  BY EntriesEmpty DEF Init
<1> QED  BY <1>1 DEF Init, Book!Init, NoRow, EntriesOf

\* Every step of the concurrent system is a step of the book or none.
LEMMA StepRefines == IInv /\ [Next]_vars => [Book!Next]_(Book!book)
<1> SUFFICES ASSUME IInv, [Next]_vars PROVE Book!Next \/ UNCHANGED <<product, ledger>>
  BY DEF Book!book, EntriesOf
<1>1. ASSUME NEW s \in Sessions,
             \/ CommitChange(s) \/ CommitCreate(s) \/ CommitUpdate(s)
             \/ CommitDelete(s) \/ CommitRestore(s)
      PROVE  Book!Next \/ UNCHANGED <<product, ledger>>
  <2>1. PICK p \in Products : p = sess[s].req.pid
    BY <1>1, ActiveFields
       DEF IInv, CommitChange, CommitCreate, CommitUpdate, CommitDelete, CommitRestore, Running
  <2> QED
    BY <1>1, <2>1, MapsToMove, MapsToOpen, MapsToRecount, MapsToCloseOrReopen
<1>2. \/ \E s \in Sessions : \/ CommitChange(s) \/ CommitCreate(s) \/ CommitUpdate(s)
                           \/ CommitDelete(s) \/ CommitRestore(s)
      \/ UNCHANGED <<product, ledger>>
  BY DEF Next, Advance, vars, Begin, LockForChange, LockForRestore, LoadForWrite,
         NotFound, RejectChange, RefuseCreate, RejectUpdate, Rollback
<1> QED  BY <1>1, <1>2

\* Every behaviour of the concurrent system is a behaviour of the book.
THEOREM Refinement == Spec => ImplementsBook
BY InitRefines, StepRefines, Invariance, PTL DEF Spec, ImplementsBook, Book!Spec

(***************************************************************************)
(* The reports read the time of a movement and the sign of its quantity.   *)
(* Both come from the request: its transaction started before now, and its *)
(* payload was validated.                                                  *)
(***************************************************************************)
WellDated(m, now) == /\ m.created_at \in 1 .. now
                     /\ m.type \in {"IN", "OUT"} => m.quantity >= 0

StartsAreInThePast == \A s \in Sessions : sess[s] # Idle => sess[s].start \in 1 .. clock

MovementsAreWellDated ==
  \A p \in Products : \A i \in 1 .. Len(ledger[p]) : WellDated(ledger[p][i], clock)

DatesInv == StartsAreInThePast /\ MovementsAreWellDated

\* A stock-in or stock-out carries a positive quantity.
LEMMA QuantitiesArePositive ==
  ASSUME NEW r \in Requests, r.op \in {"IN", "OUT"}
  PROVE  r.quantity >= 0
<1>1. r \in MovementRequests
  BY DEF Requests, CreateRequests, UpdateRequests, LifecycleRequests
<1>2. r \in [op : {"IN", "OUT"}, pid : Products, quantity : Quantities, count : Nullable(Counts)]
  BY <1>1 DEF MovementRequests
<1>3. r.quantity \in 1 .. MaxStock
  BY <1>2, PayloadAssumption
<1>4. QED BY <1>3

\* A step adds at most one movement to a ledger, dated with the start of a
\* transaction in progress.
LEMMA LedgerMoves ==
  ASSUME IInv, [Next]_vars, NEW p \in Products
  PROVE  \/ ledger'[p] = ledger[p]
         \/ \E s \in Sessions, m \in Movements :
              /\ ledger'[p] = Append(ledger[p], m)
              /\ sess[s] # Idle /\ m.created_at = sess[s].start
              /\ m.type \in {"IN", "OUT"} => m.quantity >= 0
<1>1. ASSUME NEW s \in Sessions, CommitChange(s), ledger'[p] # ledger[p]
      PROVE  \E m \in Movements :
               /\ ledger'[p] = Append(ledger[p], m)
               /\ sess[s] # Idle /\ m.created_at = sess[s].start
               /\ m.type \in {"IN", "OUT"} => m.quantity >= 0
  <2> DEFINE q == sess[s].req.pid
             req == sess[s].req
             move == MovementOf(sess[s].req, product[q], sess[s].start)
  <2>1. /\ q \in Products /\ req \in Requests
        /\ move \in Movements
        /\ ledger' = [ledger EXCEPT ![q] = Append(ledger[q], move)]
    BY <1>1, CommitChangeEffect
  <2>2. ledger \in [Products -> Seq(Movements)]
    BY DEF IInv, TypeOK
  <2>3. /\ move.created_at = sess[s].start
        /\ move.type = req.op /\ move.quantity = req.quantity
    BY DEF MovementOf
  <2>4. move.type \in {"IN", "OUT"} => move.quantity >= 0
    BY <2>1, <2>3, QuantitiesArePositive
  <2>5. sess[s] # Idle
    <3>1. sess[s].pc = "locked"
      BY <1>1, Zenon DEF CommitChange, Running
    <3>2. Idle.pc = "idle"
      BY DEF Idle
    <3>3. QED BY <3>1, <3>2
  <2> HIDE DEF move, req, q
  <2>6. p = q /\ ledger'[p] = Append(ledger[p], move)
    BY <1>1, <2>1, <2>2
  <2>7. QED BY <2>1, <2>3, <2>4, <2>5, <2>6
<1>2. ASSUME NEW s \in Sessions, CommitCreate(s), ledger'[p] # ledger[p]
      PROVE  \E m \in Movements :
               /\ ledger'[p] = Append(ledger[p], m)
               /\ sess[s] # Idle /\ m.created_at = sess[s].start
               /\ m.type \in {"IN", "OUT"} => m.quantity >= 0
  <2> DEFINE q == sess[s].req.pid
             req == sess[s].req
             move == InitialMovement(sess[s].req, sess[s].start)
  <2>1. /\ q \in Products /\ req \in Requests /\ req.op = "CREATE"
        /\ sess[s].start \in Nat /\ sess[s] # Idle
    BY <1>2, ActiveFields DEF CommitCreate, Running, IInv, Idle
  <2>2. req.quantity \in 0 .. MaxStock /\ req.count \in Nullable(Nat)
    BY <2>1, RequestFields
  <2>3. move \in Movements
    BY <2>1, <2>2 DEF InitialMovement, Movements, Nullable
  <2>4. /\ move.created_at = sess[s].start
        /\ move.quantity >= 0
    BY <2>2 DEF InitialMovement
  <2>5. ledger[q] = <<>> /\ ledger \in [Products -> Seq(Movements)]
    BY <1>2, <2>1 DEF CommitCreate, Creatable, IInv, BlankUntilCreated, TypeOK
  <2>6. ledger' = [ledger EXCEPT ![q] = <<move>>]
    BY <1>2, <2>1, <2>5 DEF CommitCreate
  <2> HIDE DEF move, req, q
  <2>7. p = q /\ ledger'[p] = <<move>>
    BY <1>2, <2>1, <2>5, <2>6
  <2>8. ledger'[p] = Append(ledger[p], move)
    BY <2>5, <2>7
  <2>9. QED BY <2>1, <2>3, <2>4, <2>8
<1>3. \/ \E s \in Sessions : CommitChange(s) \/ CommitCreate(s)
      \/ ledger' = ledger
  BY DEF Next, Advance, vars, Begin, LockForChange, LockForRestore, LoadForWrite,
         NotFound, RejectChange, RefuseCreate, CommitUpdate, RejectUpdate,
         CommitDelete, CommitRestore, Rollback
<1>4. QED BY <1>1, <1>2, <1>3
\* A request keeps the start of its transaction to its end.
LEMMA StartsKept ==
  ASSUME IInv, StartsAreInThePast, [Next]_vars
  PROVE  StartsAreInThePast' /\ clock' \in Nat /\ clock <= clock'
<1>1. sess \in [Sessions -> {Idle} \cup ActiveSessions] /\ clock \in 0 .. MaxRequests
  BY DEF IInv, TypeOK
<1>2. ASSUME NEW s \in Sessions, NEW r \in Requests, Begin(s, r)
      PROVE  StartsAreInThePast' /\ clock' = clock + 1
  <2>1. clock' = clock + 1
    BY <1>2 DEF Begin
  <2>2. sess'[s].start = clock + 1 /\ \A t \in Sessions : t # s => sess'[t] = sess[t]
    BY <1>1, <1>2 DEF Begin
  <2>3. ASSUME NEW t \in Sessions, sess'[t] # Idle PROVE sess'[t].start \in 1 .. clock'
    BY <1>1, <2>1, <2>2, <2>3 DEF StartsAreInThePast
  <2>4. QED BY <2>1, <2>3 DEF StartsAreInThePast
<1>3. ASSUME NEW s \in Sessions, NEW pc \in {"loaded", "locked"}, Load(s, pc),
             sess[s].pc # "idle", clock' = clock
      PROVE  StartsAreInThePast'
  <2>1. sess[s] \in ActiveSessions
    BY <1>3, ActiveFields DEF IInv
  <2>2. sess[s] # Idle
    BY <1>3 DEF Idle
  <2>3. sess'[s].start = sess[s].start /\ \A t \in Sessions : t # s => sess'[t] = sess[t]
    BY <1>1, <1>3, <2>1 DEF Load, ActiveSessions
  <2>4. QED BY <1>3, <2>2, <2>3 DEF StartsAreInThePast
<1>4. ASSUME NEW s \in Sessions, Finish(s), clock' = clock
      PROVE  StartsAreInThePast'
  <2>1. sess'[s] = Idle /\ \A t \in Sessions : t # s => sess'[t] = sess[t]
    BY <1>1, <1>4 DEF Finish
  <2>2. QED BY <1>4, <2>1 DEF StartsAreInThePast
<1>5. CASE \E s \in Sessions : \E r \in Requests : Begin(s, r)
  BY <1>1, <1>2, <1>5
<1>6. CASE UNCHANGED vars
  BY <1>1, <1>6 DEF vars, StartsAreInThePast
<1>7. CASE \E s \in Sessions : LockForChange(s) \/ LockForRestore(s) \/ LoadForWrite(s)
  <2>1. PICK s \in Sessions : LockForChange(s) \/ LockForRestore(s) \/ LoadForWrite(s)
    BY <1>7
  <2>2. /\ Load(s, "locked") \/ Load(s, "loaded")
        /\ sess[s].pc # "idle" /\ clock' = clock
    BY <2>1 DEF LockForChange, LockForRestore, LoadForWrite, Running
  <2>3. QED BY <1>1, <1>3, <2>2
<1>8. CASE \E s \in Sessions : Finish(s) /\ clock' = clock
  BY <1>1, <1>4, <1>8
<1>9. QED
  BY <1>5, <1>6, <1>7, <1>8
     DEF Next, Advance, NotFound, CommitChange, RejectChange, CommitCreate, RefuseCreate,
         CommitUpdate, RejectUpdate, CommitDelete, CommitRestore, Rollback

\* Movements are dated in the past, and stay so.
LEMMA DatesKept ==
  ASSUME IInv, DatesInv, [Next]_vars
  PROVE  DatesInv'
<1>1. /\ StartsAreInThePast' /\ clock \in Nat /\ clock' \in Nat /\ clock <= clock'
  BY StartsKept DEF DatesInv, IInv, TypeOK
<1>3. ASSUME NEW p \in Products, NEW i \in 1 .. Len(ledger'[p])
      PROVE  WellDated(ledger'[p][i], clock')
  <2>1. CASE ledger'[p] = ledger[p]
    <3>1. PICK m : m = ledger[p][i]
      OBVIOUS
    <3>2. WellDated(m, clock)
      BY <1>3, <2>1, <3>1 DEF DatesInv, MovementsAreWellDated
    <3>3. QED BY <1>1, <2>1, <3>1, <3>2 DEF WellDated
  <2>2. ASSUME NEW s \in Sessions, NEW m \in Movements,
               ledger'[p] = Append(ledger[p], m),
               sess[s] # Idle, m.created_at = sess[s].start,
               m.type \in {"IN", "OUT"} => m.quantity >= 0
        PROVE  WellDated(ledger'[p][i], clock')
    <3>1. ledger[p] \in Seq(Movements)
      BY DEF IInv, TypeOK
    <3>2. /\ Len(ledger'[p]) = Len(ledger[p]) + 1
          /\ \A j \in 1 .. Len(ledger[p]) : ledger'[p][j] = ledger[p][j]
          /\ ledger'[p][Len(ledger[p]) + 1] = m
      BY <2>2, <3>1, AppendProperties
    <3>3. m.created_at \in 1 .. clock
      BY <2>2 DEF DatesInv, StartsAreInThePast
    <3>4. CASE i \in 1 .. Len(ledger[p])
      <4>1. PICK n : n = ledger[p][i]
        OBVIOUS
      <4>2. WellDated(n, clock)
        BY <3>4, <4>1 DEF DatesInv, MovementsAreWellDated
      <4>3. QED BY <1>1, <3>2, <3>4, <4>1, <4>2 DEF WellDated
    <3>5. CASE i = Len(ledger[p]) + 1
      BY <1>1, <2>2, <3>2, <3>3, <3>5 DEF WellDated
    <3>6. Len(ledger[p]) \in Nat
      BY <3>1
    <3>7. QED BY <1>3, <3>2, <3>4, <3>5, <3>6
  <2>3. QED BY <2>1, <2>2, LedgerMoves
<1>4. QED BY <1>1, <1>3 DEF DatesInv, MovementsAreWellDated

\* Every movement was made in the past, by a request that was validated.
THEOREM MovementsAreDated == Spec => []DatesInv
<1>1. Init => DatesInv
  BY DEF Init, DatesInv, StartsAreInThePast, MovementsAreWellDated
<1>2. QED BY <1>1, DatesKept, Invariance, PTL DEF Spec

(***************************************************************************)
(* What the reports are computed from: the rows of a ledger, and the ids   *)
(* of those that fall in a period.                                         *)
(***************************************************************************)
Steps(p) == [i \in 1 .. Len(ledger[p]) |-> Difference(ledger[p][i])]

Ids(p, start, end) == {i \in 1 .. Len(ledger[p]) : /\ ledger[p][i].created_at >= start
                                                   /\ ledger[p][i].created_at < end}

\* The rows of a ledger have the types of movements, and account for the
\* difference they made to the balance.
LEMMA LedgerRows ==
  ASSUME IInv, DatesInv, NEW p \in Products
  PROVE  /\ ledger[p] \in Seq(Movements)
         /\ Len(ledger[p]) \in Nat
         /\ DOMAIN ledger[p] = 1 .. Len(ledger[p])
         /\ IsFiniteSet(1 .. Len(ledger[p]))
         /\ \A i \in 1 .. Len(ledger[p]) :
              /\ ledger[p][i] \in Movements
              /\ Balanced(ledger[p][i])
              /\ WellDated(ledger[p][i], clock)
<1>1. ledger[p] \in Seq(Movements)
  BY DEF IInv, TypeOK
<1>2. Len(ledger[p]) \in Nat /\ DOMAIN ledger[p] = 1 .. Len(ledger[p])
  BY <1>1
<1>3. \A i \in 1 .. Len(ledger[p]) : ledger[p][i] \in Movements
  BY <1>1, <1>2
<1>4. IsFiniteSet(1 .. Len(ledger[p]))
  BY <1>2, FS_Interval
<1>5. \A i \in 1 .. Len(ledger[p]) : Balanced(ledger[p][i])
  BY DEF IInv, LedgerChains
<1>6. \A i \in 1 .. Len(ledger[p]) : WellDated(ledger[p][i], clock)
  BY DEF DatesInv, MovementsAreWellDated
<1>7. QED BY <1>1, <1>2, <1>3, <1>4, <1>5, <1>6

\* The rows of a period are those whose ids fall in it.
LEMMA PeriodRows ==
  ASSUME IInv, DatesInv, NEW p \in Products, NEW start \in Int, NEW end \in Int
  PROVE  LET part == InPeriod(ledger[p], start, end) IN
         /\ DOMAIN part = Ids(p, start, end)
         /\ IsFiniteSet(Ids(p, start, end))
         /\ Ids(p, start, end) \subseteq 1 .. Len(ledger[p])
         /\ \A i \in Ids(p, start, end) :
              /\ part[i] = ledger[p][i]
              /\ part[i] \in Movements
              /\ Balanced(part[i])
              /\ WellDated(part[i], clock)
<1>1. InPeriod(ledger[p], start, end)
        = [i \in Ids(p, start, end) |-> ledger[p][i]]
  BY LedgerRows DEF InPeriod, Restrict, Ids
<1>2. Ids(p, start, end) \subseteq 1 .. Len(ledger[p])
  BY DEF Ids
<1>3. IsFiniteSet(Ids(p, start, end))
  BY <1>2, LedgerRows, FS_Subset
<1>4. QED BY <1>1, <1>2, <1>3, LedgerRows

(***************************************************************************)
(* The four sums of a line, movement by movement: what came in less what   *)
(* went out is the difference each movement made, and in is positive when  *)
(* the balance rose, out when it fell.                                     *)
(***************************************************************************)
InOf(m) == (IF m.type = "IN" THEN m.quantity ELSE 0)
OutOf(m) == (IF m.type = "OUT" THEN m.quantity ELSE 0)
RaisedBy(m) == IF Adjusted(m) >= 0 THEN Adjusted(m) ELSE 0
LoweredBy(m) == IF Adjusted(m) < 0 THEN -Adjusted(m) ELSE 0

\* What one movement adds to each column of a line, and that it adds up.
LEMMA OneMovement ==
  ASSUME NEW m \in Movements, Balanced(m), WellDated(m, clock)
  PROVE  /\ Difference(m) \in Int
         /\ InOf(m) \in Nat /\ OutOf(m) \in Nat
         /\ RaisedBy(m) \in Nat /\ LoweredBy(m) \in Nat
         /\ Difference(m) = (InOf(m) - OutOf(m)) + (RaisedBy(m) - LoweredBy(m))
         /\ InOf(m) + RaisedBy(m) > 0 <=> Difference(m) > 0
         /\ OutOf(m) + LoweredBy(m) > 0 <=> Difference(m) < 0
<1>1. /\ m.type \in {"IN", "OUT", "ADJUSTMENT"} /\ m.quantity \in Int
      /\ m.previous_stock \in Int /\ m.new_stock \in Int
  BY DEF Movements
<1>2. CASE m.type = "IN"
  BY <1>1, <1>2 DEF Difference, InOf, OutOf, RaisedBy, LoweredBy, Adjusted, Balanced, WellDated
<1>3. CASE m.type = "OUT"
  BY <1>1, <1>3 DEF Difference, InOf, OutOf, RaisedBy, LoweredBy, Adjusted, Balanced, WellDated
<1>4. CASE m.type = "ADJUSTMENT"
  BY <1>1, <1>4 DEF Difference, InOf, OutOf, RaisedBy, LoweredBy, Adjusted, Balanced, WellDated
<1>5. QED BY <1>1, <1>2, <1>3, <1>4

\* A line of the report, in the values of its movements.
LEMMA LineSums ==
  ASSUME NEW part
  PROVE  /\ StockIn(part) = SumFunctionOnSet([i \in DOMAIN part |-> InOf(part[i])], DOMAIN part)
         /\ StockOut(part) = SumFunctionOnSet([i \in DOMAIN part |-> OutOf(part[i])], DOMAIN part)
         /\ AdjustmentIn(part)
              = SumFunctionOnSet([i \in DOMAIN part |-> RaisedBy(part[i])], DOMAIN part)
         /\ AdjustmentOut(part)
              = SumFunctionOnSet([i \in DOMAIN part |-> LoweredBy(part[i])], DOMAIN part)
BY Zenon DEF StockIn, StockOut, AdjustmentIn, AdjustmentOut, InOf, OutOf, RaisedBy,
             LoweredBy, SumFunction

\* A line's columns add up the movements, up and down apart.
LEMMA LineOfMovements ==
  ASSUME NEW part, IsFiniteSet(DOMAIN part),
         \A i \in DOMAIN part : /\ part[i] \in Movements /\ Balanced(part[i])
                                /\ WellDated(part[i], clock)
  PROVE  LET line == ReportLine(part) IN
         /\ Movement(line)
              = SumFunctionOnSet([i \in DOMAIN part |-> Difference(part[i])], DOMAIN part)
         /\ line.stock_in + line.adjustment_in > 0
              <=> \E i \in DOMAIN part : Difference(part[i]) > 0
         /\ line.stock_out + line.adjustment_out > 0
              <=> \E i \in DOMAIN part : Difference(part[i]) < 0
<1> DEFINE D == DOMAIN part
           came == [i \in D |-> InOf(part[i])]
           went == [i \in D |-> OutOf(part[i])]
           rose == [i \in D |-> RaisedBy(part[i])]
           fell == [i \in D |-> LoweredBy(part[i])]
           made == [i \in D |-> Difference(part[i])]
           moved == [i \in D |-> came[i] - went[i]]
           adjusted == [i \in D |-> rose[i] - fell[i]]
           gained == [i \in D |-> came[i] + rose[i]]
           lost == [i \in D |-> went[i] + fell[i]]
           line == ReportLine(part)
<1>1. \A i \in D : /\ came[i] \in Nat /\ went[i] \in Nat /\ rose[i] \in Nat /\ fell[i] \in Nat
                   /\ made[i] \in Int /\ made[i] = moved[i] + adjusted[i]
                   /\ moved[i] = came[i] - went[i] /\ adjusted[i] = rose[i] - fell[i]
                   /\ gained[i] = came[i] + rose[i] /\ lost[i] = went[i] + fell[i]
                   /\ gained[i] > 0 <=> Difference(part[i]) > 0
                   /\ lost[i] > 0 <=> Difference(part[i]) < 0
  BY OneMovement
<1>2. /\ line.stock_in = SumFunctionOnSet(came, D) /\ line.stock_out = SumFunctionOnSet(went, D)
      /\ line.adjustment_in = SumFunctionOnSet(rose, D)
      /\ line.adjustment_out = SumFunctionOnSet(fell, D)
  BY LineSums DEF ReportLine
<1> HIDE DEF line, came, went, rose, fell, made, moved, adjusted, gained, lost
<1>3. \A i \in D : /\ came[i] \in Int /\ went[i] \in Int /\ rose[i] \in Int /\ fell[i] \in Int
                   /\ moved[i] \in Int /\ adjusted[i] \in Int
                   /\ gained[i] \in Nat /\ lost[i] \in Nat
  BY <1>1
<1> HIDE DEF D
<1>4. IsFiniteSet(D)
  BY DEF D
<1>5. SumFunctionOnSet(moved, D) = SumFunctionOnSet(came, D) - SumFunctionOnSet(went, D)
  BY <1>1, <1>3, <1>4, SumOfMinus
<1>6. SumFunctionOnSet(adjusted, D) = SumFunctionOnSet(rose, D) - SumFunctionOnSet(fell, D)
  BY <1>1, <1>3, <1>4, SumOfMinus
<1>7. SumFunctionOnSet(made, D) = SumFunctionOnSet(moved, D) + SumFunctionOnSet(adjusted, D)
  BY <1>1, <1>3, <1>4, SumOfPlus
<1>8. SumFunctionOnSet(gained, D) = SumFunctionOnSet(came, D) + SumFunctionOnSet(rose, D)
  BY <1>1, <1>3, <1>4, SumOfPlus
<1>9. SumFunctionOnSet(lost, D) = SumFunctionOnSet(went, D) + SumFunctionOnSet(fell, D)
  BY <1>1, <1>3, <1>4, SumOfPlus
<1>10. SumFunctionOnSet(gained, D) > 0 <=> \E i \in D : gained[i] > 0
  BY <1>3, <1>4, SumIsPositive
<1>11. SumFunctionOnSet(lost, D) > 0 <=> \E i \in D : lost[i] > 0
  BY <1>3, <1>4, SumIsPositive
<1>12. /\ SumFunctionOnSet(came, D) \in Int /\ SumFunctionOnSet(went, D) \in Int
       /\ SumFunctionOnSet(rose, D) \in Int /\ SumFunctionOnSet(fell, D) \in Int
  BY <1>3, <1>4, SumInInt
<1>13. Movement(line) = SumFunctionOnSet(made, D)
  BY <1>2, <1>5, <1>6, <1>7, <1>12 DEF Movement
<1>14. line.stock_in + line.adjustment_in > 0 <=> \E i \in D : Difference(part[i]) > 0
  BY <1>1, <1>2, <1>8, <1>10
<1>15. line.stock_out + line.adjustment_out > 0 <=> \E i \in D : Difference(part[i]) < 0
  BY <1>1, <1>2, <1>9, <1>11
<1>16. QED BY <1>13, <1>14, <1>15 DEF line, made, D

(***************************************************************************)
(* The reports of a period.                                                *)
(***************************************************************************)
\* What one report says of a product: what moved, in how many movements.
\* A product without a line did not move.
LEMMA ReportOfPeriod ==
  ASSUME IInv, DatesInv, NEW start \in Int, NEW end \in Int
  PROVE  LET report == DailyStockReport("ALL", start, end) IN
         /\ report = [p \in Moved(start, end) |-> ReportLine(InPeriod(ledger[p], start, end))]
         /\ DOMAIN report = Moved(start, end)
         /\ \A p \in Products :
              /\ p \in DOMAIN report <=> Ids(p, start, end) # {}
              /\ p \in DOMAIN report =>
                   /\ Movement(report[p]) = SumFunctionOnSet(Steps(p), Ids(p, start, end))
                   /\ report[p].transaction_count = Cardinality(Ids(p, start, end))
<1> DEFINE report == DailyStockReport("ALL", start, end)
<1>1. report = [p \in Moved(start, end) |-> ReportLine(InPeriod(ledger[p], start, end))]
  BY DEF DailyStockReport
<1>2. DOMAIN report = Moved(start, end)
  BY <1>1
<1> HIDE DEF report
<1>3. ASSUME NEW p \in Products
      PROVE  /\ p \in DOMAIN report <=> Ids(p, start, end) # {}
             /\ p \in DOMAIN report =>
                  /\ Movement(report[p]) = SumFunctionOnSet(Steps(p), Ids(p, start, end))
                  /\ report[p].transaction_count = Cardinality(Ids(p, start, end))
  <2> DEFINE part == InPeriod(ledger[p], start, end)
             D == Ids(p, start, end)
  <2>1. /\ DOMAIN part = D /\ IsFiniteSet(D) /\ D \subseteq 1 .. Len(ledger[p])
        /\ \A i \in D : /\ part[i] = ledger[p][i]
                        /\ part[i] \in Movements /\ Balanced(part[i])
                        /\ WellDated(part[i], clock)
    BY PeriodRows
  <2>2. p \in DOMAIN report <=> D # {}
    BY <1>2, <2>1 DEF Moved
  <2>3. p \in DOMAIN report => report[p] = ReportLine(part)
    BY <1>1, <1>2
  <2> HIDE DEF part, D
  <2> DEFINE made == [i \in DOMAIN part |-> Difference(part[i])]
  <2>4. Movement(ReportLine(part)) = SumFunctionOnSet(made, DOMAIN part)
    BY <2>1, LineOfMovements
  <2>5. \A i \in D : made[i] \in Int /\ made[i] = Steps(p)[i]
    BY <2>1, OneMovement DEF Steps
  <2> HIDE DEF made
  <2>6. SumFunctionOnSet(made, D) = SumFunctionOnSet(Steps(p), D)
    BY <2>1, <2>5, SumOfEqual
  <2>7. Movement(ReportLine(part)) = SumFunctionOnSet(Steps(p), D)
    BY <2>1, <2>4, <2>6
  <2>8. ReportLine(part).transaction_count = Cardinality(D)
    BY <2>1 DEF ReportLine
  <2>9. QED BY <2>2, <2>3, <2>7, <2>8 DEF D
<1>4. QED BY <1>1, <1>2, <1>3 DEF report

\* The differences of a run of consecutive movements add up to what lies
\* between the balance before the first and the one after the last.
LEMMA StepsTelescope ==
  ASSUME IInv, DatesInv, NEW p \in Products,
         NEW low \in 1 .. Len(ledger[p]), NEW high \in 1 .. Len(ledger[p]), low <= high
  PROVE  SumFunctionOnSet(Steps(p), low .. high)
           = ledger[p][high].new_stock - ledger[p][low].previous_stock
<1> DEFINE n == Len(ledger[p])
           before == [i \in 1 .. n |-> ledger[p][i].previous_stock]
           after == [i \in 1 .. n |-> ledger[p][i].new_stock]
           f == Steps(p)
<1>1. n \in Nat /\ low \in Nat /\ high \in Nat /\ low <= high
  BY LedgerRows
<1>2. ASSUME NEW i \in low .. high
      PROVE  /\ before[i] \in Int /\ after[i] \in Int
             /\ f[i] = after[i] - before[i]
             /\ i # low => before[i] = after[i - 1]
  <2>1. i \in 1 .. n /\ (i # low => i - 1 \in 1 .. n /\ i # 1)
    BY <1>1, <1>2
  <2>2. ledger[p][i] \in Movements
    BY <2>1, LedgerRows
  <2>3. ledger[p][i].previous_stock = IF i = 1 THEN 0 ELSE ledger[p][i - 1].new_stock
    BY <2>1 DEF IInv, LedgerChains
  <2>4. QED BY <2>1, <2>2, <2>3 DEF Steps, Difference, Movements
<1>3. before[low] = ledger[p][low].previous_stock /\ after[high] = ledger[p][high].new_stock
  OBVIOUS
<1> HIDE DEF n, before, after, f
<1>3a. Telescopes(f, before, after, low, high)
  BY <1>2 DEF Telescopes
<1>4. SumFunctionOnSet(f, low .. high) = after[high] - before[low]
  BY <1>1, <1>3a, SumTelescopes
<1>5. QED BY <1>3, <1>4 DEF f

\* The report of all time is of every movement.
LEMMA AlwaysIsEverything ==
  ASSUME IInv, DatesInv, NEW p \in Products
  PROVE  Ids(p, 1, MaxRequests + 1) = 1 .. Len(ledger[p])
<1>1. clock \in 0 .. MaxRequests
  BY DEF IInv, TypeOK
<1>2. QED BY <1>1, LedgerRows DEF Ids, WellDated

\* Over all time the four sums of the report account for the balance.
LEMMA TotalsFollow == IInv /\ DatesInv => TotalsAccountForBalance
<1> SUFFICES ASSUME IInv, DatesInv, NEW p \in Products
             PROVE  IF p \in DOMAIN Always THEN Movement(Always[p]) = product[p].stock
                                           ELSE product[p].stock = 0
  BY DEF TotalsAccountForBalance
<1> DEFINE n == Len(ledger[p])
<1>1. n \in Nat /\ ledger[p] \in Seq(Movements) /\ 1 \in Int /\ MaxRequests + 1 \in Int
  BY LedgerRows
<1>2. /\ p \in DOMAIN Always <=> 1 .. n # {}
      /\ p \in DOMAIN Always => Movement(Always[p]) = SumFunctionOnSet(Steps(p), 1 .. n)
  <2>1. PICK start \in Int, end \in Int : start = 1 /\ end = MaxRequests + 1
    BY <1>1
  <2>2. Always = DailyStockReport("ALL", start, end) /\ Ids(p, start, end) = 1 .. n
    BY <2>1, AlwaysIsEverything DEF Always
  <2>3. QED BY <2>2, ReportOfPeriod, ZenonT(30)
<1>3. CASE n = 0
  <2>1. ledger[p] = <<>>
    BY <1>1, <1>3
  <2>2. product[p].stock = 0
    BY <2>1 DEF IInv, StockMatchesLedger
  <2>3. QED BY <1>2, <1>3, <2>2
<1>4. CASE n > 0
  <2>1. 1 \in 1 .. n /\ n \in 1 .. n /\ 1 <= n /\ ledger[p] # <<>>
    BY <1>1, <1>4
  <2>2. SumFunctionOnSet(Steps(p), 1 .. n)
          = ledger[p][n].new_stock - ledger[p][1].previous_stock
    BY <2>1, StepsTelescope
  <2>3. ledger[p][1].previous_stock = 0
    BY <2>1 DEF IInv, LedgerChains
  <2>4. product[p].stock = ledger[p][n].new_stock
    BY <2>1 DEF IInv, StockMatchesLedger
  <2>5. ledger[p][n].new_stock \in Int
    BY <2>1, LedgerRows DEF Movements
  <2>6. QED BY <1>2, <2>1, <2>2, <2>3, <2>4, <2>5
<1>5. QED BY <1>1, <1>3, <1>4

\* The report of all time accounts for every kilogram in stock, in whatever
\* order the changes ran.
THEOREM ReportsAccountForStock == Spec => []TotalsAccountForBalance
BY TotalsFollow, Invariance, MovementsAreDated, PTL

(***************************************************************************)
(* Adjacent periods.                                                       *)
(***************************************************************************)
\* What a report says of a product, zero if nothing.
LEMMA ShareOfPeriod ==
  ASSUME IInv, DatesInv, NEW p \in Products, NEW start \in Int, NEW end \in Int
  PROVE  LET report == DailyStockReport("ALL", start, end)
             share == IF p \in DOMAIN report
                      THEN <<Movement(report[p]), report[p].transaction_count>>
                      ELSE <<0, 0>>
         IN /\ share[1] = SumFunctionOnSet(Steps(p), Ids(p, start, end))
            /\ share[2] = Cardinality(Ids(p, start, end))
<1> DEFINE report == DailyStockReport("ALL", start, end)
<1>1. /\ p \in DOMAIN report <=> Ids(p, start, end) # {}
      /\ p \in DOMAIN report =>
           /\ Movement(report[p]) = SumFunctionOnSet(Steps(p), Ids(p, start, end))
           /\ report[p].transaction_count = Cardinality(Ids(p, start, end))
  BY ReportOfPeriod
<1>2. SumFunctionOnSet(Steps(p), {}) = 0 /\ Cardinality({}) = 0
  BY SumOfNone, FS_EmptySet
<1>3. QED BY <1>1, <1>2

\* The ids of a period are those of its two parts, none in both.
LEMMA PeriodIsCut ==
  ASSUME IInv, DatesInv, NEW p \in Products,
         NEW start \in Int, NEW cut \in Int, NEW end \in Int, start < cut, cut < end
  PROVE  LET whole == Ids(p, start, end)
             first == Ids(p, start, cut)
             second == Ids(p, cut, end)
         IN /\ SumFunctionOnSet(Steps(p), whole)
                 = SumFunctionOnSet(Steps(p), first) + SumFunctionOnSet(Steps(p), second)
            /\ Cardinality(whole) = Cardinality(first) + Cardinality(second)
<1> DEFINE whole == Ids(p, start, end)
           first == Ids(p, start, cut)
           second == Ids(p, cut, end)
<1>1. \A i \in 1 .. Len(ledger[p]) : /\ ledger[p][i].created_at \in Int
                                     /\ Steps(p)[i] \in Int
  BY LedgerRows, OneMovement DEF WellDated, Steps, IInv, TypeOK
<1>2. whole = first \cup second /\ first \cap second = {}
  BY <1>1 DEF Ids
<1>3. IsFiniteSet(first) /\ IsFiniteSet(second)
  BY PeriodRows
<1>4. \A i \in first \cup second : Steps(p)[i] \in Int
  BY <1>1 DEF Ids
<1> HIDE DEF whole, first, second
<1>5. SumFunctionOnSet(Steps(p), first \cup second)
        = SumFunctionOnSet(Steps(p), first) + SumFunctionOnSet(Steps(p), second)
  BY <1>2, <1>3, <1>4, SumOfDisjoint
<1>6. Cardinality(first \cup second) = Cardinality(first) + Cardinality(second)
  <2>1. /\ Cardinality(first) \in Nat /\ Cardinality(second) \in Nat
        /\ Cardinality(first \cap second) = 0
    BY <1>2, <1>3, FS_CardinalityType, FS_EmptySet
  <2>2. Cardinality(first \cup second)
          = Cardinality(first) + Cardinality(second) - Cardinality(first \cap second)
    BY <1>3, FS_Union
  <2>3. QED BY <2>1, <2>2
<1>7. QED BY <1>2, <1>5, <1>6 DEF whole, first, second

\* Two neighbouring periods cut no movement and count none twice.
LEMMA PartitionFollows == IInv /\ DatesInv => PeriodsPartition
<1> SUFFICES ASSUME IInv, DatesInv, NEW t \in Periods, NEW cut \in Times,
                    t[1] < cut, cut < t[2], NEW p \in Products
    PROVE  LET whole == DailyStockReport("ALL", t[1], t[2])
               first == DailyStockReport("ALL", t[1], cut)
               second == DailyStockReport("ALL", cut, t[2])
               Of(report, q) == IF q \in DOMAIN report
                                THEN <<Movement(report[q]), report[q].transaction_count>>
                                ELSE <<0, 0>>
           IN /\ Of(whole, p)[1] = Of(first, p)[1] + Of(second, p)[1]
              /\ Of(whole, p)[2] = Of(first, p)[2] + Of(second, p)[2]
  BY DEF PeriodsPartition
<1> DEFINE Of(report, q) == IF q \in DOMAIN report
                            THEN <<Movement(report[q]), report[q].transaction_count>>
                            ELSE <<0, 0>>
           Share(a, b) == Of(DailyStockReport("ALL", a, b), p)
<1>1. PICK start \in Int, end \in Int, middle \in Int :
        start = t[1] /\ end = t[2] /\ middle = cut
  BY DEF Periods, Times
<1>2. \A a, b \in Int : /\ Share(a, b)[1] = SumFunctionOnSet(Steps(p), Ids(p, a, b))
                        /\ Share(a, b)[2] = Cardinality(Ids(p, a, b))
  BY ShareOfPeriod
<1> HIDE DEF Share
<1>3. /\ SumFunctionOnSet(Steps(p), Ids(p, start, end))
           = SumFunctionOnSet(Steps(p), Ids(p, start, middle))
               + SumFunctionOnSet(Steps(p), Ids(p, middle, end))
      /\ Cardinality(Ids(p, start, end))
           = Cardinality(Ids(p, start, middle)) + Cardinality(Ids(p, middle, end))
  BY <1>1, PeriodIsCut
<1>4. /\ Share(start, end)[1] = Share(start, middle)[1] + Share(middle, end)[1]
      /\ Share(start, end)[2] = Share(start, middle)[2] + Share(middle, end)[2]
  BY <1>2, <1>3
<1>5. QED BY <1>1, <1>4 DEF Share

\* Adjacent periods share no movement and miss none.
THEOREM PeriodsCutClean == Spec => []PeriodsPartition
BY PartitionFollows, Invariance, MovementsAreDated, PTL

(***************************************************************************)
(* The movement filter.                                                    *)
(***************************************************************************)
LEMMA FilteredReports ==
  ASSUME NEW start, NEW end
  PROVE  LET whole == DailyStockReport("ALL", start, end)
             inward == DailyStockReport("IN", start, end)
             outward == DailyStockReport("OUT", start, end)
         IN \A p \in DOMAIN whole :
              /\ p \in DOMAIN inward <=> whole[p].stock_in + whole[p].adjustment_in > 0
              /\ p \in DOMAIN outward <=> whole[p].stock_out + whole[p].adjustment_out > 0
              /\ p \in DOMAIN inward => inward[p] = whole[p]
              /\ p \in DOMAIN outward => outward[p] = whole[p]
BY DEF DailyStockReport

\* The IN and OUT reports hide the products that stood still, and only those.
LEMMA FiltersFollow == IInv /\ DatesInv => FiltersHideOnlyStillProducts
<1> SUFFICES ASSUME IInv, DatesInv, NEW t \in Periods
    PROVE  LET whole == DailyStockReport("ALL", t[1], t[2])
               inward == DailyStockReport("IN", t[1], t[2])
               outward == DailyStockReport("OUT", t[1], t[2])
           IN \A p \in DOMAIN whole :
                /\ p \in DOMAIN inward => inward[p] = whole[p]
                /\ p \in DOMAIN outward => outward[p] = whole[p]
                /\ p \in DOMAIN inward \cup DOMAIN outward
                     <=> \E m \in {ledger[p][i] : i \in DOMAIN ledger[p]} :
                           /\ m.created_at >= t[1] /\ m.created_at < t[2]
                           /\ Difference(m) # 0
  BY DEF FiltersHideOnlyStillProducts
<1>1. PICK start \in Int, end \in Int : start = t[1] /\ end = t[2]
  BY DEF Periods, Times
<1> DEFINE whole == DailyStockReport("ALL", start, end)
           inward == DailyStockReport("IN", start, end)
           outward == DailyStockReport("OUT", start, end)
<1>2. whole = [p \in Moved(start, end) |-> ReportLine(InPeriod(ledger[p], start, end))]
  BY ReportOfPeriod
<1>3. \A p \in DOMAIN whole :
        /\ p \in DOMAIN inward <=> whole[p].stock_in + whole[p].adjustment_in > 0
        /\ p \in DOMAIN outward <=> whole[p].stock_out + whole[p].adjustment_out > 0
        /\ p \in DOMAIN inward => inward[p] = whole[p]
        /\ p \in DOMAIN outward => outward[p] = whole[p]
  BY FilteredReports
<1> HIDE DEF whole, inward, outward
<1>4. ASSUME NEW p \in DOMAIN whole
      PROVE  p \in DOMAIN inward \cup DOMAIN outward
               <=> \E m \in {ledger[p][i] : i \in DOMAIN ledger[p]} :
                     /\ m.created_at >= start /\ m.created_at < end
                     /\ Difference(m) # 0
  <2> DEFINE part == InPeriod(ledger[p], start, end)
             D == Ids(p, start, end)
  <2>1. p \in Products /\ whole[p] = ReportLine(part)
    BY <1>2 DEF Moved
  <2>2. /\ DOMAIN part = D /\ IsFiniteSet(D) /\ D \subseteq 1 .. Len(ledger[p])
        /\ \A i \in D : /\ part[i] = ledger[p][i]
                        /\ part[i] \in Movements /\ Balanced(part[i])
                        /\ WellDated(part[i], clock)
    BY <2>1, PeriodRows
  <2> HIDE DEF part
  <2>3. /\ whole[p].stock_in + whole[p].adjustment_in > 0
             <=> \E i \in DOMAIN part : Difference(part[i]) > 0
        /\ whole[p].stock_out + whole[p].adjustment_out > 0
             <=> \E i \in DOMAIN part : Difference(part[i]) < 0
    BY <2>1, <2>2, LineOfMovements
  <2>4. \A i \in D : Difference(part[i]) \in Int /\ part[i] = ledger[p][i]
    BY <2>2, OneMovement
  <2>5. p \in DOMAIN inward \cup DOMAIN outward <=> \E i \in D : Difference(ledger[p][i]) # 0
    BY <1>3, <2>2, <2>3, <2>4, SMTT(30)
  <2>6. DOMAIN ledger[p] = 1 .. Len(ledger[p])
    BY <2>1, LedgerRows
  <2>7. QED BY <2>5, <2>6 DEF Ids
<1>5. QED BY <1>1, <1>3, <1>4 DEF whole, inward, outward

\* The IN and OUT views hide a product only if its balance never moved in the
\* period, and show the others as the whole report does.
THEOREM FiltersHideTheStill == Spec => []FiltersHideOnlyStillProducts
BY FiltersFollow, Invariance, MovementsAreDated, PTL

(***************************************************************************)
(* A product whose changes ran in the order their transactions started:    *)
(* later in the ledger is later in time, so a period is a run of ids.      *)
(***************************************************************************)
\* The oldest row of some rows has the least id, the newest the greatest.
LEMMA OldestAndNewest ==
  ASSUME NEW part, NEW low \in DOMAIN part, NEW high \in DOMAIN part, DOMAIN part \subseteq Nat,
         \A i \in DOMAIN part : /\ low <= i /\ i <= high
                                /\ part[i].created_at \in Int,
         \A i, j \in DOMAIN part : i < j => part[i].created_at < part[j].created_at
  PROVE  Oldest(part) = low /\ Newest(part) = high
<1>1. \A i, j \in DOMAIN part : Before(part, i, j) <=> i < j
  BY DEF Before
<1>2. \A i \in DOMAIN part :
        (\A j \in DOMAIN part \ {i} : Before(part, i, j)) <=> i = low
  BY <1>1
<1>3. \A i \in DOMAIN part :
        (\A j \in DOMAIN part \ {i} : Before(part, j, i)) <=> i = high
  BY <1>1
<1>4. QED BY <1>2, <1>3 DEF Oldest, Newest

\* The ids of a period, for such a product, run from its first to its last.
LEMMA PeriodIsRun ==
  ASSUME IInv, DatesInv, NEW p \in Products, RanInStartOrder(p),
         NEW start \in Int, NEW end \in Int, Ids(p, start, end) # {}
  PROVE  \E low, high \in 1 .. Len(ledger[p]) :
           /\ low <= high
           /\ Ids(p, start, end) = low .. high
           /\ Oldest(InPeriod(ledger[p], start, end)) = low
           /\ Newest(InPeriod(ledger[p], start, end)) = high
<1> DEFINE D == Ids(p, start, end)
           n == Len(ledger[p])
           part == InPeriod(ledger[p], start, end)
<1>1. D # {} /\ D \subseteq 1 .. n /\ n \in Nat /\ D \subseteq Nat /\ D \subseteq 0 .. n
  BY LedgerRows DEF Ids
<1>2. \A i \in 1 .. n : ledger[p][i].created_at \in Int
  BY LedgerRows DEF WellDated, IInv, TypeOK
<1>3. \A i, j \in 1 .. n : i < j => ledger[p][i].created_at < ledger[p][j].created_at
  BY LedgerRows DEF RanInStartOrder
<1>4. PICK low \in D : \A i \in D : low <= i
  <2> HIDE DEF D
  <2>1. QED BY <1>1, LeastNatural
<1>5. PICK high \in D : \A i \in D : i <= high
  <2> HIDE DEF D, n
  <2>1. QED BY <1>1, GreatestNatural
<1>6. low <= high /\ low \in 1 .. n /\ high \in 1 .. n
  BY <1>1, <1>4, <1>5
<1>7. D = low .. high
  <2>1. \A i \in D : i \in low .. high
    BY <1>1, <1>4, <1>5
  <2>2. ASSUME NEW i \in low .. high PROVE i \in D
    <3>1. i \in 1 .. n /\ (i = low \/ low < i) /\ (i = high \/ i < high)
      BY <1>1, <1>6
    <3>2. /\ ledger[p][low].created_at >= start /\ ledger[p][high].created_at < end
      BY <1>4, <1>5 DEF Ids
    <3>3. /\ i = low \/ ledger[p][low].created_at < ledger[p][i].created_at
          /\ i = high \/ ledger[p][i].created_at < ledger[p][high].created_at
      BY <1>3, <1>6, <3>1
    <3>4. /\ ledger[p][i].created_at \in Int
          /\ ledger[p][low].created_at \in Int /\ ledger[p][high].created_at \in Int
      BY <1>2, <1>6, <3>1
    <3>5. ledger[p][i].created_at >= start /\ ledger[p][i].created_at < end
      BY <3>2, <3>3, <3>4
    <3>6. QED BY <3>1, <3>5 DEF Ids
  <2>3. QED BY <2>1, <2>2
<1>8. DOMAIN part = D /\ \A i \in D : part[i] = ledger[p][i]
  BY PeriodRows
<1> HIDE DEF part, D, n
<1>9. /\ low \in DOMAIN part /\ high \in DOMAIN part /\ DOMAIN part \subseteq Nat
      /\ \A i \in DOMAIN part : low <= i /\ i <= high /\ part[i].created_at \in Int
      /\ \A i, j \in DOMAIN part : i < j => part[i].created_at < part[j].created_at
  BY <1>1, <1>2, <1>3, <1>4, <1>5, <1>8
<1>10. Oldest(part) = low /\ Newest(part) = high
  BY <1>9, OldestAndNewest
<1>11. QED BY <1>6, <1>7, <1>10 DEF part, D, n

\* The net change of such a period is what moved in it.
LEMMA NetChangeIsMovement ==
  ASSUME IInv, DatesInv, NEW p \in Products, RanInStartOrder(p),
         NEW start \in Int, NEW end \in Int, p \in DOMAIN DailyStockReport("ALL", start, end)
  PROVE  LET line == DailyStockReport("ALL", start, end)[p]
         IN line.net_change = Movement(line)
<1> DEFINE report == DailyStockReport("ALL", start, end)
           part == InPeriod(ledger[p], start, end)
<1>1. /\ report[p] = ReportLine(part)
      /\ Ids(p, start, end) # {}
      /\ Movement(report[p]) = SumFunctionOnSet(Steps(p), Ids(p, start, end))
  BY ReportOfPeriod
<1>2. PICK low \in 1 .. Len(ledger[p]), high \in 1 .. Len(ledger[p]) :
        /\ low <= high
        /\ Ids(p, start, end) = low .. high
        /\ Oldest(part) = low /\ Newest(part) = high
  BY <1>1, PeriodIsRun
<1>3. SumFunctionOnSet(Steps(p), low .. high)
        = ledger[p][high].new_stock - ledger[p][low].previous_stock
  BY <1>2, StepsTelescope
<1>4. low \in Ids(p, start, end) /\ high \in Ids(p, start, end)
  BY <1>2, LedgerRows
<1>5. part[low] = ledger[p][low] /\ part[high] = ledger[p][high]
  BY <1>4, PeriodRows
<1>6. report[p].net_change = part[high].new_stock - part[low].previous_stock
  BY <1>1, <1>2 DEF ReportLine
<1>7. QED BY <1>1, <1>2, <1>3, <1>5, <1>6

\* Such a period closes with the balance the next one opens with.
LEMMA ClosesWhereTheNextOpens ==
  ASSUME IInv, DatesInv, NEW p \in Products, RanInStartOrder(p),
         NEW start \in Int, NEW end \in Int, start < end,
         p \in DOMAIN DailyStockReport("ALL", start, end),
         p \in DOMAIN DailyStockReport("ALL", end, MaxRequests + 1)
  PROVE  DailyStockReport("ALL", end, MaxRequests + 1)[p].opening_stock
           = DailyStockReport("ALL", start, end)[p].closing_stock
<1> DEFINE report == DailyStockReport("ALL", start, end)
           next == DailyStockReport("ALL", end, MaxRequests + 1)
           n == Len(ledger[p])
           last == MaxRequests + 1
<1>1. last \in Int /\ clock < last /\ clock \in Int
  BY DEF IInv, TypeOK
<1> HIDE DEF last
<1>2. /\ report[p] = ReportLine(InPeriod(ledger[p], start, end))
      /\ Ids(p, start, end) # {}
  BY ReportOfPeriod
<1>3. /\ next[p] = ReportLine(InPeriod(ledger[p], end, last))
      /\ Ids(p, end, last) # {}
  BY <1>1, ReportOfPeriod DEF last
<1>4. PICK low \in 1 .. n, high \in 1 .. n :
        /\ low <= high /\ Ids(p, start, end) = low .. high
        /\ Newest(InPeriod(ledger[p], start, end)) = high
  BY <1>2, PeriodIsRun
<1>5. PICK first \in 1 .. n, final \in 1 .. n :
        /\ first <= final /\ Ids(p, end, last) = first .. final
        /\ Oldest(InPeriod(ledger[p], end, last)) = first
  BY <1>1, <1>3, PeriodIsRun
<1>6. n \in Nat /\ high \in Ids(p, start, end) /\ first \in Ids(p, end, last)
  BY <1>4, <1>5, LedgerRows
<1>7. \A i \in 1 .. n : /\ ledger[p][i].created_at \in Int
                        /\ ledger[p][i].created_at < last
  <2>1. \A i \in 1 .. n : ledger[p][i].created_at \in 1 .. clock
    BY LedgerRows DEF WellDated
  <2>2. QED BY <1>1, <2>1
<1>8. \A i, j \in 1 .. n : i < j => ledger[p][i].created_at < ledger[p][j].created_at
  BY LedgerRows DEF RanInStartOrder
<1>9. /\ ledger[p][high].created_at >= start /\ ledger[p][high].created_at < end
      /\ ledger[p][first].created_at >= end
  BY <1>6 DEF Ids
<1>10. high < first
  <2>1. SUFFICES ASSUME ~(high < first) PROVE FALSE
    OBVIOUS
  <2>2. first = high \/ first < high
    BY <1>6, <2>1
  <2>3. QED BY <1>7, <1>8, <1>9, <2>2
<1>11. PICK k \in 1 .. n : k = first - 1
  BY <1>6, <1>10
<1>12. high <= k /\ k \notin Ids(p, end, last)
  BY <1>5, <1>6, <1>10, <1>11
<1>13. ledger[p][k].created_at < end
  BY <1>7, <1>12 DEF Ids
<1>14. k \in Ids(p, start, end)
  <2>1. ledger[p][k].created_at \in Int /\ ledger[p][high].created_at \in Int
    BY <1>7
  <2>2. k = high \/ ledger[p][high].created_at < ledger[p][k].created_at
    BY <1>6, <1>8, <1>12
  <2>3. ledger[p][k].created_at >= start
    BY <1>9, <2>1, <2>2
  <2>4. QED BY <1>13, <2>3 DEF Ids
<1>15. k = high
  BY <1>4, <1>6, <1>12, <1>14
<1>16. ledger[p][first].previous_stock = ledger[p][high].new_stock
  BY <1>6, <1>10, <1>11, <1>15, SMTT(30) DEF IInv, LedgerChains
<1>17. /\ InPeriod(ledger[p], start, end)[high] = ledger[p][high]
       /\ InPeriod(ledger[p], end, last)[first] = ledger[p][first]
  BY <1>1, <1>6, PeriodRows
<1>18. QED BY <1>2, <1>3, <1>4, <1>5, <1>16, <1>17 DEF ReportLine, last

\* The history of such a product begins with its newest movement, the one
\* that left the balance.
LEMMA HistoryStartsNewest ==
  ASSUME IInv, DatesInv, NEW p \in Products, RanInStartOrder(p), ledger[p] # <<>>
  PROVE  Head(History(p)).new_stock = product[p].stock
<1> DEFINE n == Len(ledger[p])
           Later(i) == {j \in DOMAIN ledger[p] : Before(ledger[p], i, j)}
<1>1. /\ n \in Nat /\ n # 0 /\ DOMAIN ledger[p] = 1 .. n /\ IsFiniteSet(1 .. n)
  BY LedgerRows
<1>2. \A i, j \in 1 .. n : Before(ledger[p], i, j) <=> i < j
  <2>1. \A i \in 1 .. n : ledger[p][i].created_at \in Int
    BY LedgerRows DEF WellDated, IInv, TypeOK
  <2>2. \A i, j \in 1 .. n : i < j => ledger[p][i].created_at < ledger[p][j].created_at
    BY <1>1 DEF RanInStartOrder
  <2>3. QED BY <2>1, <2>2 DEF Before
<1>3. \A i \in 1 .. n : Later(i) = {} <=> i = n
  BY <1>1, <1>2
<1>4. \A i \in 1 .. n : Cardinality(Later(i)) = 0 <=> i = n
  <2>1. \A i \in 1 .. n : IsFiniteSet(Later(i))
    BY <1>1, FS_Subset
  <2> HIDE DEF Later
  <2>2. QED BY <1>3, <2>1, FS_EmptySet
<1>5. (CHOOSE i \in 1 .. n : Cardinality(Later(i)) = 0) = n
  BY <1>1, <1>4
<1>6. History(p)[1] = ledger[p][CHOOSE i \in 1 .. n : Cardinality(Later(i)) = 0]
  BY <1>1 DEF History
<1>7. Head(History(p)) = ledger[p][n]
  <2> DEFINE h == History(p)
             S == {h[k] : k \in 1 .. n}
  <2>1. h \in [1 .. n -> S]
    BY <1>1 DEF History
  <2>2. h[1] = ledger[p][n]
    BY <1>5, <1>6
  <2> HIDE DEF h, S
  <2>3. h \in Seq(S) /\ Len(h) = n
    BY <1>1, <2>1
  <2>4. Head(h) = h[1]
    BY <1>1, <2>3
  <2>5. QED BY <2>2, <2>4 DEF h
<1>8. QED BY <1>7 DEF IInv, StockMatchesLedger

\* With changes in start order, a line opens where the ledger stood.
LEMMA StartOrderFollows == IInv /\ DatesInv => ReportsAgreeInStartOrder
<1> SUFFICES ASSUME IInv, DatesInv, NEW p \in Products, RanInStartOrder(p)
    PROVE  /\ \A t \in Periods :
                LET report == DailyStockReport("ALL", t[1], t[2])
                    after == DailyStockReport("ALL", t[2], MaxRequests + 1)
                IN p \in DOMAIN report =>
                     /\ report[p].net_change = Movement(report[p])
                     /\ p \in DOMAIN after =>
                          after[p].opening_stock = report[p].closing_stock
           /\ ledger[p] # <<>> => Head(History(p)).new_stock = product[p].stock
  BY DEF ReportsAgreeInStartOrder
<1>1. \A t \in Periods : t[1] \in Int /\ t[2] \in Int /\ t[1] < t[2]
  BY DEF Periods, Times
<1>2. QED BY <1>1, NetChangeIsMovement, ClosesWhereTheNextOpens, HistoryStartsNewest

\* Where changes ran in the order their transactions started, net changes are
\* what moved, adjacent periods agree on the balance between them, and the
\* history is newest first.
THEOREM StartOrderAgrees == Spec => []ReportsAgreeInStartOrder
BY StartOrderFollows, Invariance, MovementsAreDated, PTL
=================================================================================
