------------------------- MODULE ProductCatalog_proofs -------------------------
(***************************************************************************)
(* Proofs about ProductCatalog, for any products, codes, handlers and      *)
(* bounds, and any rows a deployment begins with.                          *)
(*                                                                         *)
(* No identifier is shared, because each column's index keeps its values   *)
(* apart and an unmixed row is either uniform, so that a shared identifier *)
(* would meet the other row in a column, or still has the identifiers it   *)
(* began with.  A rename keeps that: written over the copy it was computed *)
(* from, or over a uniform copy, a new code reaches all three columns.     *)
(***************************************************************************)
EXTENDS ProductCatalog, TLAPS

ColumnsUnique ==
  \A p, q \in DOMAIN rows : p # q => \A c \in Columns : rows[p][c] # rows[q][c]

\* A request in progress that has a product has a row, and rows are never removed.
RequestsHaveRows ==
  \A h \in Handlers : work[h].pc \in {"read", "ready", "deleting", "restoring"}
                       => work[h].product \in DOMAIN rows

IInv == /\ TypeOK
        /\ RequestsHaveRows
        /\ ColumnsUnique
        /\ ScanCodesFollowTheCode
        /\ AuditRetellsTheRows

AllColumns == {"product_code", "qr_code", "barcode", "name", "minimum_stock",
               "current_stock", "deleted"}

(***************************************************************************)
(* The operators on rows.                                                  *)
(***************************************************************************)

\* A row has its seven columns and nothing else.
LEMMA RowColumns == \A row \in Row : DOMAIN row = AllColumns
BY DEF Row, AllColumns

\* A row is its seven columns.
LEMMA RowByColumns ==
  ASSUME NEW f, f = [c \in AllColumns |-> f[c]],
         f.product_code \in Codes, f.qr_code \in Codes, f.barcode \in Codes,
         f.name \in Names, f.minimum_stock \in Levels, f.current_stock \in Levels,
         f.deleted \in BOOLEAN
  PROVE  f \in Row
<1>1. f = [product_code |-> f.product_code, qr_code |-> f.qr_code, barcode |-> f.barcode,
           name |-> f.name, minimum_stock |-> f.minimum_stock,
           current_stock |-> f.current_stock, deleted |-> f.deleted]
  BY DEF AllColumns
<1>2. QED
  BY <1>1 DEF Row

\* What a PUT writes into each column of a row.
LEMMA WrittenColumns ==
  ASSUME NEW copy \in Row, NEW row \in Row, NEW body \in ProductUpdate
  PROVE  LET new == Written(copy, body, row) IN
         /\ new = [c \in AllColumns |-> new[c]]
         /\ \A c \in Columns :
              new[c] = IF body.product_code # Keep /\ body.product_code # copy[c]
                       THEN body.product_code ELSE row[c]
         /\ \A c \in Audited :
              new[c] = IF body[c] # Keep /\ body[c] # copy[c] THEN body[c] ELSE row[c]
         /\ new.current_stock = row.current_stock /\ new.deleted = row.deleted
<1>1. DOMAIN row = AllColumns /\ DOMAIN copy = AllColumns
  BY RowColumns
<1>2. Columns \subseteq AllColumns /\ Audited \subseteq AllColumns
      /\ Columns \cap Audited = {}
      /\ "current_stock" \in AllColumns \ (Columns \cup Audited)
      /\ "deleted" \in AllColumns \ (Columns \cup Audited)
  BY DEF Columns, Audited, AllColumns
<1> HIDE DEF Columns, Audited, AllColumns
<1>3. \A c \in Columns :
        Desired(copy, body)[c] = IF body.product_code = Keep THEN copy[c]
                                 ELSE body.product_code
  BY <1>1, <1>2 DEF Desired
<1>4. \A c \in Audited : Desired(copy, body)[c] = IF body[c] = Keep THEN copy[c] ELSE body[c]
  BY <1>1, <1>2 DEF Desired
<1>5. \A c \in AllColumns \ (Columns \cup Audited) : Desired(copy, body)[c] = copy[c]
  BY <1>1 DEF Desired
<1>6. \A c \in AllColumns :
        Written(copy, body, row)[c] = IF Desired(copy, body)[c] # copy[c]
                                      THEN Desired(copy, body)[c] ELSE row[c]
  BY <1>1 DEF Written
<1>7. Written(copy, body, row) = [c \in AllColumns |-> Written(copy, body, row)[c]]
  BY <1>1 DEF Written
<1>8. QED
  BY <1>2, <1>3, <1>4, <1>5, <1>6, <1>7

\* A row stays a row.
LEMMA WrittenTyped ==
  ASSUME NEW copy \in Row, NEW row \in Row, NEW body \in ProductUpdate
  PROVE  Written(copy, body, row) \in Row
<1> DEFINE new == Written(copy, body, row)
<1>1. /\ new = [c \in AllColumns |-> new[c]]
      /\ \A c \in Columns : new[c] \in {body.product_code, row[c]} \ {Keep}
      /\ \A c \in Audited : new[c] \in {body[c], row[c]} \ {Keep}
      /\ new.current_stock = row.current_stock /\ new.deleted = row.deleted
  <2>1. \A c \in Columns \cup Audited : row[c] # Keep
    BY CatalogAssumption DEF Row, Columns, Audited
  <2>2. QED
    BY <2>1, WrittenColumns
<1>2. new.product_code \in Codes /\ new.qr_code \in Codes /\ new.barcode \in Codes
  <2>1. body.product_code \in Codes \cup {Keep}
    BY DEF ProductUpdate
  <2>2. row.product_code \in Codes /\ row.qr_code \in Codes /\ row.barcode \in Codes
    BY DEF Row
  <2> HIDE DEF new
  <2>3. QED
    BY <1>1, <2>1, <2>2 DEF Columns
<1>3. new.name \in Names /\ new.minimum_stock \in Levels
  <2>1. body.name \in Names \cup {Keep} /\ body.minimum_stock \in Levels \cup {Keep}
    BY DEF ProductUpdate
  <2>2. row.name \in Names /\ row.minimum_stock \in Levels
    BY DEF Row
  <2> HIDE DEF new
  <2>3. QED
    BY <1>1, <2>1, <2>2 DEF Audited
<1>4. new.current_stock \in Levels /\ new.deleted \in BOOLEAN
  <2>1. row.current_stock \in Levels /\ row.deleted \in BOOLEAN
    BY DEF Row
  <2>2. QED
    BY <1>1, <2>1
<1> HIDE DEF new
<1>5. new \in Row
  BY <1>1, <1>2, <1>3, <1>4, RowByColumns
<1>6. QED
  BY <1>5 DEF new

\* A new row is a row, and uniform.
LEMMA NewRowTyped ==
  ASSUME NEW body \in Creations
  PROVE  NewRow(body) \in Row /\ Uniform(NewRow(body))
<1>1. body \in ProductCreate
  BY CatalogAssumption
<1>2. QED
  BY <1>1 DEF ProductCreate, NewRow, Row, Uniform

\* The audit row of a PUT reports the columns the PUT writes, as it writes them.
LEMMA ChangesOfWritten ==
  ASSUME NEW copy \in Row, NEW row \in Row, NEW body \in ProductUpdate
  PROVE  LET changes == FieldChanges(copy, Desired(copy, body))
             new == Written(copy, body, row)
         IN /\ DOMAIN changes \subseteq Recorded
            /\ \A c \in DOMAIN changes : new[c] = changes[c]
            /\ \A c \in Recorded \ DOMAIN changes : new[c] = row[c]
<1> DEFINE changes == FieldChanges(copy, Desired(copy, body))
<1> DEFINE new == Written(copy, body, row)
<1>1. /\ new.name = IF body.name # Keep /\ body.name # copy.name
                    THEN body.name ELSE row.name
      /\ new.minimum_stock =
           IF body.minimum_stock # Keep /\ body.minimum_stock # copy.minimum_stock
           THEN body.minimum_stock ELSE row.minimum_stock
      /\ new.deleted = row.deleted
  BY WrittenColumns, ZenonT(30) DEF Audited
<1>2. \A c \in Audited : Desired(copy, body)[c] = IF body[c] = Keep THEN copy[c] ELSE body[c]
  BY RowColumns DEF Desired, Audited, Columns, AllColumns
<1>3. \A c \in Audited : c \in DOMAIN changes <=> body[c] # Keep /\ body[c] # copy[c]
  BY <1>2 DEF FieldChanges
<1>4. \A c \in DOMAIN changes : c \in Audited /\ changes[c] = body[c]
  BY <1>2 DEF FieldChanges
<1> HIDE DEF changes, new
<1>5. DOMAIN changes \subseteq Recorded
  BY <1>4 DEF Recorded
<1>6. \A c \in DOMAIN changes : new[c] = changes[c]
  BY <1>1, <1>3, <1>4 DEF Audited
<1>7. \A c \in Recorded \ DOMAIN changes : new[c] = row[c]
  BY <1>1, <1>3 DEF Recorded, Audited
<1>8. QED
  BY <1>5, <1>6, <1>7 DEF changes, new

\* A story is typed.
LEMMA StoryTyped == \A row \in Row : StoryOf(row) \in Story
BY DEF Row, StoryOf, Story

\* It is the recorded columns of the row.
LEMMA StoryColumns == ASSUME NEW row PROVE \A c \in Recorded : StoryOf(row)[c] = row[c]
BY DEF StoryOf, Recorded, Audited

\* A row that is uniform or unchanged stays so, unless the PUT mixes it.
LEMMA WrittenClean ==
  ASSUME NEW copy \in Row, NEW row \in Row, NEW body \in ProductUpdate,
         ~Mixes(copy, body, row)
  PROVE  \/ Uniform(Written(copy, body, row))
         \/ SameIdentifiers(Written(copy, body, row), row)
<1> DEFINE new == Written(copy, body, row)
<1>1. \A c \in Columns :
        new[c] = IF body.product_code # Keep /\ body.product_code # copy[c]
                 THEN body.product_code ELSE row[c]
  BY WrittenColumns
<1> HIDE DEF new
<1>2. CASE body.product_code = Keep
  BY <1>1, <1>2 DEF SameIdentifiers, new
<1>3. CASE body.product_code # Keep /\ SameIdentifiers(copy, row)
  <2>1. \A c \in Columns : new[c] = body.product_code
    BY <1>1, <1>3 DEF SameIdentifiers
  <2>2. QED
    BY <2>1 DEF Uniform, Columns, new
<1>4. CASE body.product_code # Keep /\ Uniform(copy)
  <2>1. \A c \in Columns : copy[c] = copy.product_code
    BY <1>4 DEF Uniform, Columns
  <2>2. CASE body.product_code = copy.product_code
    BY <1>1, <2>1, <2>2 DEF SameIdentifiers, new
  <2>3. CASE body.product_code # copy.product_code
    <3>1. \A c \in Columns : new[c] = body.product_code
      BY <1>1, <1>4, <2>1, <2>3
    <3>2. QED
      BY <3>1 DEF Uniform, Columns, new
  <2>4. QED
    BY <2>2, <2>3
<1>5. QED
  BY <1>2, <1>3, <1>4 DEF Mixes

(***************************************************************************)
(* Types.                                                                  *)
(***************************************************************************)

\* What a request in progress carries, by its phase.
LEMMA RequestTypes ==
  ASSUME TypeOK, NEW h \in Handlers
  PROVE  /\ work[h].pc \in {"begun", "checked", "duplicate"}
              => work[h] \in Creating /\ work[h].body \in Creations
         /\ work[h].pc \in {"read", "ready"}
              => /\ work[h] \in Editing /\ work[h].product \in Products
                 /\ work[h].copy \in Row /\ work[h].body \in Bodies
         /\ work[h].pc \in {"deleting", "restoring"}
              => work[h] \in Marking /\ work[h].product \in Products
         /\ work[h] # Idle => work[h].at \in Times
<1>1. work[h] \in {Idle} \cup Creating \cup Editing \cup Marking
  BY DEF TypeOK
<1>2. CASE work[h] = Idle
  BY <1>2 DEF Idle
<1>3. CASE work[h] \in Creating
  BY <1>3 DEF Creating
<1>4. CASE work[h] \in Editing
  BY <1>4 DEF Editing
<1>5. CASE work[h] \in Marking
  BY <1>5 DEF Marking
<1>6. QED
  BY <1>1, <1>2, <1>3, <1>4, <1>5

\* A step that leaves the rows alone keeps everything said of them.
LEMMA OnlyRequestsMove ==
  ASSUME IInv, UNCHANGED <<rows, trail, mixed>>, moves' \in 0 .. MaxMoves,
         begun' \in 0 .. MaxRequests,
         work' \in [Handlers -> {Idle} \cup Creating \cup Editing \cup Marking],
         \A h \in Handlers : work'[h].pc \in {"read", "ready", "deleting", "restoring"}
                              => work'[h].product \in DOMAIN rows
  PROVE  IInv'
<1>1. TypeOK'
  BY DEF IInv, TypeOK, trail
<1>2. RequestsHaveRows'
  BY DEF RequestsHaveRows
<1>3. ColumnsUnique' /\ ScanCodesFollowTheCode' /\ AuditRetellsTheRows'
  BY DEF IInv, ColumnsUnique, ScanCodesFollowTheCode, AuditRetellsTheRows, Uniform,
         SameIdentifiers, trail
<1>4. QED
  BY <1>1, <1>2, <1>3 DEF IInv

\* A request that begins is of its type and of an existing row.
LEMMA BeginKeeps ==
  ASSUME IInv, NEW h \in Handlers, NEW request \in Creating \cup Editing \cup Marking,
         request.pc \in {"read", "ready", "deleting", "restoring"} => request.product \in DOMAIN rows,
         Begin(h, request), UNCHANGED <<rows, trail, mixed, moves>>
  PROVE  IInv'
<1>1. moves' \in 0 .. MaxMoves /\ begun' \in 0 .. MaxRequests
  BY CatalogAssumption DEF IInv, TypeOK, Begin
<1>2. work' \in [Handlers -> {Idle} \cup Creating \cup Editing \cup Marking]
  BY DEF IInv, TypeOK, Begin
<1>3. \A k \in Handlers : work'[k].pc \in {"read", "ready", "deleting", "restoring"}
                          => work'[k].product \in DOMAIN rows
  BY DEF IInv, TypeOK, RequestsHaveRows, Begin
<1>4. QED
  BY <1>1, <1>2, <1>3, OnlyRequestsMove

\* A request that ends leaves the types and the other requests as they are.
LEMMA FinishKeeps ==
  ASSUME TypeOK, RequestsHaveRows, NEW h \in Handlers, Finish(h)
  PROVE  /\ work' \in [Handlers -> {Idle} \cup Creating \cup Editing \cup Marking]
         /\ \A k \in Handlers : work'[k].pc \in {"read", "ready", "deleting", "restoring"}
                                => work'[k].product \in DOMAIN rows
<1>1. Idle.pc \notin {"read", "ready", "deleting", "restoring"}
  BY DEF Idle
<1>2. \A k \in Handlers : work'[k] = IF k = h THEN Idle ELSE work[k]
  BY DEF TypeOK, Finish
<1>3. work' \in [Handlers -> {Idle} \cup Creating \cup Editing \cup Marking]
  BY DEF TypeOK, Finish
<1>4. QED
  BY <1>1, <1>2, <1>3 DEF RequestsHaveRows

\* A request that goes on to its next phase keeps what it carries.
LEMMA AdvanceKeeps ==
  ASSUME TypeOK, RequestsHaveRows, NEW h \in Handlers, NEW pc,
         work' = [work EXCEPT ![h].pc = pc],
         \/ work[h] \in Creating /\ pc \in {"checked", "duplicate"}
         \/ work[h] \in Editing /\ pc = "ready"
  PROVE  /\ work' \in [Handlers -> {Idle} \cup Creating \cup Editing \cup Marking]
         /\ \A k \in Handlers : work'[k].pc \in {"read", "ready", "deleting", "restoring"}
                                => work'[k].product \in DOMAIN rows
<1>1. \A k \in Handlers : k # h => work'[k] = work[k]
  BY DEF TypeOK
<1>2. work'[h] = [work[h] EXCEPT !.pc = pc]
  BY DEF TypeOK
<1>3. CASE work[h] \in Creating /\ pc \in {"checked", "duplicate"}
  <2>1. work'[h] \in Creating
    BY <1>2, <1>3 DEF Creating
  <2>2. work'[h].pc \notin {"read", "ready", "deleting", "restoring"}
    BY <2>1 DEF Creating
  <2>3. work' \in [Handlers -> {Idle} \cup Creating \cup Editing \cup Marking]
    BY <1>1, <2>1 DEF TypeOK
  <2>4. QED
    BY <1>1, <2>2, <2>3 DEF RequestsHaveRows
<1>4. CASE work[h] \in Editing /\ pc = "ready"
  <2>1. work'[h] \in Editing /\ work'[h].product = work[h].product
    BY <1>2, <1>4 DEF Editing
  <2>2. work[h].pc \in {"read", "ready"}
    BY <1>4 DEF Editing
  <2>3. work' \in [Handlers -> {Idle} \cup Creating \cup Editing \cup Marking]
    BY <1>1, <2>1 DEF TypeOK
  <2>4. QED
    BY <1>1, <2>1, <2>2, <2>3 DEF RequestsHaveRows
<1>5. QED
  BY <1>3, <1>4

(***************************************************************************)
(* Steps that change a row.                                                *)
(***************************************************************************)

\* After the step the trail is typed, and says of product p what "new" has.
TrailFits(p, new) ==
  /\ told' \in [DOMAIN rows -> Story]
  /\ dated' \in [DOMAIN rows -> [Recorded -> Times]]
  /\ overtaken' \subseteq (DOMAIN rows) \X Recorded
  /\ \A q \in DOMAIN rows, c \in Recorded :
       <<q, c>> \notin overtaken' => told'[q][c] = IF q = p THEN new[c] ELSE rows[q][c]

\* An audit row that reports what its commit writes keeps the trail right: for
\* a column it is the last word, or it is overtaken.
LEMMA RecordFits ==
  ASSUME IInv, NEW p \in DOMAIN rows, NEW at \in Times, NEW changes, NEW new \in Row,
         DOMAIN changes \subseteq Recorded,
         \A c \in DOMAIN changes : new[c] = changes[c],
         \A c \in Recorded \ DOMAIN changes : new[c] = rows[p][c],
         Record(p, at, changes)
  PROVE  TrailFits(p, new)
<1> DEFINE heard == Heard(p, at, changes)
           unheard == Overtakers(p, at, changes)
<1>1. /\ heard \subseteq Recorded /\ unheard \subseteq Recorded
      /\ \A c \in heard : c \in DOMAIN changes
      /\ \A c \in DOMAIN changes : c \in heard \/ c \in unheard
  BY DEF Heard, Overtakers
<1>2. /\ told' = [told EXCEPT ![p] = Retold(told[p], heard, changes)]
      /\ dated' = [dated EXCEPT ![p] = [c \in Recorded |-> IF c \in heard THEN at ELSE dated[p][c]]]
      /\ overtaken' = (overtaken \ ({p} \X heard)) \cup ({p} \X unheard)
  BY DEF Record
<1> HIDE DEF heard, unheard
<1>3. told[p] \in Story /\ DOMAIN told[p] = Recorded
  BY DEF IInv, TypeOK, Story, Recorded, Audited
<1>4. \A c \in Recorded : Retold(told[p], heard, changes)[c]
                            = IF c \in heard THEN new[c] ELSE told[p][c]
  BY <1>1, <1>3 DEF Retold
<1>5. Retold(told[p], heard, changes) \in Story
  <2>1. Retold(told[p], heard, changes)
          = [c \in Recorded |-> IF c \in heard THEN new[c] ELSE told[p][c]]
    BY <1>1, <1>3 DEF Retold
  <2>2. /\ new.name \in Names /\ new.minimum_stock \in Levels /\ new.deleted \in BOOLEAN
        /\ told[p].name \in Names /\ told[p].minimum_stock \in Levels
        /\ told[p].deleted \in BOOLEAN
    BY <1>3 DEF Row, Story
  <2>3. Retold(told[p], heard, changes)
          = [name |-> IF "name" \in heard THEN new.name ELSE told[p].name,
             minimum_stock |-> IF "minimum_stock" \in heard THEN new.minimum_stock
                               ELSE told[p].minimum_stock,
             deleted |-> IF "deleted" \in heard THEN new.deleted ELSE told[p].deleted]
    BY <2>1 DEF Recorded, Audited
  <2>4. QED
    BY <2>2, <2>3 DEF Story
<1>6. told' \in [DOMAIN rows -> Story]
  BY <1>2, <1>5 DEF IInv, TypeOK
<1>7. dated' \in [DOMAIN rows -> [Recorded -> Times]]
  BY <1>2 DEF IInv, TypeOK
<1>8. overtaken' \subseteq (DOMAIN rows) \X Recorded
  BY <1>1, <1>2 DEF IInv, TypeOK
<1>9. ASSUME NEW q \in DOMAIN rows, NEW c \in Recorded, <<q, c>> \notin overtaken'
      PROVE  told'[q][c] = IF q = p THEN new[c] ELSE rows[q][c]
  <2>1. CASE q # p
    BY <1>2, <1>9, <2>1 DEF IInv, TypeOK, AuditRetellsTheRows
  <2>2. CASE q = p /\ c \in heard
    BY <1>2, <1>4, <2>2 DEF IInv, TypeOK
  <2>3. CASE q = p /\ c \notin heard
    <3>1. c \notin unheard /\ <<p, c>> \notin overtaken
      BY <1>2, <1>9, <2>3
    <3>2. told[p][c] = rows[p][c] /\ c \notin DOMAIN changes
      BY <1>1, <2>3, <3>1 DEF IInv, AuditRetellsTheRows
    <3>3. QED
      BY <1>2, <1>4, <2>3, <3>2 DEF IInv, TypeOK
  <2>4. QED
    BY <2>1, <2>2, <2>3
<1>10. QED
  BY <1>6, <1>7, <1>8, <1>9 DEF TrailFits

\* A row that meets no other in a column, uniform or with its old identifiers,
\* may take the place of the row it was.
LEMMA RowChangeKeeps ==
  ASSUME IInv, NEW p \in DOMAIN rows, NEW new \in Row,
         rows' = [rows EXCEPT ![p] = new], TrailFits(p, new),
         mixed \subseteq mixed', mixed' \subseteq DOMAIN rows,
         \A q \in DOMAIN rows \ {p} : \A c \in Columns : rows[q][c] # new[c],
         p \notin mixed' => Uniform(new) \/ SameIdentifiers(new, rows[p]),
         begun' \in 0 .. MaxRequests, moves' \in 0 .. MaxMoves,
         work' \in [Handlers -> {Idle} \cup Creating \cup Editing \cup Marking],
         \A h \in Handlers : work'[h].pc \in {"read", "ready", "deleting", "restoring"}
                              => work'[h].product \in DOMAIN rows
  PROVE  IInv'
<1>1. DOMAIN rows' = DOMAIN rows
  BY DEF IInv, TypeOK
<1>2. rows'[p] = new /\ \A q \in DOMAIN rows \ {p} : rows'[q] = rows[q]
  BY DEF IInv, TypeOK
<1>4. TypeOK'
  <2>1. rows' \in [DOMAIN rows' -> Row]
    BY <1>1, <1>2 DEF IInv, TypeOK
  <2>2. /\ told' \in [DOMAIN rows' -> Story] /\ dated' \in [DOMAIN rows' -> [Recorded -> Times]]
        /\ overtaken' \subseteq (DOMAIN rows') \X Recorded
    BY <1>1 DEF TrailFits
  <2>3. QED
    BY <1>1, <2>1, <2>2 DEF IInv, TypeOK
<1>5. RequestsHaveRows'
  BY <1>1 DEF RequestsHaveRows
<1>6. ColumnsUnique'
  BY <1>1, <1>2 DEF IInv, ColumnsUnique
<1>7. ScanCodesFollowTheCode'
  <2> SUFFICES ASSUME NEW q \in DOMAIN rows, q \notin mixed'
               PROVE  \/ Uniform(rows'[q])
                      \/ q \in DOMAIN Start /\ SameIdentifiers(rows'[q], Start[q])
    BY <1>1 DEF ScanCodesFollowTheCode, Uniform, SameIdentifiers
  <2>1. \/ Uniform(rows[q])
        \/ q \in DOMAIN Start /\ SameIdentifiers(rows[q], Start[q])
    BY DEF IInv, ScanCodesFollowTheCode
  <2>2. CASE q # p
    BY <1>2, <2>1, <2>2
  <2>3. CASE q = p /\ Uniform(new)
    BY <1>2, <2>3
  <2>4. CASE q = p /\ SameIdentifiers(new, rows[p])
    BY <1>2, <2>1, <2>4 DEF Uniform, SameIdentifiers, Columns
  <2>5. QED
    BY <2>2, <2>3, <2>4
<1>8. AuditRetellsTheRows'
  BY <1>1, <1>2 DEF AuditRetellsTheRows, TrailFits
<1>9. QED
  BY <1>4, <1>5, <1>6, <1>7, <1>8 DEF IInv

\* A PUT commits: what it was computed from may be old, the row is not.
LEMMA CommitUpdateKeeps ==
  ASSUME IInv, NEW h \in Handlers, CommitUpdate(h)
  PROVE  IInv'
<1>1. work[h].pc = "ready" /\ Finish(h) /\ UNCHANGED <<begun, moves>>
  BY DEF CommitUpdate
<1>2. PICK p : p = work[h].product
  OBVIOUS
<1>3. PICK copy : copy = work[h].copy
  OBVIOUS
<1>4. PICK body : body = work[h].body
  OBVIOUS
<1>5. PICK row : row = rows[p]
  OBVIOUS
<1>6. PICK new : new = Written(copy, body, row)
  OBVIOUS
<1>7. p \in DOMAIN rows
  BY <1>1, <1>2 DEF IInv, RequestsHaveRows
<1>8. copy \in Row /\ body \in ProductUpdate /\ row \in Row
  <2>1. copy \in Row /\ body \in Bodies
    BY <1>1, <1>3, <1>4, RequestTypes DEF IInv
  <2>2. row \in Row
    BY <1>5, <1>7 DEF IInv, TypeOK
  <2>3. QED
    BY <2>1, <2>2, CatalogAssumption
<1>9. /\ work' \in [Handlers -> {Idle} \cup Creating \cup Editing \cup Marking]
      /\ \A k \in Handlers : work'[k].pc \in {"read", "ready", "deleting", "restoring"}
                             => work'[k].product \in DOMAIN rows
  BY <1>1, FinishKeeps DEF IInv
<1>10. begun' \in 0 .. MaxRequests /\ moves' \in 0 .. MaxMoves
  BY <1>1 DEF IInv, TypeOK
<1>11. CASE Violates(p, new)
  <2>1. UNCHANGED <<rows, trail, mixed>>
    BY <1>2, <1>3, <1>4, <1>5, <1>6, <1>11 DEF CommitUpdate
  <2>2. QED
    BY <2>1, <1>9, <1>10, OnlyRequestsMove
<1>12. CASE ~Violates(p, new)
  <2>1. /\ rows' = [rows EXCEPT ![p] = new]
        /\ Record(p, work[h].at, FieldChanges(copy, Desired(copy, body)))
        /\ mixed' = IF Mixes(copy, body, row) THEN mixed \cup {p} ELSE mixed
    BY <1>2, <1>3, <1>4, <1>5, <1>6, <1>12 DEF CommitUpdate
  <2>2. new \in Row
    BY <1>6, <1>8, WrittenTyped
  <2>3. work[h].at \in Times
    BY <1>1, RequestTypes DEF IInv, Idle
  <2>4. TrailFits(p, new)
    BY <2>1, <2>2, <2>3, <1>5, <1>6, <1>7, <1>8, ChangesOfWritten, RecordFits
  <2>5. mixed \subseteq mixed' /\ mixed' \subseteq DOMAIN rows
    BY <2>1, <1>7 DEF IInv, TypeOK
  <2>6. \A q \in DOMAIN rows \ {p} : \A c \in Columns : rows[q][c] # new[c]
    BY <1>12 DEF Violates
  <2>7. p \notin mixed' => Uniform(new) \/ SameIdentifiers(new, rows[p])
    BY <2>1, <1>5, <1>6, <1>8, WrittenClean
  <2>8. QED
    BY <2>1, <2>2, <2>4, <2>5, <2>6, <2>7, <1>7, <1>9, <1>10, RowChangeKeeps
<1>13. QED
  BY <1>11, <1>12

\* A column that is no identifier changes.
LEMMA OtherColumnKeeps ==
  ASSUME IInv, NEW p \in DOMAIN rows, NEW new \in Row, SameIdentifiers(new, rows[p]),
         rows' = [rows EXCEPT ![p] = new], TrailFits(p, new),
         mixed' = mixed, begun' \in 0 .. MaxRequests, moves' \in 0 .. MaxMoves,
         work' \in [Handlers -> {Idle} \cup Creating \cup Editing \cup Marking],
         \A h \in Handlers : work'[h].pc \in {"read", "ready", "deleting", "restoring"}
                              => work'[h].product \in DOMAIN rows
  PROVE  IInv'
<1>1. \A q \in DOMAIN rows \ {p} : \A c \in Columns : rows[q][c] # new[c]
  BY DEF IInv, ColumnsUnique, SameIdentifiers
<1>2. mixed \subseteq mixed' /\ mixed' \subseteq DOMAIN rows
  BY DEF IInv, TypeOK
<1>3. QED
  BY <1>1, <1>2, RowChangeKeeps

\* A delete or a restore commits.
LEMMA SetDeletedKeeps ==
  ASSUME IInv, NEW h \in Handlers, NEW deleted \in BOOLEAN, SetDeleted(h, deleted),
         work[h].pc \in {"deleting", "restoring"},
         mixed' = mixed, begun' \in 0 .. MaxRequests, moves' = moves,
         work' \in [Handlers -> {Idle} \cup Creating \cup Editing \cup Marking],
         \A g \in Handlers : work'[g].pc \in {"read", "ready", "deleting", "restoring"}
                              => work'[g].product \in DOMAIN rows
  PROVE  IInv'
<1>1. PICK p, at, new : p = work[h].product /\ at = work[h].at
                        /\ new = [rows[p] EXCEPT !.deleted = deleted]
  OBVIOUS
<1>2. p \in DOMAIN rows /\ rows[p] \in Row /\ at \in Times
  BY <1>1, RequestTypes DEF IInv, TypeOK, RequestsHaveRows, Idle
<1>3. new \in Row
  BY <1>1, <1>2 DEF Row
<1>4. SameIdentifiers(new, rows[p])
  BY <1>1, <1>2 DEF Row, SameIdentifiers, Columns
<1>5. rows' = [rows EXCEPT ![p] = new] /\ Record(p, at, [c \in {"deleted"} |-> deleted])
  BY <1>1 DEF SetDeleted
<1>6. new["deleted"] = deleted /\ \A c \in Audited : new[c] = rows[p][c]
  BY <1>1, <1>2 DEF Row, Audited
<1>7. TrailFits(p, new)
  <2>1. PICK changes : changes = [c \in {"deleted"} |-> deleted]
    OBVIOUS
  <2>2. DOMAIN changes = {"deleted"} /\ changes["deleted"] = deleted
    BY <2>1
  <2>3. /\ DOMAIN changes \subseteq Recorded
        /\ \A c \in DOMAIN changes : new[c] = changes[c]
        /\ \A c \in Recorded \ DOMAIN changes : new[c] = rows[p][c]
    BY <1>6, <2>2 DEF Recorded
  <2>4. Record(p, at, changes)
    BY <1>5, <2>1
  <2>5. QED
    BY <1>2, <1>3, <2>3, <2>4, RecordFits
<1>8. moves' \in 0 .. MaxMoves
  BY DEF IInv, TypeOK
<1>9. QED
  BY <1>2, <1>3, <1>4, <1>5, <1>7, <1>8, OtherColumnKeeps

\* A new product commits, or an index refuses it.
LEMMA CommitCreateKeeps ==
  ASSUME IInv, NEW h \in Handlers, CommitCreate(h)
  PROVE  IInv'
<1>1. work[h].pc = "checked" /\ UNCHANGED <<mixed, begun, moves>>
  BY DEF CommitCreate
<1>2. PICK row : row = NewRow(work[h].body)
  OBVIOUS
<1>3. PICK p \in Products \ DOMAIN rows :
        IF Violates(p, row)
        THEN /\ work' = [work EXCEPT ![h].pc = "duplicate"]
             /\ UNCHANGED <<rows, trail>>
        ELSE /\ rows' = With(rows, p, row)
             /\ told' = With(told, p, StoryOf(row))
             /\ dated' = With(dated, p, [c \in Recorded |-> work[h].at])
             /\ UNCHANGED overtaken
             /\ Finish(h)
  BY <1>2 DEF CommitCreate
<1>4. begun' \in 0 .. MaxRequests /\ moves' \in 0 .. MaxMoves
  BY <1>1 DEF IInv, TypeOK
<1>5. CASE Violates(p, row)
  <2>1. work[h] \in Creating
    BY <1>1, RequestTypes DEF IInv
  <2>2. work' = [work EXCEPT ![h].pc = "duplicate"] /\ UNCHANGED <<rows, trail, mixed>>
    BY <1>1, <1>3, <1>5
  <2>3. /\ work' \in [Handlers -> {Idle} \cup Creating \cup Editing \cup Marking]
        /\ \A k \in Handlers : work'[k].pc \in {"read", "ready", "deleting", "restoring"}
                               => work'[k].product \in DOMAIN rows
    BY <2>1, <2>2, AdvanceKeeps DEF IInv
  <2>4. QED
    BY <2>2, <2>3, <1>4, OnlyRequestsMove
<1>6. CASE ~Violates(p, row)
  <2>1. /\ rows' = With(rows, p, row) /\ told' = With(told, p, StoryOf(row))
        /\ dated' = With(dated, p, [c \in Recorded |-> work[h].at])
        /\ overtaken' = overtaken
        /\ Finish(h)
    BY <1>3, <1>6
  <2>2. row \in Row /\ Uniform(row)
    BY <1>1, <1>2, RequestTypes, NewRowTyped DEF IInv
  <2>3. /\ DOMAIN rows' = DOMAIN rows \cup {p}
        /\ rows'[p] = row
        /\ \A q \in DOMAIN rows : rows'[q] = rows[q]
        /\ rows' = [q \in DOMAIN rows \cup {p} |-> rows'[q]]
    BY <2>1, <1>3 DEF With
  <2>4. /\ told'[p] = StoryOf(row)
        /\ \A q \in DOMAIN rows : told'[q] = told[q]
        /\ told' = [q \in DOMAIN rows \cup {p} |-> told'[q]]
    BY <2>1, <1>3 DEF With, IInv, TypeOK
  <2>5. /\ work' \in [Handlers -> {Idle} \cup Creating \cup Editing \cup Marking]
        /\ \A k \in Handlers : work'[k].pc \in {"read", "ready", "deleting", "restoring"}
                               => work'[k].product \in DOMAIN rows
    BY <2>1, FinishKeeps DEF IInv
  <2>6. TypeOK'
    <3>1. \A q \in DOMAIN rows : rows[q] \in Row /\ told[q] \in Story
      BY DEF IInv, TypeOK
    <3>2. rows' \in [DOMAIN rows' -> Row]
      BY <2>2, <2>3, <3>1
    <3>3. told' \in [DOMAIN rows' -> Story]
      BY <2>2, <2>3, <2>4, <3>1, StoryTyped
    <3>4. DOMAIN rows' \subseteq Products /\ mixed' \subseteq DOMAIN rows'
      BY <1>1, <1>3, <2>3 DEF IInv, TypeOK
    <3>5. dated' \in [DOMAIN rows' -> [Recorded -> Times]]
      <4>1. work[h].at \in Times
        BY <1>1, RequestTypes DEF IInv, Idle
      <4>2. [c \in Recorded |-> work[h].at] \in [Recorded -> Times]
        BY <4>1
      <4>3. DOMAIN dated = DOMAIN rows /\ \A q \in DOMAIN rows : dated[q] \in [Recorded -> Times]
        BY DEF IInv, TypeOK
      <4>4. QED
        BY <2>1, <2>3, <4>2, <4>3 DEF With
    <3>6. overtaken' \subseteq (DOMAIN rows') \X Recorded
      BY <2>1, <2>3 DEF IInv, TypeOK
    <3>7. QED
      BY <3>2, <3>3, <3>4, <3>5, <3>6, <2>5, <1>4 DEF TypeOK
  <2>7. RequestsHaveRows'
    BY <2>3, <2>5 DEF RequestsHaveRows
  <2>8. ColumnsUnique'
    <3>1. \A q \in DOMAIN rows : \A c \in Columns : rows[q][c] # row[c]
      BY <1>3, <1>6 DEF Violates
    <3>2. QED
      BY <2>3, <3>1 DEF IInv, ColumnsUnique
  <2>9. ScanCodesFollowTheCode'
    <3>1. \A q \in DOMAIN rows \ mixed :
            \/ Uniform(rows'[q])
            \/ q \in DOMAIN Start /\ SameIdentifiers(rows'[q], Start[q])
      BY <2>3 DEF IInv, ScanCodesFollowTheCode, Uniform, SameIdentifiers
    <3>2. Uniform(rows'[p])
      BY <2>2, <2>3
    <3>3. mixed' = mixed
      BY <1>1
    <3>4. QED
      BY <2>3, <3>1, <3>2, <3>3 DEF ScanCodesFollowTheCode, Uniform, SameIdentifiers
  <2>10. AuditRetellsTheRows'
    <3>1. \A c \in Recorded : StoryOf(row)[c] = row[c]
      BY StoryColumns
    <3>2. QED
      BY <2>1, <2>3, <2>4, <3>1 DEF IInv, AuditRetellsTheRows
  <2>11. QED
    BY <2>6, <2>7, <2>8, <2>9, <2>10 DEF IInv
<1>7. QED
  BY <1>5, <1>6

(***************************************************************************)
(* The invariant.                                                          *)
(***************************************************************************)

\* The rows a deployment begins with satisfy the invariant.
LEMMA InitEstablishes == InitCatalog => IInv
<1> SUFFICES ASSUME InitCatalog PROVE IInv
  OBVIOUS
<1>1. TypeOK
  BY StartAssumption, StoryTyped, CatalogAssumption DEF InitCatalog, TypeOK, Times
<1>2. RequestsHaveRows
  BY DEF InitCatalog, RequestsHaveRows, Idle
<1>3. ColumnsUnique
  <2>1. \A p \in DOMAIN Start : \A c \in Columns : Start[p][c] \in Identifiers(Start[p])
    BY DEF Identifiers
  <2>2. QED
    BY <2>1, StartAssumption DEF InitCatalog, ColumnsUnique
<1>4. ScanCodesFollowTheCode /\ AuditRetellsTheRows
  BY StoryColumns DEF InitCatalog, ScanCodesFollowTheCode, AuditRetellsTheRows, SameIdentifiers
<1>5. QED
  BY <1>1, <1>2, <1>3, <1>4 DEF IInv

\* Every step of every request keeps the invariant.
LEMMA StepKeeps == IInv /\ [NextCatalog]_catalog => IInv'
<1> SUFFICES ASSUME IInv, [NextCatalog]_catalog PROVE IInv'
  OBVIOUS
<1>0. /\ begun \in 0 .. MaxRequests /\ moves \in 0 .. MaxMoves
      /\ begun < MaxRequests => begun + 1 \in Times
  BY CatalogAssumption DEF IInv, TypeOK, Times
<1>1. CASE UNCHANGED catalog
  BY <1>1, OnlyRequestsMove DEF catalog, IInv, TypeOK, RequestsHaveRows
<1>2. ASSUME NEW h \in Handlers, NEW body \in Creations, BeginCreate(h, body)
      PROVE  IInv'
  <2>1. [pc |-> "begun", at |-> begun + 1, body |-> body] \in Creating
    BY <1>0, <1>2 DEF Creating, BeginCreate, Begin
  <2>2. QED
    BY <1>2, <2>1, BeginKeeps DEF BeginCreate
<1>3. ASSUME NEW h \in Handlers, NEW sample \in Samples, SeedSample(h, sample)
      PROVE  IInv'
  <2>1. [pc |-> "begun", at |-> begun + 1, body |-> sample] \in Creating
    BY <1>0, <1>3, CatalogAssumption DEF Creating, SeedSample, Begin
  <2>2. QED
    BY <1>3, <2>1, BeginKeeps DEF SeedSample
<1>4. ASSUME NEW h \in Handlers, NEW p \in Products, NEW body \in Bodies,
             ReadProduct(h, p, body)
      PROVE  IInv'
  <2>1. PICK request : request = [pc |-> IF body.product_code = Keep THEN "ready" ELSE "read",
                                  at |-> begun + 1, product |-> p, copy |-> rows[p],
                                  body |-> body]
    OBVIOUS
  <2>2. p \in DOMAIN rows /\ rows[p] \in Row /\ begun + 1 \in Times
    BY <1>0, <1>4 DEF ReadProduct, Begin, Live, IInv, TypeOK
  <2>3. request \in Editing /\ request.product = p
    BY <2>1, <2>2 DEF Editing
  <2>4. QED
    BY <1>4, <2>1, <2>2, <2>3, BeginKeeps DEF ReadProduct
<1>5. ASSUME NEW h \in Handlers, NEW p \in Products, ReadForDelete(h, p) \/ BeginRestore(h, p)
      PROVE  IInv'
  <2>1. PICK pc \in {"deleting", "restoring"} :
          Begin(h, [pc |-> pc, at |-> begun + 1, product |-> p])
    BY <1>5 DEF ReadForDelete, BeginRestore
  <2>2. /\ [pc |-> pc, at |-> begun + 1, product |-> p] \in Marking
        /\ p \in DOMAIN rows /\ UNCHANGED <<rows, trail, mixed, moves>>
    BY <1>0, <1>5, <2>1 DEF Marking, ReadForDelete, BeginRestore, Begin, Live
  <2>3. QED
    BY <2>1, <2>2, BeginKeeps
<1>6. ASSUME NEW h \in Handlers, Finish(h), UNCHANGED <<rows, trail, mixed, begun, moves>>
      PROVE  IInv'
  BY <1>0, <1>6, FinishKeeps, OnlyRequestsMove DEF IInv
<1>7. ASSUME NEW h \in Handlers, CheckNewCode(h)
      PROVE  IInv'
  <2>1. work[h] \in Creating
    BY <1>7, RequestTypes DEF CheckNewCode, IInv
  <2>2. CASE Finish(h)
    BY <1>6, <1>7, <2>2 DEF CheckNewCode
  <2>3. CASE work' = [work EXCEPT ![h].pc = "checked"]
    BY <1>0, <1>7, <2>1, <2>3, AdvanceKeeps, OnlyRequestsMove DEF CheckNewCode, IInv
  <2>4. QED
    BY <1>7, <2>2, <2>3 DEF CheckNewCode
<1>8. ASSUME NEW h \in Handlers, CheckCode(h)
      PROVE  IInv'
  <2>1. work[h] \in Editing
    BY <1>8, RequestTypes DEF CheckCode, IInv
  <2>2. CASE Finish(h)
    BY <1>6, <1>8, <2>2 DEF CheckCode
  <2>3. CASE work' = [work EXCEPT ![h].pc = "ready"]
    BY <1>0, <1>8, <2>1, <2>3, AdvanceKeeps, OnlyRequestsMove DEF CheckCode, IInv
  <2>4. QED
    BY <1>8, <2>2, <2>3 DEF CheckCode
<1>9. ASSUME NEW h \in Handlers, NEW deleted \in BOOLEAN, SetDeleted(h, deleted), Finish(h),
             work[h].pc \in {"deleting", "restoring"}, UNCHANGED <<mixed, begun, moves>>
      PROVE  IInv'
  <2>1. /\ work' \in [Handlers -> {Idle} \cup Creating \cup Editing \cup Marking]
        /\ \A k \in Handlers : work'[k].pc \in {"read", "ready", "deleting", "restoring"}
                               => work'[k].product \in DOMAIN rows
    BY <1>9, FinishKeeps DEF IInv
  <2>2. QED
    BY <1>0, <1>9, <2>1, SetDeletedKeeps
<1>10. ASSUME NEW h \in Handlers, CommitDelete(h) \/ CommitRestore(h)
       PROVE  IInv'
  <2>1. CASE CommitDelete(h)
    BY <1>9, <2>1 DEF CommitDelete
  <2>2. CASE CommitRestore(h) /\ SetDeleted(h, FALSE)
    BY <1>9, <2>2 DEF CommitRestore
  <2>3. CASE CommitRestore(h) /\ UNCHANGED <<rows, trail>>
    BY <1>6, <2>3 DEF CommitRestore
  <2>4. QED
    BY <1>10, <2>1, <2>2, <2>3 DEF CommitRestore
<1>11. ASSUME NEW p \in DOMAIN rows, NEW level \in Levels, MoveStock(p, level)
       PROVE  IInv'
  <2>1. PICK new : new = [rows[p] EXCEPT !.current_stock = level]
    OBVIOUS
  <2>2. rows[p] \in Row
    BY DEF IInv, TypeOK
  <2>3. new \in Row
    BY <2>1, <2>2 DEF Row
  <2>4. SameIdentifiers(new, rows[p]) /\ \A c \in Recorded : new[c] = rows[p][c]
    BY <2>1, <2>2 DEF Row, SameIdentifiers, Columns, Recorded, Audited
  <2>5. rows' = [rows EXCEPT ![p] = new]
    BY <1>11, <2>1 DEF MoveStock
  <2>6. TrailFits(p, new)
    BY <1>11, <2>4 DEF MoveStock, IInv, TypeOK, AuditRetellsTheRows, TrailFits, trail
  <2>7. moves' \in 0 .. MaxMoves /\ begun' \in 0 .. MaxRequests
    BY <1>0, <1>11, CatalogAssumption DEF MoveStock
  <2>8. /\ work' \in [Handlers -> {Idle} \cup Creating \cup Editing \cup Marking]
        /\ \A k \in Handlers : work'[k].pc \in {"read", "ready", "deleting", "restoring"}
                               => work'[k].product \in DOMAIN rows
    BY <1>11 DEF MoveStock, IInv, TypeOK, RequestsHaveRows
  <2>9. mixed' = mixed
    BY <1>11 DEF MoveStock
  <2>10. QED
    BY <2>3, <2>4, <2>5, <2>6, <2>7, <2>8, <2>9, OtherColumnKeeps
<1>12. ASSUME NEW h \in Handlers, Handle(h)
       PROVE  IInv'
  <2>1. CASE RefuseDuplicate(h)
    BY <1>6, <2>1 DEF RefuseDuplicate
  <2>2. CASE Rollback(h)
    BY <1>6, <2>2 DEF Rollback
  <2>3. QED
    BY <1>2, <1>3, <1>4, <1>5, <1>7, <1>8, <1>10, <1>12, <2>1, <2>2,
       CommitCreateKeeps, CommitUpdateKeeps DEF Handle
<1>13. QED
  BY <1>1, <1>11, <1>12 DEF NextCatalog

\* The invariant holds in every reachable state.
THEOREM CatalogInvariance == SpecCatalog => []IInv
<1>1. InitCatalog => IInv
  BY InitEstablishes
<1>2. IInv /\ [NextCatalog]_catalog => IInv'
  BY StepKeeps
<1>3. QED
  BY <1>1, <1>2, PTL DEF SpecCatalog

\* Rows, requests in progress and the histories keep their types.
THEOREM CatalogTypeCorrect == SpecCatalog => []TypeOK
<1>1. IInv => TypeOK
  BY DEF IInv
<1>2. QED
  BY <1>1, CatalogInvariance, PTL

\* The QR code and the barcode follow the product code through every rename
\* (app/services/product.py, update), but for rows that two renames mixed.
THEOREM ScanCodesFollow == SpecCatalog => []ScanCodesFollowTheCode
<1>1. IInv => ScanCodesFollowTheCode
  BY DEF IInv
<1>2. QED
  BY <1>1, CatalogInvariance, PTL

\* The trail, in its own order, gives the name, the minimum stock and the deletion
\* of every product as they are, whatever copies the PUTs were computed from,
\* unless the column's last commit began before one the trail puts after it.
THEOREM AuditIsFaithful == SpecCatalog => []AuditRetellsTheRows
<1>1. IInv => AuditRetellsTheRows
  BY DEF IInv
<1>2. QED
  BY <1>1, CatalogInvariance, PTL

\* A scan finds one product at most: two unmixed rows share no identifier.
THEOREM ScansFindOneProduct == SpecCatalog => []IdentifiersNameOneProduct
<1>1. IInv => IdentifiersNameOneProduct
  <2> SUFFICES ASSUME IInv, NEW p \in DOMAIN rows \ mixed, NEW q \in DOMAIN rows \ mixed,
                      p # q, NEW c \in Columns, NEW d \in Columns
               PROVE  rows[p][c] # rows[q][d]
    BY DEF IdentifiersNameOneProduct, Identifiers
  <2>1. \A e \in Columns : rows[p][e] # rows[q][e]
    BY DEF IInv, ColumnsUnique
  <2>2. CASE Uniform(rows[p])
    <3>1. rows[p][c] = rows[p][d]
      BY <2>2 DEF Uniform, Columns
    <3>2. QED
      BY <2>1, <3>1
  <2>3. CASE Uniform(rows[q])
    <3>1. rows[q][d] = rows[q][c]
      BY <2>3 DEF Uniform, Columns
    <3>2. QED
      BY <2>1, <3>1
  <2>4. CASE ~Uniform(rows[p]) /\ ~Uniform(rows[q])
    <3>1. /\ p \in DOMAIN Start /\ SameIdentifiers(rows[p], Start[p])
          /\ q \in DOMAIN Start /\ SameIdentifiers(rows[q], Start[q])
      BY <2>4 DEF IInv, ScanCodesFollowTheCode
    <3>2. rows[p][c] \in Identifiers(Start[p]) /\ rows[q][d] \in Identifiers(Start[q])
      BY <3>1 DEF SameIdentifiers, Identifiers
    <3>3. QED
      BY <3>1, <3>2, StartAssumption
  <2>5. QED
    BY <2>2, <2>3, <2>4
<1>2. QED
  BY <1>1, CatalogInvariance, PTL

(***************************************************************************)
(* A catalogue whose rows are all uniform at first never has a mixed one.  *)
(***************************************************************************)
UniformStart == \A p \in DOMAIN Start : Uniform(Start[p])

AllUniform == \A p \in DOMAIN rows : Uniform(rows[p])

NothingMixed ==
  /\ mixed = {}
  /\ \A h \in Handlers : work[h].pc \in {"read", "ready"} => Uniform(work[h].copy)

\* A catalogue the service has filled by itself meets no exception: all its
\* products keep three equal identifiers, so no rename can mix them.
THEOREM NewCatalogsStayUniform ==
  ASSUME UniformStart
  PROVE  SpecCatalog => []AllUniform
<1>1. IInv /\ NothingMixed => AllUniform
  BY DEF AllUniform, IInv, NothingMixed, ScanCodesFollowTheCode, UniformStart, Uniform,
         SameIdentifiers, Columns
<1>2. InitCatalog => NothingMixed
  BY DEF InitCatalog, NothingMixed, Idle
<1>3. IInv /\ NothingMixed /\ [NextCatalog]_catalog => NothingMixed'
  <2> SUFFICES ASSUME IInv, NothingMixed, [NextCatalog]_catalog
               PROVE  NothingMixed'
    OBVIOUS
  <2>1. CASE UNCHANGED <<mixed, work>>
    BY <2>1 DEF NothingMixed, Uniform
  <2>2. ASSUME NEW h \in Handlers, NEW request, Begin(h, request), mixed' = mixed,
               request.pc \in {"read", "ready"} => Uniform(request.copy)
        PROVE  NothingMixed'
    <3>1. \A k \in Handlers : work'[k] = IF k = h THEN request ELSE work[k]
      BY <2>2 DEF Begin, IInv, TypeOK
    <3>2. QED
      BY <2>2, <3>1 DEF NothingMixed, Uniform
  <2>3. ASSUME NEW h \in Handlers, Finish(h), mixed' = mixed
        PROVE  NothingMixed'
    <3>1. \A k \in Handlers : work'[k] = IF k = h THEN Idle ELSE work[k]
      BY <2>3 DEF Finish, IInv, TypeOK
    <3>2. Idle.pc \notin {"read", "ready"}
      BY DEF Idle
    <3>3. QED
      BY <2>3, <3>1, <3>2 DEF NothingMixed, Uniform
  <2>4. ASSUME NEW h \in Handlers, NEW pc, work' = [work EXCEPT ![h].pc = pc],
               mixed' = mixed, work[h].pc = "read" \/ pc \notin {"read", "ready"},
               work[h] \in Creating \cup Editing
        PROVE  NothingMixed'
    <3>1. \A k \in Handlers : k # h => work'[k] = work[k]
      BY <2>4 DEF IInv, TypeOK
    <3>2. work'[h] = [work[h] EXCEPT !.pc = pc]
      BY <2>4 DEF IInv, TypeOK
    <3>3. CASE work[h].pc = "read"
      <4>1. work[h] \in Editing
        BY <3>3, RequestTypes DEF IInv
      <4>2. work'[h].copy = work[h].copy
        BY <3>2, <4>1 DEF Editing
      <4>3. QED
        BY <2>4, <3>1, <3>3, <4>2 DEF NothingMixed, Uniform
    <3>4. CASE pc \notin {"read", "ready"}
      <4>1. work'[h].pc = pc
        BY <2>4, <3>2 DEF Creating, Editing
      <4>2. QED
        BY <2>4, <3>1, <3>4, <4>1 DEF NothingMixed, Uniform
    <3>5. QED
      BY <2>4, <3>3, <3>4
  <2>5. ASSUME NEW h \in Handlers, Handle(h)
        PROVE  NothingMixed'
    <3>1. ASSUME NEW body \in Creations, BeginCreate(h, body)
          PROVE  NothingMixed'
      BY <2>2, <3>1 DEF BeginCreate
    <3>2. ASSUME NEW sample \in Samples, SeedSample(h, sample)
          PROVE  NothingMixed'
      BY <2>2, <3>2 DEF SeedSample
    <3>3. ASSUME NEW p \in Products, NEW body \in Bodies, ReadProduct(h, p, body)
          PROVE  NothingMixed'
      <4>1. Uniform(rows[p])
        BY <1>1, <3>3 DEF AllUniform, ReadProduct, Live
      <4>2. QED
        BY <2>2, <3>3, <4>1 DEF ReadProduct
    <3>4. ASSUME NEW p \in Products, ReadForDelete(h, p) \/ BeginRestore(h, p)
          PROVE  NothingMixed'
      BY <2>2, <3>4 DEF ReadForDelete, BeginRestore
    <3>5. CASE CheckNewCode(h)
      <4>1. work[h] \in Creating
        BY <3>5, RequestTypes DEF CheckNewCode, IInv
      <4>2. QED
        BY <2>3, <2>4, <3>5, <4>1 DEF CheckNewCode
    <3>6. CASE CommitCreate(h)
      <4>1. work[h] \in Creating
        BY <3>6, RequestTypes DEF CommitCreate, IInv
      <4>2. \/ work' = [work EXCEPT ![h].pc = "duplicate"]
            \/ Finish(h)
        BY <3>6 DEF CommitCreate
      <4>3. mixed' = mixed
        BY <3>6 DEF CommitCreate
      <4>4. QED
        BY <2>3, <2>4, <4>1, <4>2, <4>3
    <3>7. CASE CheckCode(h)
      <4>1. work[h] \in Editing
        BY <3>7, RequestTypes DEF CheckCode, IInv
      <4>2. QED
        BY <2>3, <2>4, <3>7, <4>1 DEF CheckCode
    <3>8. CASE CommitUpdate(h)
      <4>1. Uniform(work[h].copy)
        BY <3>8 DEF CommitUpdate, NothingMixed
      <4>2. mixed' = mixed
        BY <3>8, <4>1 DEF CommitUpdate, Mixes
      <4>3. QED
        BY <2>3, <3>8, <4>2 DEF CommitUpdate
    <3>9. CASE RefuseDuplicate(h) \/ CommitDelete(h) \/ CommitRestore(h) \/ Rollback(h)
      BY <2>3, <3>9 DEF RefuseDuplicate, CommitDelete, CommitRestore, Rollback
    <3>10. QED
      BY <2>5, <3>1, <3>2, <3>3, <3>4, <3>5, <3>6, <3>7, <3>8, <3>9 DEF Handle
  <2>6. CASE \E p \in DOMAIN rows, level \in Levels : MoveStock(p, level)
    BY <2>1, <2>6 DEF MoveStock
  <2>7. CASE UNCHANGED catalog
    BY <2>1, <2>7 DEF catalog
  <2>8. QED
    BY <2>5, <2>6, <2>7 DEF NextCatalog
<1>4. QED
  BY <1>1, <1>2, <1>3, CatalogInvariance, PTL DEF SpecCatalog
=============================================================================
