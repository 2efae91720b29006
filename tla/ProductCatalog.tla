----------------------------- MODULE ProductCatalog -----------------------------
(***************************************************************************)
(* The product rows and the requests that create, edit, delete and restore *)
(* them: app/services/product.py and app/repositories/product.py.          *)
(*                                                                         *)
(* A row has three identifiers a scanner may read.  The service keeps them *)
(* equal, but rows older than it carry three of their own.  A code is      *)
(* looked for in all three columns and written later; each column has its  *)
(* own unique index.  A request takes entries in the indexes for one code  *)
(* only, and in one order, so the wait for a writer that has not committed *)
(* yet is part of the commit step, and so is the row lock of a restore.    *)
(* A request's first statement, the permissions, and its first read of the *)
(* product are one step; the time of that step is the time its audit row   *)
(* will carry.                                                             *)
(*                                                                         *)
(* Of the other columns two are kept: name, which stands for every column  *)
(* a PUT writes and nothing else reads, and minimum_stock.                 *)
(***************************************************************************)
EXTENDS Naturals, FiniteSets

CONSTANTS
  Products,     \* bound: product ids
  Codes,        \* product codes, QR codes and barcodes
  Names,        \* product names
  Start,        \* the rows at first, by id
  Creations,    \* bodies of POST /products
  Bodies,       \* bodies of PUT /products/{id}
  Samples,      \* SAMPLE_PRODUCTS of the seed command
  Keep,         \* a field a PUT body leaves out
  Handlers,     \* requests in progress at the same time
  MaxRequests,  \* bound: writing requests begun in one behaviour
  MaxMoves,     \* bound: stock movements in one behaviour
  MaxStock      \* bound: kilograms of a product in stock

Levels == 0 .. MaxStock
Columns == {"product_code", "qr_code", "barcode"}
Audited == {"name", "minimum_stock"}
Recorded == Audited \cup {"deleted"}
Times == 0 .. MaxRequests

Row == [product_code : Codes, qr_code : Codes, barcode : Codes, name : Names,
        minimum_stock : Levels, current_stock : Levels, deleted : BOOLEAN]

ProductCreate == [product_code : Codes, name : Names, minimum_stock : Levels,
                  initial_stock : Levels]
ProductUpdate == [product_code : Codes \cup {Keep}, name : Names \cup {Keep},
                  minimum_stock : Levels \cup {Keep}]

Identifiers(row) == {row[c] : c \in Columns}
Uniform(row) == row.qr_code = row.product_code /\ row.barcode = row.product_code
SameIdentifiers(r, s) == \A c \in Columns : r[c] = s[c]

ASSUME CatalogAssumption ==
  /\ MaxRequests \in Nat /\ MaxMoves \in Nat /\ MaxStock \in Nat
  /\ Keep \notin Codes \cup Names \cup Levels
  /\ Creations \subseteq ProductCreate /\ Samples \subseteq Creations
  /\ Bodies \subseteq ProductUpdate

\* The rows a deployment begins with: finitely many, and no identifier is
\* carried by two of them.
ASSUME StartAssumption ==
  /\ DOMAIN Start \subseteq Products /\ IsFiniteSet(DOMAIN Start)
  /\ Start \in [DOMAIN Start -> Row]
  /\ \A p, q \in DOMAIN Start :
       p # q => Identifiers(Start[p]) \cap Identifiers(Start[q]) = {}

VARIABLES
  rows,       \* committed rows of products, by id
  work,       \* the request each handler runs
  told,       \* history: what the audit trail, by occurred_at, says last of each column
  dated,      \* history: the occurred_at of the audit row that says so
  overtaken,  \* history: columns whose last commit is not the trail's last word
  mixed,      \* history: rows renamed from a copy that was no longer theirs
  begun,      \* writing requests begun so far, which is also the time
  moves       \* stock movements so far

trail == <<told, dated, overtaken>>
catalog == <<rows, work, trail, mixed, begun, moves>>

Idle == [pc |-> "idle"]
Creating == [pc : {"begun", "checked", "duplicate"}, at : Times, body : Creations]
Editing == [pc : {"read", "ready"}, at : Times, product : Products, copy : Row, body : Bodies]
Marking == [pc : {"deleting", "restoring"}, at : Times, product : Products]

Story == [name : Names, minimum_stock : Levels, deleted : BOOLEAN]

TypeOK == /\ DOMAIN rows \subseteq Products /\ rows \in [DOMAIN rows -> Row]
          /\ told \in [DOMAIN rows -> Story]
          /\ dated \in [DOMAIN rows -> [Recorded -> Times]]
          /\ overtaken \subseteq (DOMAIN rows) \X Recorded
          /\ mixed \subseteq DOMAIN rows
          /\ work \in [Handlers -> {Idle} \cup Creating \cup Editing \cup Marking]
          /\ begun \in 0 .. MaxRequests /\ moves \in 0 .. MaxMoves

StoryOf(row) == [name |-> row.name, minimum_stock |-> row.minimum_stock,
                 deleted |-> row.deleted]

InitCatalog == /\ rows = Start
               /\ told = [p \in DOMAIN Start |-> StoryOf(Start[p])]
               /\ dated = [p \in DOMAIN Start |-> [c \in Recorded |-> 0]]
               /\ overtaken = {}
               /\ mixed = {}
               /\ work = [h \in Handlers |-> Idle]
               /\ begun = 0 /\ moves = 0

Live == {p \in DOMAIN rows : ~rows[p].deleted}

\* identifier_exists: another row, deleted or not, has the code in a column.
IdentifierExists(code, excluded) ==
  \E p \in DOMAIN rows \ excluded : code \in Identifiers(rows[p])

\* Mutant of Violates: no column has a unique index.
ViolatesNothing(p, row) == FALSE

\* A unique index refuses the row: another one has the same value in a column.
Violates(p, row) == \E q \in DOMAIN rows \ {p}, c \in Columns : rows[q][c] = row[c]

Begin(h, request) ==
  /\ work[h] = Idle /\ begun < MaxRequests
  /\ work' = [work EXCEPT ![h] = request]
  /\ begun' = begun + 1

Finish(h) == work' = [work EXCEPT ![h] = Idle]

(***************************************************************************)
(* ProductService.create                                                   *)
(***************************************************************************)
BeginCreate(h, body) ==
  /\ Begin(h, [pc |-> "begun", at |-> begun + 1, body |-> body])
  /\ UNCHANGED <<rows, trail, mixed, moves>>

\* The seed command creates a sample unless a row, deleted or not, has its name.
SeedSample(h, sample) ==
  /\ \A p \in DOMAIN rows : rows[p].name # sample.name
  /\ Begin(h, [pc |-> "begun", at |-> begun + 1, body |-> sample])
  /\ UNCHANGED <<rows, trail, mixed, moves>>

\* PRODUCT_CODE_CONFLICT, or on to the insert.
CheckNewCode(h) ==
  /\ work[h].pc = "begun"
  /\ IF IdentifierExists(work[h].body.product_code, {})
     THEN Finish(h)
     ELSE work' = [work EXCEPT ![h].pc = "checked"]
  /\ UNCHANGED <<rows, trail, mixed, begun, moves>>

NewRow(body) ==
  [product_code |-> body.product_code, qr_code |-> body.product_code,
   barcode |-> body.product_code, name |-> body.name,
   minimum_stock |-> body.minimum_stock, current_stock |-> body.initial_stock,
   deleted |-> FALSE]

With(f, p, value) == [q \in DOMAIN f \cup {p} |-> IF q = p THEN value ELSE f[q]]

\* The row, its initial movement and the audit row, whose "after" has every
\* audited column; or the IntegrityError of an index.
CommitCreate(h) ==
  /\ work[h].pc = "checked"
  /\ \E p \in Products \ DOMAIN rows :
       LET row == NewRow(work[h].body)
       IN IF Violates(p, row)
          THEN /\ work' = [work EXCEPT ![h].pc = "duplicate"]
               /\ UNCHANGED <<rows, trail>>
          ELSE /\ rows' = With(rows, p, row)
               /\ told' = With(told, p, StoryOf(row))
               /\ dated' = With(dated, p, [c \in Recorded |-> work[h].at])
               /\ UNCHANGED overtaken
               /\ Finish(h)
  /\ UNCHANGED <<mixed, begun, moves>>

\* _raise_identifier_conflict: DUPLICATE_QR_CODE, DUPLICATE_BARCODE or, when
\* the code is free again, PRODUCT_CONFLICT.
RefuseDuplicate(h) ==
  /\ work[h].pc = "duplicate"
  /\ Finish(h)
  /\ UNCHANGED <<rows, trail, mixed, begun, moves>>

(***************************************************************************)
(* ProductService.update                                                   *)
(***************************************************************************)
ReadProduct(h, p, body) ==
  /\ p \in Live
  /\ Begin(h, [pc |-> IF body.product_code = Keep THEN "ready" ELSE "read",
                at |-> begun + 1, product |-> p, copy |-> rows[p], body |-> body])
  /\ UNCHANGED <<rows, trail, mixed, moves>>

CheckCode(h) ==
  /\ work[h].pc = "read"
  /\ IF IdentifierExists(work[h].body.product_code, {work[h].product})
     THEN Finish(h)
     ELSE work' = [work EXCEPT ![h].pc = "ready"]
  /\ UNCHANGED <<rows, trail, mixed, begun, moves>>

\* Mutant of Desired: a field the body leaves out is written too.
DesiredUnset(copy, body) ==
  [c \in DOMAIN copy |-> IF c \in Columns THEN body.product_code
                         ELSE IF c \in Audited THEN body[c] ELSE copy[c]]

\* What the handler makes of a column: the body's value or the copy's.
Desired(copy, body) ==
  [c \in DOMAIN copy |->
     LET value == IF c \in Columns THEN body.product_code
                  ELSE IF c \in Audited THEN body[c] ELSE Keep
     IN IF value = Keep THEN copy[c] ELSE value]

\* Mutant of Written: the UPDATE writes every column of the session's copy.
WrittenWhole(copy, body, row) ==
  [Desired(copy, body) EXCEPT !.current_stock = row.current_stock, !.deleted = row.deleted]

\* Mutant of Written: a new code leaves the QR code alone.
WrittenWithoutQr(copy, body, row) ==
  [c \in DOMAIN row |-> IF c # "qr_code" /\ Desired(copy, body)[c] # copy[c]
                        THEN Desired(copy, body)[c] ELSE row[c]]

\* The UPDATE writes the columns that differ from the session's copy.
Written(copy, body, row) ==
  [c \in DOMAIN row |-> IF Desired(copy, body)[c] # copy[c]
                        THEN Desired(copy, body)[c] ELSE row[c]]

\* field_changes of the two snapshots, reduced to the values after.
FieldChanges(before, after) ==
  [c \in {c \in Audited : before[c] # after[c]} |-> after[c]]

\* An audit row takes its place in the trail, which is ordered by occurred_at,
\* now() of a transaction and so its start: a row of a transaction that began
\* before the one the trail has last for a column does not get the last word.
Overtakers(p, at, changes) == {c \in DOMAIN changes : dated[p][c] > at}
Heard(p, at, changes) == DOMAIN changes \ Overtakers(p, at, changes)

Retold(story, heard, changes) ==
  [c \in DOMAIN story |-> IF c \in heard THEN changes[c] ELSE story[c]]

Record(p, at, changes) ==
  LET heard == Heard(p, at, changes)
      unheard == Overtakers(p, at, changes)
  IN /\ told' = [told EXCEPT ![p] = Retold(told[p], heard, changes)]
     /\ dated' = [dated EXCEPT ![p] = [c \in Recorded |-> IF c \in heard THEN at ELSE dated[p][c]]]
     /\ overtaken' = (overtaken \ ({p} \X heard)) \cup ({p} \X unheard)

\* The copy's three identifiers differ from one another and are not the row's
\* any more, so that some of them may be written and others not.
Mixes(copy, body, row) ==
  body.product_code # Keep /\ ~Uniform(copy) /\ ~SameIdentifiers(copy, row)

CommitUpdate(h) ==
  /\ work[h].pc = "ready"
  /\ LET p == work[h].product
         copy == work[h].copy
         body == work[h].body
         row == Written(copy, body, rows[p])
     IN IF Violates(p, row)
        THEN UNCHANGED <<rows, trail, mixed>>  \* PRODUCT_CONFLICT
        ELSE /\ rows' = [rows EXCEPT ![p] = row]
             /\ Record(p, work[h].at, FieldChanges(copy, Desired(copy, body)))
             /\ mixed' = IF Mixes(copy, body, rows[p]) THEN mixed \cup {p} ELSE mixed
  /\ Finish(h)
  /\ UNCHANGED <<begun, moves>>

(***************************************************************************)
(* ProductService.delete and restore.  Nothing reads a deleted product but *)
(* the restore, and no row is ever removed.                                *)
(***************************************************************************)
ReadForDelete(h, p) ==
  /\ p \in Live
  /\ Begin(h, [pc |-> "deleting", at |-> begun + 1, product |-> p])
  /\ UNCHANGED <<rows, trail, mixed, moves>>

BeginRestore(h, p) ==
  /\ p \in DOMAIN rows
  /\ Begin(h, [pc |-> "restoring", at |-> begun + 1, product |-> p])
  /\ UNCHANGED <<rows, trail, mixed, moves>>

SetDeleted(h, deleted) ==
  LET p == work[h].product
  IN /\ rows' = [rows EXCEPT ![p].deleted = deleted]
     /\ Record(p, work[h].at, [c \in {"deleted"} |-> deleted])

CommitDelete(h) ==
  /\ work[h].pc = "deleting"
  /\ SetDeleted(h, TRUE)
  /\ Finish(h)
  /\ UNCHANGED <<mixed, begun, moves>>

\* The row is read FOR UPDATE: it is deleted, or PRODUCT_NOT_FOUND.
CommitRestore(h) ==
  /\ work[h].pc = "restoring"
  /\ IF rows[work[h].product].deleted THEN SetDeleted(h, FALSE) ELSE UNCHANGED <<rows, trail>>
  /\ Finish(h)
  /\ UNCHANGED <<mixed, begun, moves>>

\* StockService's movements of a live product, in whatever order they commit.
MoveStock(p, level) ==
  /\ p \in Live /\ moves < MaxMoves
  /\ level # rows[p].current_stock
  /\ rows' = [rows EXCEPT ![p].current_stock = level]
  /\ moves' = moves + 1
  /\ UNCHANGED <<work, trail, mixed, begun>>

\* The connection or the process is lost before the commit.
Rollback(h) ==
  /\ work[h] # Idle
  /\ Finish(h)
  /\ UNCHANGED <<rows, trail, mixed, begun, moves>>

Handle(h) == \/ \E body \in Creations : BeginCreate(h, body)
             \/ \E sample \in Samples : SeedSample(h, sample)
             \/ \E p \in Products, body \in Bodies : ReadProduct(h, p, body)
             \/ \E p \in Products : ReadForDelete(h, p) \/ BeginRestore(h, p)
             \/ CheckNewCode(h) \/ CommitCreate(h) \/ RefuseDuplicate(h)
             \/ CheckCode(h) \/ CommitUpdate(h)
             \/ CommitDelete(h) \/ CommitRestore(h) \/ Rollback(h)

NextCatalog == \/ \E h \in Handlers : Handle(h)
               \/ \E p \in DOMAIN rows, level \in Levels : MoveStock(p, level)

SpecCatalog == InitCatalog /\ [][NextCatalog]_catalog

(***************************************************************************)
(* Properties                                                              *)
(***************************************************************************)

\* "Resolve a product code, QR identifier, or barcode to current product data":
\* an identifier names one product at most, deleted ones included, so a scan
\* never finds two and a restore never meets a taken code.  Only a row renamed
\* by two overlapping requests while its three identifiers still differed may
\* share one.
IdentifiersNameOneProduct ==
  \A p, q \in DOMAIN rows \ mixed :
    p # q => Identifiers(rows[p]) \cap Identifiers(rows[q]) = {}

\* test_backend_derives_identifiers_from_product_code: the QR code and the
\* barcode follow the product code through every rename; only rows nobody has
\* renamed keep older identifiers.
ScanCodesFollowTheCode ==
  \A p \in DOMAIN rows \ mixed :
    \/ Uniform(rows[p])
    \/ p \in DOMAIN Start /\ SameIdentifiers(rows[p], Start[p])

\* "old/new qiymatlar ... auditda qoladi" (TODO.md), old and new values stay in the
\* audit: the rows, read in the trail's order, give a product's name, minimum stock
\* and deletion as they are, although "before" may be older than what the commit
\* replaced: unless the last commit to write the column began before another that
\* the trail puts after it.
\* This is all they give: no field of an audit row has the product's code, QR code
\* and barcode before and after a PUT that changes them.
AuditRetellsTheRows ==
  \A p \in DOMAIN rows, c \in Recorded :
    <<p, c>> \notin overtaken => told[p][c] = rows[p][c]
=============================================================================
