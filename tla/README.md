# A verification of the warehouse API

TLA+ modules of the API in `src/app`: stock balances and their ledger, the daily report, user
accounts and sessions, the permissions of roles, product images, the catalogue with its
identifiers, reports and their exports, and what every request leaves in the audit trail. TLC checks
them on small instances; TLAPS proves the main safety properties for all values of the constants.
`PROJECT.json` maps every definition to the lines it models and lists runs, findings, hazards and
theorems.

## 1. Inventory

The program is a FastAPI server with a PostgreSQL database. Each request gets an `AsyncSession`
(`core/database.py`), which is one READ COMMITTED transaction, rolled back when the handler raises;
`expire_on_commit` and `autoflush` are off. Requests interleave at every `await`. The components
interact through the database only: nothing calls across requests, and there is no background task.
What makes it hard is the same everywhere:

- a row read without `FOR UPDATE` may change before the handler acts on it;
- SQLAlchemy's identity map gives the copy a session already has to a later query of the same row,
  so that a second `SELECT`, locking or not, does not renew what the handler computes with;
- the commit writes the columns the handler changed, by comparison with its copy;
- `now()` is the start of the transaction, not the moment a lock was won;
- the connection or the process may go at any point; files are outside every transaction.

| Component | State | Operations | What must hold | Modules |
|---|---|---|---|---|
| Stock balances and ledger (`services/stock.py`) | `products.current_stock`, `count`; `stock_transactions` | in, out, adjustment under a row lock | balance = last movement; the ledger chains; nothing below zero; a movement only on a live product | StockLedger, StockBook, StockRefinement |
| Product catalogue (`services/product.py`) | product rows, three identifiers, deletion mark | create with initial stock, update, soft delete, restore, lookup, list | the balance survives edits; an identifier names one product; the audit rows retell the row | StockLedger (balance), ProductCatalog (the rest) |
| Daily stock report, history (`services/report.py`, `repositories/report.py`, `repositories/stock.py`) | none; one `SELECT` over the ledger | report of a period, by movement type; newest-first history | totals account for the balance; periods partition the ledger; opening and closing agree with the stock | DailyReport |
| User accounts and sessions (`services/user.py`, `services/auth.py`, `api/dependencies.py`) | `users` with `auth_version`; `user_sessions` | login, logout, authentication of every request, create, update, reset, delete, revoke | an active administrator remains; a security change ends every session; a dead session stays dead; nobody waits for ever | UserAccounts |
| Role permissions (`services/access.py`, `core/permissions.py`) | `roles.version`, `role_permissions`, `permissions` | read, replace with an expected version | stale pages are refused; sets are valid | RolePermissions |
| Seed (`seed.py`) | roles, permissions, the administrator, sample products | synchronise once per deployment | the catalogue is this release's; defaults do not break a set; no dead session comes back | RolePermissions (catalogue), UserAccounts (administrator), ProductCatalog (samples) |
| Product images (`api/products.py`, `services/media.py`) | `products.image_url`; files | upload, remove | a named file exists; what else is on the disk is known | ProductImages |
| Login rate limit (`services/auth.py`) | failures in `auth_events` | count, refuse | no more guesses in a window than the limit and the requests in flight allow | RequestAudit |
| Audit trail (`services/audit.py`, `main.py`, `core/exceptions.py`) | `audit_events` | a row with the change; a failure row after the rollback; queries | answers, changes and rows agree; operators see no security events | RequestAudit; the content of product rows in ProductCatalog |
| Product report, exports (`services/report.py`, `report_export.py`) | none | count, bound, read, lay out, answer | no more rows than the bound; totals of the rows shown; tables fit the page and lose no text | ReportExport, ReportLayout |
| Dashboard (`services/dashboard.py`) | none | two counts and lists | totals of one moment | ReportExport (partly) |
| OCR, labels, privacy page, migrations | none or one-off | pure functions, DDL | | not modelled |

The hazards of this code, each at its line and with the properties that cover it, are the
`hazards` of `PROJECT.json`.

## 2. Modules and the code they model

**StockLedger.** `product` and `ledger` are the committed rows. `sess[s]` is a request slot: its
request, the point it has reached, the session's copy of the row (`seen`) and its transaction start,
taken from `clock` (the order of transaction starts is all that `created_at` is used for). `Begin`
is authentication, the first statement of a transaction. `LockForChange`, `LockForRestore` and
`LoadForWrite` are the reads with and without `FOR UPDATE`; `CommitChange`, `CommitCreate`,
`CommitUpdate`, `CommitDelete` and `CommitRestore` are the rest of each handler up to the commit,
which publishes the row and its movement together; `NotFound` and the `Reject`/`Refuse` actions are the early
returns; `Rollback` is a request that ends at any point. A commit of an unlocked write waits for a
row another request has locked (`Unlocked`), as an `UPDATE` does. NUMERIC(14,3) and INTEGER are
integers bounded by `MaxStock` and `MaxCount`, and a sum that does not fit is an error of the flush
(`Storable`). A product is named by its code; renaming is the subject of ProductCatalog.

**StockBook, StockRefinement.** What the endpoints promise: a book with one page per product, in
which every movement, correction, delete and restore is one step against the balance of that
moment. `StockRefinement` maps committed rows and the kilograms of ledger rows to it.

**DailyReport** extends StockLedger. A report is one `SELECT`, hence a function of a state:
`InPeriod` is the `WHERE` of `daily_transactions`, `Before` its `ORDER BY`, `ReportLine` and
`DailyStockReport` are the loop and the filter of `daily_stock_report`, `History` the paged query.
What the loop adds up does not depend on the order of the rows, so that a line's totals are sums over
a set of movements; its opening and closing stock are those of the `Oldest` and the `Newest`. They are checked in every state StockLedger reaches.

**UserAccounts.** `users` and `sessions` are committed rows; `handlers[h]` is a request with its
copy of the target, its row locks, the administrators it still has to count and the sessions it has
listed. An administrative request goes `Authenticate`, `ReadTarget` (the target's copy; whether the
guard of the last administrator applies is decided on it), for the guard `ListAdmins` (the role row
is locked, the statement has found its rows) and `CountAdmins` (all of them are locked), then
`ListSessions` and its commit. A creation goes `InsertAccount` (the flush) and `CommitCreate`.
`ReadCredentials` and `CommitLogin` are a login. A run of the seed command is a handler as well:
`BeginSeed` reads the administrator's row, `CommitSeed` creates it, or activates it and replaces its
password, from that copy, without touching `auth_version` or a session. The four roles are reduced to
`admin` and `staff`, because account administration belongs to `admin` alone.

Locks are rows with the mode PostgreSQL takes: `update` (`FOR UPDATE`, or an UPDATE of a unique
column), `write` (any other UPDATE), `share` (what an INSERT or UPDATE takes of the rows its foreign
keys name); a reference gets along with a plain UPDATE and not with the first mode (`Conflict`).
`Wants` is what a request needs before its next step: the administrators of
the count, the rows its commit writes (`CommitLocks`: the target, the sessions), and those that the
audit row, `revoked_by`, `deleted_by` and `role_id` refer to. `Acquire` takes one of them, in the
order of the unit of work between tables (`Turn`) and in any order within one, because no query has
an `ORDER BY`; they are kept to the end of the transaction. So requests come to wait for one another in
circles: two administrators who each replace the other's username, and then refer to their own rows; a
count that meets an update whose audit row refers to an administrator already counted; revocations whose
sessions overlap. (Two counts do not: the role row puts them in order.) `BreakDeadlock` is the error PostgreSQL raises in one
request of such a circle, which `get_db` turns into a rollback.

History: `changes` and `opened_after` say which security change a session has survived,
`reseeded` and `seeded_after` which password of the seed command; `overwritten` holds the accounts
whose `auth_version` was counted from a copy that was no longer theirs.

Left out: the waits at the indexes of username and email (but for the row a creation inserts), the role
rows that a save of role permissions locks, and the transaction in which `get_current_user` may write
`last_seen_at` and commit before the handler begins. Each is one wait or one write of a column that
no property reads.

**RolePermissions.** An editor's page is read in two statements (`ReadVersion`, `ReadGrants`), sent
back with a set of codes (`Send`), checked under the role's lock (`LockRole`, `Refuse`) and committed
(`CommitSave`). The seed command counts the grants of one role after another, flushes the defaults of
empty roles, and commits only as part of something that follows (`SeedCommit`, `SeedUpToDate`).
`Valid` is `validate_permission_set`. A permission code is a string of the catalogue; the instances
keep four, with one dependency and one admin-only code, like the real catalogue's.

**ProductImages.** The row's name, the files and the temporary ones. `Begin` reads the old name,
`WriteTemporary` and `Rename` are the two halves of `store_product_image`, `FailToStore` an error of
the file system between them: it lies before the `try` of the handler, so that nothing clears the
temporary file away. `Recheck` is `set_image`'s read, `CommitImage` its commit, `DeleteOld` and
`Discard` remove files, `LoseAnswer` is an exception after the commit, `Stop` a request that is cut
off. Products share nothing, so there is one.

**ProductCatalog.** `rows` are the committed products; a row keeps its three identifiers, `name`
(for all the columns that a PUT writes and nothing else reads), `minimum_stock`, the balance and the
deletion mark. `work[h]` is a writing request: a create goes `BeginCreate` or `SeedSample` (the seed
command's samples), `CheckNewCode` (`identifier_exists`), `CommitCreate`, and `RefuseDuplicate` after
an `IntegrityError`; an edit `ReadProduct` (its copy), `CheckCode`, `CommitUpdate`; a delete
`ReadForDelete`, `CommitDelete`; a restore `BeginRestore`, `CommitRestore` (one locked statement). `Violates` is the unique index of each column. `Written` is the
UPDATE, of the columns that differ from the copy; `Desired` is what the handler made of the copy, and
thereby what its audit row compares. An audit row is dated with the start of its request's
transaction, and the trail is ordered by that (`repositories/audit.py`): `told` is what the row that
comes last in the trail says of each column, `dated` its date, and `overtaken` the columns whose last
commit is not the one the trail puts last. The three identifiers are in no audit field
(`services/product.py:17-29`), and so not in `Recorded`. `mixed` holds the rows renamed from a copy that was no longer theirs while
their identifiers still differed. Waiting for a row or an index entry is part of the commit step:
such a request waits for one code or one row, so none waits in a circle.

**ReportLayout.** The arithmetic of the exported tables, as pure operators: `Preferred`, `Minimum`,
`FitWidths`, `ExpandWidths`, `Trimmed` for the columns, `Fitting` (the binary search), `Break` and
`Wrapped` for the cells. A text is a sequence of characters with widths, and whatever the code cuts out of
it (a word, a line, what remains) is the span of positions it takes; quotients are fractions,
where the code uses floating-point numbers, until pixels are rounded (`Rounded`, half to even, as
`round` does). A width the code computes is therefore exact here, and an error of the last binary digit
is not modelled.

**ReportExport** extends both. A report is `Count`ed in one statement (for an export, the dashboard
or a preview page), reads its rows in a later one (`ReadItems`), is laid out (`Render`) and
answered or refused (`EndReport`); the requests of ProductCatalog commit in between, and `disturbed`
remembers that one did between count and rows. The order of the rows is left open: `Items` may choose any of the
matching products, as many as `LIMIT` and `OFFSET` leave.

**RequestAudit.** One request of each name, with the point it has reached, its answer and the
middleware's copy of the current user (`actor`). `SignIn`, `RefuseStranger`, `Refuse` and
`RefuseInput` are the dependencies and the handler's errors; `CommitChange`, `CommitRead` and
`FailRead` the transaction that carries the SUCCESS row, each of them possibly losing its answer;
`RecordFailure`, `FailToRecord`, `FailToReadActor` and `PassOn` the middleware; `Fail` an exception nobody handles, or
the end of the process. A login reads the failures of the window (`CountFailures`), is judged, and
commits its own row (`LimitLogin`, `RefuseLogin`, `AcceptLogin`), stamped with the start of its
transaction. What a request changes is only `changed` or not here: the other modules say what.

The `MC*` modules hold the small values of the constants; each `.cfg` is one run. Definitions named
`...Unlocked`, `...Unset` and the like, introduced as mutants, are wrong variants of the definition
they stand beside, for showing that a property notices the error; no specification uses them.

## 3. What TLC checks

| Run | Checks | Instance | Shows |
|---|---|---|---|
| `stock` | TypeOK, StockMatchesLedger, LedgerChains, StockNeverNegative, CountNeverNegative, LedgerOnlyGrowsWhileLive, ImplementsBook, TotalsAccountForBalance, PeriodsPartition, ReportsAgreeInStartOrder, FiltersHideOnlyStillProducts, RequestsFinish | 1 product, 2 requests at once, 4 in all, every kind; all periods | no movement is lost or lands on a deleted product; guards hold under overlap; sums at the column limits leave nothing behind; the requests implement the book; the report's arithmetic, periods and filters; openings and closings when changes ran in start order; every request that contends for the row is answered |
| `accounts` | TypeOK, SomeActiveAdmin, RequestsEndSessions, DeadSessionsStayDead, AdministrationFinishes | 2 administrators, one of them the seeded account, and a third that is created; 2 requests at once, 2 administrative ones or seed runs in all, 2 sessions; deactivation, replacement of username and password, deletion, revocation, creation | the lock of the administrators keeps one of them; sessions end with a request's security change and stay ended, logins under way and reactivations by the seed included; requests deadlock, and each is answered nevertheless |
| `permissions` | TypeOK, GrantsAreValid, StalePagesAreRefused | 2 roles, 2 editors, 2 updates, 2 seed runs that may fail | committed sets are valid; a version stands for one set, until a seed run fills the role at it |
| `images` | TypeOK, OnlyLostAnswersLoseFiles, NoOtherFileLeftBehind | 3 requests at once, 4 in all, failures anywhere, between the temporary file and its renaming included | the row names a deleted file only after a lost answer; which images and which temporary files stay behind |
| `catalog` | TypeOK, ReportTypeOK, IdentifiersNameOneProduct, ScanCodesFollowTheCode, AuditRetellsTheRows, ExportsStayNearTheirBound, TotalsAreTheRows, FiltersShareOutTheProducts, PicturesFitThePage, PdfTablesFillThePage, CellsKeepTheirText | a legacy row with three identifiers and a uniform one, 2 writing requests at once, 3 in all, 1 movement, a report; 512 tables of 3 columns | no two products answer to one scan; overlapping edits lose no audit information but where the trail's order is not that of the commits; an export reads one row over its bound at most, and only when disturbed; tables fit the page and cells keep their text |
| `requests` | TypeOK, AnswersTellTheTruth, RowsTellTheTruth, OperatorsSeeNoDenials, GuessesStayNearTheLimit | 4 logins of 2 identities from one address, or 2 requests of 6 kinds; 2 in progress at once; failures at every step; limit 2, window 1, time to 2 | a 200 has its committed change and row, a refusal changed nothing; no request has rows of both outcomes; overlapping logins pass the limit by one less than are in progress |

Runs that end in a violation; each disagrees with a document or a message, quoted under `findings`:

| Run | Property | What happens |
|---|---|---|
| `report_closing` | ClosingStockIsBalance | a change that started earlier and got the lock later sorts first: the report closes with a balance that is not the stock |
| `accounts_last_admin` | SomeActiveAdmin | the target is promoted after it was read as a non-administrator: its deactivation skips the count |
| `accounts_reset` | SessionsEndWithChange | two overlapping resets write the same `auth_version`: a session opened between them survives the second |
| `permissions_catalog` | SeedSynchronises | a seed run that finds administrator and products up to date never commits the synchronised catalogue |
| `export_bound` | ExportsKeepTheirBound | a product comes into the filter between the count and the rows: the export has one row more than the documented bound |
| `audit_denials` | RefusalsLeaveARow | a signed-in user is refused; the middleware cannot read the role of the rolled-back copy, and the refusal has no row |

The passing runs name the condition under which the same properties do hold. `report_closing` against
ReportsAgreeInStartOrder: changes in the order of their starts. `accounts_last_admin`: no promotion,
so that `accounts` has none among its patches. `accounts_reset` against RequestsEndSessions: no
account whose version was counted from an old copy (`overwritten`), and security changes made by
requests, not by the seed command. `export_bound` against ExportsStayNearTheirBound: one row over, and only if a
commit came in between. The other exceptions are history variables too, and each names a gap that
section 5 or a finding tells of: `refilled` (roles the seed has filled, with the version it did not
raise), `lost` (names committed by an upload that never got the answer, and then deletes its file),
`stray` (names a commit took from the row without having read them, and those of requests that were
cut off), `torn` (names whose storing failed or was cut off), `mixed`, `disturbed` and `overtaken`
(section 2). The login limit is stated as the code keeps it, passed by up to `Workers - 1` guesses.

**Bounds.** Requests in all (`MaxRequests`, `MaxSaves`, `MaxSeeds`), sessions ever issued
(`Tokens`) and file names (`Files`) are bounded, because ledgers,
versions and names only grow. A race of this code needs two requests and a third that changes the
row between them; a report needs a movement before, in and after its period. Both fit in `stock`, where `MaxStock` is 3 and `MaxCount` is 1, so that an initial stock of 2
and two payloads, two counts, or a product's own count of 2, exceed them. In `accounts` two requests suffice, because the third
party of its races is a login, a logout or a creation. Behaviours end when the requests are used up: hence `CHECK_DEADLOCK FALSE`, and the
liveness properties ask instead that every request ends. Request slots, tokens, accounts with equal roles
and file names are interchangeable, and are declared symmetric where no liveness is checked
(`report_closing`, `accounts_last_admin`, `accounts_reset`, `permissions`, `permissions_catalog`,
`images`, `catalog`, `export_bound`, `requests`).

Three instances are cut down further, and their `MC` modules say so in a next-state relation of their
own. `MCUserAccounts` gives slots and sessions in order (`InOrder`, in place of a symmetry), creates
the third account only as an administrator who neither signs in nor is acted on, has the seed command find its
password in place, and revokes some session when it revokes (`Usual`). `MCReportExport` takes the steps of a report after its last
statement without letting the catalogue move in between (they read only the report), lets the stock
move at first or between the two statements of a report, has PDF exports, which are counted as workbooks are,
only before the first commit, and lays out all 512 tables in one state of
the catalogue and one table elsewhere (`FewTables`: the layout reads nothing of the catalogue).
`MCRequestAudit` lets a behaviour have logins or other requests, not both (`Apart`: neither reads
what the other writes, but for the bound on requests in progress), and one login at most that meets a
failure (`OneStruck`, a bound). The proofs are about the specifications without these cuts. In `catalog`, page widths are 75 and 100 units and characters 1
or 3 wide, so that the tables include those that fit, those squeezed to their minimum and beyond it,
roundings that add up to more than the page, words wider than their column, and empty cells.

`Documents` must be within `Tables`: at least one column, page room for every column's longest
unbroken word (`Len(columns) * unbroken <= page`), and a least width that holds padding, any character
and one pixel per column. The code's tables have at most 10 columns: 10 times 70 of 785 points in a PDF, 10 times 240
of 3507 pixels in a picture, and 96 pixels less 36 of padding and 10 of rounding leave 50, while
the letters of its 30-pixel table fonts are narrower (signs that are whole phrases excepted: with one of
those in a cell a line can leave its column, and so the assumption excludes them).

**Fairness.** `FairSpec` of StockLedger and UserAccounts asks strong fairness of `Advance`, the next
round trip of a request. The event loop resumes every request whose answer has arrived, and
PostgreSQL queues the waiters of a row and hands the lock to them in turn: a request whose lock is
free again and again gets it. A connection that waits looks for a circle after `deadlock_timeout`,
which is why `BreakDeadlock` belongs to `Advance`. Nothing is asked of `Begin`, of failures, or of users.

## 4. What TLAPS proves

For all products, sessions, payloads and limits, all overlaps and any number of requests:

- **StockLedger_proofs**: `TypeCorrect`, `NoLostMovement`, `LedgerIsAChain`, `NeverNegative`,
  `CountsNeverNegative`, `LedgerGrowth`, and `Refinement`: `Spec => ImplementsBook`. The inductive
  invariant `IInv` adds to the checked properties what a request relies on between its two round
  trips: at most one session holds a row (`LocksExclusive`), and its copy is the committed row, live
  for a change and deleted for a restore (`LockedCopyIsCurrent`); a session without a lock knows
  only that the product exists (`LoadedProductExists`); a code without a product is blank
  (`BlankUntilCreated`); committed values fit their columns (`ColumnsFit`). Without the second,
  neither the chain nor the guards are inductive: a change computes from its copy, and the copy is
  good only because an unlocked write of the row waits. The refinement maps every commit to one
  action of the book and every other step to a stutter.
- **RolePermissions_proofs**: `PermissionsTypeCorrect`; `AlwaysValid`, from `ValidInv`: what an
  editor holds under the lock is valid, and so is the union of two valid sets, which is what the
  seed leaves when an editor was faster; `VersionsIdentifyGrants`, from `VersionInv`: versions read
  are not newer than the role's, and only the one holder of its lock raises it.
- **ProductImages_proofs**: `ImagesTypeCorrect`, `NamedFilesAreKept` and `OnlyStrayFilesStay`, from
  an invariant that says who knows a name: until its commit only the request that drew it; after it
  has left the row nobody can bring it back; every image on disk is the row's, given up, or
  still to be cleared by some request; and every temporary file is being written or in `torn`.

- **ProductCatalog_proofs**: `CatalogTypeCorrect`, `ScansFindOneProduct`, `ScanCodesFollow`,
  `AuditIsFaithful`. The invariant says what a request's copy still shares with its row: of a row that
  was never renamed the identifiers; of a renamed one that it is uniform, unless it is in `mixed`.
  With that an UPDATE of the columns that differ from the copy leaves a row uniform or as it started,
  and then the three unique indexes keep the identifiers of two rows apart, because a uniform row has
  its code in all of them: the check before the write (`identifier_exists`) is not needed for it, and
  only gives the conflict its error code.
  `AuditIsFaithful` is about the recorded columns (name for the free texts, minimum stock, deletion) in the
  order of the trail. It holds although "before" may be stale, because the UPDATE and the audit row
  leave out the same columns: those in which what the handler wants equals its copy. A row dated
  before the trail's last one for a column makes the column `overtaken`, until a later one speaks of it. `NewCatalogsStayUniform`: without legacy
  rows, QR code and barcode are always the product code. The theorems are about `SpecCatalog`; what ReportExport adds changes nothing of it.
- **RequestAudit_proofs**: `AuditTypeCorrect`, `AnswersAreTrue`, `RowsAreTrue`,
  `DenialsStayHidden`: an invariant `Good(r)` for each request ties its phase, status and copy of
  the user to the rows that name it, and a step of one request concerns no other (`Elsewhere`).
  `GuessesAreLimited`, for any limit, window and number of requests in progress: of the guesses
  in a window, take the last to be counted; those whose failure was stored by then were in its count, hence fewer than
  `Limit`, and the others were all in progress at that moment, hence at most `Workers`. The
  invariant keeps both bounds for every set of guesses (`WorkersBound`,
  `CountedGroupsStaySmall`).

- **UserAccounts_proofs**: three invariants, each on top of the one before, for requests that take
  their locks one by one and in any order. `BaseInv`: types; the rows a request works on exist, whatever
  happened since it read them; and no two requests hold conflicting locks (`Exclusive`); hence
  `AccountsTypeCorrect`. `AdminInv`, while no PUT makes an administrator (`NoPromotions`, a
  condition on the bodies; `accounts_last_admin` shows that it is needed): a request that takes an
  administrator away has counted two it has locked; a copy that says "staff" is
  still right. A commit can take away no administrator but its own target, whose row it has locked
  (`TargetIsLocked`, `OnlyItsOwn`), so the second one of another request's count remains: `AnAdminRemains`.
  `VersionInv`: of an account outside `overwritten`, `auth_version` is one more than its security
  changes, and the version of a session or of a login under way is one more than the
  changes before it, and behind the account's when that is not available. `SessionsEnd` and `DeadStayDead`
  follow, because a step leaves an account's version with its availability or raises it (`Aged`).
  `SessionsEnd` is about `RequestsEndSessions`: of the seed command's passwords nothing of the kind is true.

- **StockLedger_proofs** also proves the properties of DailyReport: `MovementsAreDated`,
  `ReportsAccountForStock`, `PeriodsCutClean`, `FiltersHideTheStill`, `StartOrderAgrees`. The
  invariant `DatesInv` says that a movement is dated with its request's start, which has passed, and
  that an IN or OUT has a positive quantity. Every movement then counts in exactly one of a line's four sums
  with the difference it made, so that a line's movement is a sum of differences (`SumOfPlus`,
  `SumOfMinus`); over a chain such a sum is the last balance less the first (`SumTelescopes`), which is the stock
  for all rows and the net change for the rows of a period, once time and id order them alike.
  Adjacent periods are disjoint sets of rows (`SumOfDisjoint`).
- **ReportExport_proofs**, about `Spec` of ReportExport:
  - reports: `ReportTypeCorrect`, `ExportsAreBounded`, `TotalsAreOfTheRows`, `FiltersShareOut`, from
    `ReportInv`: a report in progress that no commit has disturbed counted what the rows still say;
    the rows it read match its filter and are as many as `LIMIT` and `OFFSET` leave.
  - columns: `PicturesFit` and `PdfTablesFill`, for every table, measure and width of characters. `DrawnInv` says that
    a rendered page is the layout of a table in `Tables`. `FitWidths` hands out the page
    and leaves every column its minimum (`FitWidthsFits`, with products in place of its quotients);
    expansion stops at the target; rounding adds up to at most half a pixel a column
    (`RoundedTotal`), which the trimming takes back, from no column more pixels than the table has columns
    (`TrimmedFits`).
  - cells: `CellsKept`, for every text. The recursive functions of the search and of the loop are defined by
    `CHOOSE`: that they exist follows from a size that every step makes smaller
    (`FollowingExists`). The search ends where the text fits and one character more does not
    (`FittingFits`). A turn of the loop that starts at a letter cuts off a line that fits, goes on at a
    letter, loses none in between, and divides a word only if that is wider than the column
    (`BreakDivides`); the rest is induction from the end of the text (`WrappedKeeps`).
    That the loop ends is part of it (`BreakGoesOn`).
- **SumTheorems**: what the sums of the community modules compute, for any finite set. They are folds; the
  theorems of this module (one element more, disjoint sets, sums of sums, comparison, telescoping)
  follow by induction over the subsets of a finite set.

They rest on the assumptions on the constants the modules name (payloads fit their ranges, NULL is
no number, the release's defaults are valid themselves, a catalogue starts with finitely many products,
the tables of the reports fit their page as section 3 says) and on nothing else.

Every invariant the passing runs check is proved, and so are the action properties and the
refinement. Only model-checked: liveness (`RequestsFinish`, `AdministrationFinishes`), because
fairness is beyond the prover.

## 5. Not modelled

OCR calls an outside program and matches texts; labels, codes and the privacy page are drawing and
text: none has a state or an order of steps. Migrations run with the service stopped. Of the exports, drawing, fonts, the
heights of rows and the spreadsheet (its styles and its soft column widths) are formatting that no
property is about; the filters on texts and dates are conditions on one row, like the stock status, which
is the one computed twice. The dashboard's newest movements are compared with nothing. Of what is
modelled, text fields, wording, timestamps of activity and token formats are left out, because no property is about
them; a session that expires is one that nobody presents any more.

Disagreements with a document that a model shows and that have no run of their own:

- The seed command replaces the administrator's password (`seed.py:139-141`, as `README.md:29` says) without raising
  `auth_version` or revoking a session, although a password reset is to invalidate active sessions
  (`README.md:65`, `TODO.md:185`): a session opened with the old password is still accepted.
  `SessionsEndWithChange` states it (`seeded_after`), and fails through the seed command alone; its run
  `accounts_reset` keeps the seed out, to show the other cause.
- The audit row of a PUT does not have the product code, QR code and barcode it changes
  (`services/product.py:17-29`), although `TODO.md:386` says that product actions stay in the audit
  with old and new values. And the trail is ordered by the start of the transactions
  (`repositories/audit.py:71`), so that of two overlapping edits of a column the one shown last need not be the one that
  committed last (`overtaken`).
- An error between `write_bytes` and `replace` (`services/media.py:47-50`) leaves a temporary file
  that nothing removes (`torn`), although the handler clears away after other failures.

Seen in a model or while reading, besides: a removal whose copy of the row has no
image writes no column (`CommitImage`), so that an upload committed in between stays, while the
request answers 200 and records `PRODUCT_IMAGE_REMOVED`; `README.md:98` describes generated codes, while
`ProductService.create` takes the code from the payload; `README.md:100` calls user management an
admin-only invariant "even if the database mappings are changed incorrectly", while
`effective_permissions` returns admin-only codes of any role; deactivating an inactive administrator
can be refused as the last active one; a deactivation computed from an inactive copy does not write
the column, so that an account the seed command activates in between stays active, with its sessions
ended (`Changed` in `Written`); a null `is_active` reaches a NOT NULL column and is reported
as an existing user.

Of the audit trail: an `AppError` of a signed-in user rolls the session back
(`core/database.py:41-43`), which expires the current user and detaches it; the middleware then reads its role
(`services/audit.py:92`), the read raises, and `main.py:94` only logs it. Denied and failed requests
of signed-in users leave no row, although `docs/RBAC_AUDIT_RUNBOOK.md:83` and `TODO.md:213` name them (`Refuse`,
`FailToReadActor`; the run `audit_denials`). Whether an invalid body (422) behaves the same
depends on FastAPI's version, and `RefuseInput` allows both. An exception nobody handles is answered
outside of the middleware, without `X-Request-ID` and without a row, although line 84 says every
response carries the header. Successful logins and logouts are only in `auth_events`. A database that
fails while a read is recorded refuses the read; if only the answer to that commit is lost, the trail
has a SUCCESS row of a request that was refused, and no other.

## 6. State of the plan

Done, in this order: stock and book, report, accounts, permissions, images, catalogue, reports and
layout, requests and audit, the administrator's row of the seed command, the proofs about accounts, those about
sums, the daily report, exports and their layout; then row locks taken one by one with their
deadlocks, the seed command's password, temporary files, the order of the trail, and the export bound
and the denied requests as runs. What a continuation would take up:

1. **UserAccounts**: an abstract specification of sessions (a set of valid sessions per account,
   emptied by a security change) that the specification implements for accounts outside `overwritten`.
2. **Composition**: RequestAudit's `changed` refined by the commits of StockLedger and
   ProductCatalog, so that a SUCCESS row and the change it names are one step in one module.
