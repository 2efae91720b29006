------------------------- MODULE RolePermissions_proofs -------------------------
(***************************************************************************)
(* Two facts about the permissions of the roles, for any number of roles,  *)
(* editors, updates and seed runs: every committed set of permissions is   *)
(* valid; and a version stands for one set of permissions until a seed run *)
(* fills the role, so that the version check refuses every stale page.     *)
(***************************************************************************)
EXTENDS RolePermissions, TLAPS

-----------------------------------------------------------------------------
(* Types *)

\* The initial database is one the previous release can have left.
LEMMA InitTyped == Init => TypeOK
<1> SUFFICES ASSUME Init PROVE TypeOK
  OBVIOUS
<1>1. granted \in [Roles -> SUBSET Codes]
  <2>1. \A r \in Roles : Defaults[r] \cap OldCodes \in SUBSET Codes
    BY CatalogAssumption
  <2>2. QED
    BY <2>1 DEF Init
<1>2. version \in [Roles -> Nat \ {0}] /\ catalog \in SUBSET Codes
  BY CatalogAssumption DEF Init
<1>3. /\ pages \in [Editors -> {NoPage} \cup Pages]
      /\ work \in [Editors -> {Idle} \cup Reading \cup Saving]
      /\ seed \in {Idle} \cup Seeding
  BY DEF Init
<1>4. /\ refilled \subseteq Roles \X (Nat \ {0}) /\ completed \in BOOLEAN
      /\ saves \in 0 .. MaxSaves /\ runs \in 0 .. MaxSeeds
  <2>1. 0 \in 0 .. MaxSaves /\ 0 \in 0 .. MaxSeeds
    BY RunsAssumption
  <2>2. QED
    BY <2>1 DEF Init
<1>5. QED
  BY <1>1, <1>2, <1>3, <1>4 DEF TypeOK

\* One step per kind of step of an editor and of the seed command.
LEMMA StepTyped == TypeOK /\ [Next]_vars => TypeOK'
<1> SUFFICES ASSUME TypeOK, [Next]_vars PROVE TypeOK'
  OBVIOUS
<1> USE CatalogAssumption, RunsAssumption DEF TypeOK, Idle, NoPage, db, history, vars
<1>1. CASE UNCHANGED vars
  BY <1>1
<1>2. ASSUME NEW e \in Editors, Edit(e) PROVE TypeOK'
  <2>1. ASSUME NEW r \in Roles, ReadVersion(e, r) PROVE TypeOK'
    BY <2>1 DEF ReadVersion, Reading
  <2>2. CASE ReadGrants(e)
    BY <2>2 DEF ReadGrants, Pages, Reading, Saving
  <2>3. ASSUME NEW codes \in SUBSET Codes, Send(e, codes) PROVE TypeOK'
    BY <2>3 DEF Send, Pages, Saving
  <2>4. CASE LockRole(e)
    BY <2>4 DEF LockRole, Reading, Saving
  <2>5. CASE Refuse(e)
    BY <2>5 DEF Refuse
  <2>6. CASE CommitSave(e)
    BY <2>6 DEF CommitSave, Reading, Saving
  <2>7. CASE Rollback(e)
    BY <2>7 DEF Rollback
  <2>8. QED
    BY <1>2, <2>1, <2>2, <2>3, <2>4, <2>5, <2>6, <2>7 DEF Edit
<1>3. CASE Seed
  <2>1. CASE SeedBegin
    BY <2>1 DEF SeedBegin, Seeding
  <2>2. ASSUME NEW r \in Roles, CountGrants(r) PROVE TypeOK'
    BY <2>2 DEF CountGrants, Seeding
  <2>3. CASE FlushDefaults
    BY <2>3 DEF FlushDefaults, Seeding
  <2>4. CASE SeedFail
    BY <2>4 DEF SeedFail
  <2>5. CASE SeedCommit
    <3>1. {<<r, version[r]>> : r \in seed.empty} \subseteq Roles \X (Nat \ {0})
      <4>1. seed.empty \subseteq Roles
        BY <2>5 DEF SeedCommit, Seeding
      <4>2. QED
        BY <4>1
    <3>2. granted' \in [Roles -> SUBSET Codes]
      BY <2>5 DEF SeedCommit
    <3>3. QED
      BY <2>5, <3>1, <3>2 DEF SeedCommit
  <2>6. CASE SeedUpToDate
    BY <2>6 DEF SeedUpToDate
  <2>7. QED
    BY <1>3, <2>1, <2>2, <2>3, <2>4, <2>5, <2>6 DEF Seed
<1>4. QED
  BY <1>1, <1>2, <1>3 DEF Next

\* Versions, grants, pages and requests in flight keep their types.
THEOREM PermissionsTypeCorrect == Spec => []TypeOK
BY InitTyped, StepTyped, PTL DEF Spec

-----------------------------------------------------------------------------
(* Validity *)

\* A request past the checks holds a valid set.
CheckedIsValid == \A e \in Editors : work[e].pc = "locked" => Valid(work[e].codes)

ValidInv == TypeOK /\ CheckedIsValid /\ \A r \in Roles : Valid(granted[r])

\* The previous release's seed left valid defaults.
LEMMA InitValid == Init => ValidInv
BY InitTyped, DefaultsAssumption DEF Init, ValidInv, CheckedIsValid, Valid, Idle

\* Defaults added to grants that appeared after they were counted are valid
\* with them: the union of two valid sets is one.
LEMMA UnionValid ==
  ASSUME NEW A \in SUBSET Codes, NEW B \in SUBSET Codes, Valid(A), Valid(B)
  PROVE  Valid(A \cup B)
BY DEF Valid

\* Every step keeps sets of permissions valid.
LEMMA StepValid == ValidInv /\ [Next]_vars => ValidInv'
<1> SUFFICES ASSUME ValidInv, [Next]_vars PROVE ValidInv'
  OBVIOUS
<1>1. TypeOK /\ TypeOK'
  BY StepTyped DEF ValidInv
<1>2. CheckedIsValid'
  <2> SUFFICES ASSUME NEW f \in Editors, work'[f].pc = "locked"
               PROVE  Valid(work'[f].codes)
    BY DEF CheckedIsValid, Valid
  <2>1. CASE work'[f] = work[f]
    BY <2>1 DEF ValidInv, CheckedIsValid
  <2>2. CASE work'[f] # work[f]
    <3>1. PICK e \in Editors : Edit(e)
      BY <2>2 DEF Next, Seed, SeedBegin, CountGrants, FlushDefaults, SeedFail, SeedCommit,
                  SeedUpToDate, vars
    <3>2. LockRole(f)
      BY <1>1, <2>2, <3>1 DEF TypeOK, Edit, ReadVersion, ReadGrants, Send, LockRole, Refuse,
                  CommitSave, Rollback, Idle
    <3>3. QED
      BY <1>1, <3>2 DEF LockRole, Acceptable, TypeOK
  <2>3. QED
    BY <2>1, <2>2
<1>3. ASSUME NEW r \in Roles PROVE Valid(granted'[r])
  <2>1. CASE granted'[r] = granted[r]
    BY <2>1 DEF ValidInv
  <2>2. ASSUME NEW e \in Editors, CommitSave(e), granted'[r] # granted[r]
        PROVE  Valid(granted'[r])
    BY <1>1, <2>2 DEF CommitSave, ValidInv, CheckedIsValid, TypeOK
  <2>3. CASE SeedCommit
    <3>1. Valid(Defaults[r]) /\ Valid(granted[r])
      BY DefaultsAssumption DEF ValidInv, Valid
    <3>2. Valid(granted[r] \cup Defaults[r])
      BY <1>1, <3>1, UnionValid, CatalogAssumption DEF TypeOK
    <3>3. QED
      BY <2>3, <3>1, <3>2 DEF SeedCommit
  <2>4. QED
    BY <2>1, <2>2, <2>3 DEF Next, Edit, ReadVersion, ReadGrants, Send, LockRole, Refuse,
              Rollback, Seed, SeedBegin, CountGrants, FlushDefaults, SeedFail, SeedUpToDate,
              db, history, vars
<1>4. QED
  BY <1>1, <1>2, <1>3 DEF ValidInv, Valid

\* No role ever holds an admin-only permission or one without those it depends
\* on, whatever updates and seed runs overlap.
THEOREM AlwaysValid == Spec => []GrantsAreValid
<1>1. ValidInv => GrantsAreValid
  BY DEF ValidInv, Valid, GrantsAreValid
<1>2. QED
  BY <1>1, InitValid, StepValid, PTL DEF Spec

-----------------------------------------------------------------------------
(* Versions *)

\* A version is read before it is used, and only the holder of the role's lock
\* raises it.
VersionsAreOld ==
  \A e \in Editors :
    /\ pages[e] # NoPage => pages[e].version <= version[pages[e].role]
    /\ work[e].pc = "reading" => work[e].version <= version[work[e].role]
    /\ work[e].pc = "locked" => work[e].version = version[work[e].role]

OneEditorPerRole ==
  \A d, e \in Editors :
    work[d].pc = "locked" /\ work[e].pc = "locked" /\ work[d].role = work[e].role => d = e

VersionInv == TypeOK /\ VersionsAreOld /\ OneEditorPerRole /\ StalePagesAreRefused

\* Nobody has a page yet.
LEMMA InitVersions == Init => VersionInv
BY InitTyped DEF Init, VersionInv, VersionsAreOld, OneEditorPerRole, StalePagesAreRefused, Idle

\* Every step keeps what a version says about a set.
LEMMA StepVersions == VersionInv /\ [Next]_vars => VersionInv'
<1> SUFFICES ASSUME VersionInv, [Next]_vars PROVE VersionInv'
  OBVIOUS
<1>1. TypeOK /\ TypeOK'
  BY StepTyped DEF VersionInv
<1> USE DEF VersionInv, VersionsAreOld, OneEditorPerRole, StalePagesAreRefused
<1>3. CASE UNCHANGED vars
  BY <1>1, <1>3 DEF db, history, vars
<1>4. ASSUME NEW e \in Editors, Edit(e) PROVE VersionInv'
  <2> USE <1>1 DEF TypeOK, db, history, Idle, NoPage, Reading, Saving, Pages
  <2>1. ASSUME NEW r \in Roles, ReadVersion(e, r) PROVE VersionInv'
    BY <2>1 DEF ReadVersion
  <2>2. CASE ReadGrants(e)
    BY <2>2 DEF ReadGrants
  <2>3. ASSUME NEW codes \in SUBSET Codes, Send(e, codes) PROVE VersionInv'
    BY <2>3 DEF Send
  <2>4. CASE LockRole(e)
    BY <2>4 DEF LockRole, LockedByEditor, Acceptable
  <2>5. CASE Refuse(e)
    BY <2>5 DEF Refuse
  <2>6. CASE CommitSave(e)
    BY <2>6 DEF CommitSave
  <2>7. CASE Rollback(e)
    BY <2>7 DEF Rollback
  <2>8. QED
    BY <1>4, <2>1, <2>2, <2>3, <2>4, <2>5, <2>6, <2>7 DEF Edit
<1>5. CASE SeedCommit
  <2>1. VersionsAreOld' /\ OneEditorPerRole'
    BY <1>5 DEF SeedCommit
  <2>2. ASSUME NEW e \in Editors, pages[e] # NoPage,
               pages[e].version = version[pages[e].role],
               <<pages[e].role, pages[e].version>> \notin refilled'
        PROVE  pages[e].granted = granted'[pages[e].role]
    <3>1. pages[e].role \in Roles
      BY <1>1, <2>2 DEF TypeOK, Pages
    <3>2. pages[e].role \notin seed.empty
      BY <1>5, <2>2, <3>1 DEF SeedCommit
    <3>3. QED
      BY <1>1, <1>5, <2>2, <3>1, <3>2 DEF SeedCommit, TypeOK
  <2>3. QED
    BY <1>1, <1>5, <2>1, <2>2 DEF SeedCommit
<1>6. CASE Seed /\ ~SeedCommit
  <2>1. UNCHANGED <<version, granted, pages, work, refilled>>
    BY <1>6 DEF Seed, SeedBegin, CountGrants, FlushDefaults, SeedFail, SeedUpToDate,
                db, history
  <2>2. QED
    BY <1>1, <2>1
<1>7. QED
  BY <1>3, <1>4, <1>5, <1>6 DEF Next

\* A page whose version is current shows the current grants, unless a seed run
\* has filled the role at that version: the version check refuses every other.
THEOREM VersionsIdentifyGrants == Spec => []StalePagesAreRefused
<1>1. VersionInv => StalePagesAreRefused
  BY DEF VersionInv
<1>2. QED
  BY <1>1, InitVersions, StepVersions, PTL DEF Spec
=============================================================================
