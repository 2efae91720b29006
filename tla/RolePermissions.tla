---------------------------- MODULE RolePermissions ----------------------------
(***************************************************************************)
(* The permissions of the non-admin roles: administrators edit them from   *)
(* pages that show a version (app/services/access.py), and the seed        *)
(* command synchronises the catalogue and fills roles that have none       *)
(* (app/seed.py, sync_access_catalog).                                     *)
(*                                                                         *)
(* A request and the seed command are one READ COMMITTED transaction each; *)
(* every action is one statement or the commit.  An update locks its role  *)
(* row FOR UPDATE; an insert of a grant shares the row it refers to, so    *)
(* each of the two waits for the other.  The role admin has every          *)
(* permission whatever the table says, and cannot be edited.               *)
(***************************************************************************)
EXTENDS Naturals

CONSTANTS
  Roles,      \* the roles that can be edited
  Editors,    \* browser pages of administrators
  Codes,      \* PermissionCode of this release
  AdminOnly,  \* _SECURITY_CODES
  Requires,   \* PERMISSION_DEPENDENCIES, a function on Codes
  Defaults,   \* DEFAULT_ROLE_PERMISSIONS, a function on Roles
  OldCodes,   \* catalogue the previous release left in the database
  MaxSaves,   \* bound: updates sent in one behaviour
  MaxSeeds    \* bound: runs of the seed command

ASSUME CatalogAssumption == /\ AdminOnly \subseteq Codes /\ OldCodes \subseteq Codes
                            /\ Requires \in [Codes -> SUBSET Codes]
                            /\ Defaults \in [Roles -> SUBSET Codes]
\* The defaults of this release and of the previous one are valid themselves.
ASSUME DefaultsAssumption ==
  \A r \in Roles : \A codes \in {Defaults[r], Defaults[r] \cap OldCodes} :
    codes \cap AdminOnly = {} /\ \A c \in codes : Requires[c] \subseteq codes
ASSUME RunsAssumption == MaxSaves \in Nat /\ MaxSeeds \in Nat

VARIABLES
  version,    \* committed version of each role
  granted,    \* committed grants of each role
  catalog,    \* committed permissions
  pages,      \* what each editor's page shows
  work,       \* the request each editor has in flight
  seed,       \* the seed command
  completed,  \* history: a seed run has ended without an error
  refilled,   \* history: roles a seed run has filled, with the version they had
  saves, runs \* updates sent and seed runs begun so far

db == <<version, granted, catalog>>
history == <<completed, refilled>>
vars == <<db, pages, work, seed, history, saves, runs>>

NoPage == [role |-> "none"]
Idle == [pc |-> "idle"]

Pages == [role : Roles, version : Nat \ {0}, granted : SUBSET Codes]
Reading == [pc : {"reading"}, role : Roles, version : Nat \ {0}]
Saving == [pc : {"sent", "locked"}, role : Roles, version : Nat \ {0},
           codes : SUBSET Codes]
Seeding == [pc : {"counting", "flushed"}, counted : SUBSET Roles, empty : SUBSET Roles]

TypeOK == /\ version \in [Roles -> Nat \ {0}]
          /\ granted \in [Roles -> SUBSET Codes]
          /\ catalog \in SUBSET Codes
          /\ pages \in [Editors -> {NoPage} \cup Pages]
          /\ work \in [Editors -> {Idle} \cup Reading \cup Saving]
          /\ seed \in {Idle} \cup Seeding
          /\ completed \in BOOLEAN
          /\ refilled \subseteq Roles \X (Nat \ {0})
          /\ saves \in 0 .. MaxSaves /\ runs \in 0 .. MaxSeeds

\* A database the previous release's seed has filled.
Init == /\ version = [r \in Roles |-> 1]
        /\ granted = [r \in Roles |-> Defaults[r] \cap OldCodes]
        /\ catalog = OldCodes
        /\ pages = [e \in Editors |-> NoPage]
        /\ work = [e \in Editors |-> Idle]
        /\ seed = Idle /\ completed = FALSE /\ refilled = {}
        /\ saves = 0 /\ runs = 0

(***************************************************************************)
(* GET /roles/{code}/permissions: the role row is read before its grants.  *)
(***************************************************************************)
ReadVersion(e, r) ==
  /\ work[e] = Idle
  /\ work' = [work EXCEPT ![e] = [pc |-> "reading", role |-> r, version |-> version[r]]]
  /\ UNCHANGED <<db, pages, seed, history, saves, runs>>

\* Also the answer to an update, which reads the grants again.
ReadGrants(e) ==
  /\ work[e].pc = "reading"
  /\ pages' = [pages EXCEPT ![e] = [role |-> work[e].role, version |-> work[e].version,
                                    granted |-> granted[work[e].role]]]
  /\ work' = [work EXCEPT ![e] = Idle]
  /\ UNCHANGED <<db, seed, history, saves, runs>>

(***************************************************************************)
(* PUT /roles/{code}/permissions with the version the page showed.         *)
(***************************************************************************)
\* Mutant of Valid: dependencies are not looked at.
ValidWithoutDependencies(codes) == codes \cap AdminOnly = {}

\* validate_permission_set.
Valid(codes) == /\ codes \cap AdminOnly = {}
                /\ \A c \in codes : Requires[c] \subseteq codes

Send(e, codes) ==
  /\ work[e] = Idle /\ pages[e] # NoPage
  /\ saves < MaxSaves
  /\ saves' = saves + 1
  /\ work' = [work EXCEPT ![e] = [pc |-> "sent", role |-> pages[e].role,
                                  version |-> pages[e].version, codes |-> codes]]
  /\ UNCHANGED <<db, pages, seed, history, runs>>

LockedByEditor(r) == \E e \in Editors : work[e].pc = "locked" /\ work[e].role = r
SharedBySeed(r) == seed.pc = "flushed" /\ r \in seed.empty

\* ROLE_PERMISSION_CONFLICT, INVALID_PERMISSION_SET, or a code the catalogue
\* does not have yet.
Acceptable(e) == /\ version[work[e].role] = work[e].version
                 /\ Valid(work[e].codes)
                 /\ work[e].codes \subseteq catalog

\* Mutant of LockRole: the version is checked without FOR UPDATE.
LockRoleUnlocked(e) ==
  /\ work[e].pc = "sent"
  /\ Acceptable(e)
  /\ work' = [work EXCEPT ![e].pc = "locked"]
  /\ UNCHANGED <<db, pages, seed, history, saves, runs>>

LockRole(e) ==
  /\ work[e].pc = "sent"
  /\ ~LockedByEditor(work[e].role) /\ ~SharedBySeed(work[e].role)
  /\ Acceptable(e)
  /\ work' = [work EXCEPT ![e].pc = "locked"]
  /\ UNCHANGED <<db, pages, seed, history, saves, runs>>

Refuse(e) ==
  /\ work[e].pc = "sent"
  /\ ~LockedByEditor(work[e].role) /\ ~SharedBySeed(work[e].role)
  /\ ~Acceptable(e)
  /\ work' = [work EXCEPT ![e] = Idle]
  /\ UNCHANGED <<db, pages, seed, history, saves, runs>>

\* Mutant of CommitSave: the role is replaced by a new row, whose version is unset.
CommitSaveUnversioned(e) ==
  /\ work[e].pc = "locked"
  /\ granted' = [granted EXCEPT ![work[e].role] = work[e].codes]
  /\ version' = [version EXCEPT ![work[e].role] = 0]
  /\ work' = [work EXCEPT ![e] = Idle]
  /\ UNCHANGED <<catalog, pages, seed, history, saves, runs>>

CommitSave(e) ==
  LET r == work[e].role IN
  /\ work[e].pc = "locked"
  /\ granted' = [granted EXCEPT ![r] = work[e].codes]
  /\ version' = [version EXCEPT ![r] = work[e].version + 1]
  /\ work' = [work EXCEPT ![e] = [pc |-> "reading", role |-> r,
                                  version |-> work[e].version + 1]]
  /\ UNCHANGED <<catalog, pages, seed, history, saves, runs>>

Rollback(e) ==
  /\ work[e] # Idle
  /\ work' = [work EXCEPT ![e] = Idle]
  /\ UNCHANGED <<db, pages, seed, history, saves, runs>>

(***************************************************************************)
(* The seed command.  It counts the grants of one role after the other and *)
(* writes the missing permissions and grants in one flush.  Its commit is  *)
(* part of writing the administrator or a sample product: a run that finds *)
(* these up to date ends without one.                                      *)
(***************************************************************************)
SeedBegin ==
  /\ seed = Idle /\ runs < MaxSeeds
  /\ runs' = runs + 1
  /\ seed' = [pc |-> "counting", counted |-> {}, empty |-> {}]
  /\ UNCHANGED <<db, pages, work, history, saves>>

\* The order of the roles is left open.
CountGrants(r) ==
  /\ seed.pc = "counting" /\ r \notin seed.counted
  /\ seed' = [seed EXCEPT !.counted = @ \cup {r},
                          !.empty = IF granted[r] = {} THEN @ \cup {r} ELSE @]
  /\ UNCHANGED <<db, pages, work, history, saves, runs>>

\* role_permissions has a unique index on role and permission.
Duplicate(r) == Defaults[r] \cap granted[r] # {}

FlushDefaults ==
  /\ seed.pc = "counting" /\ seed.counted = Roles
  /\ \A r \in seed.empty : ~LockedByEditor(r) /\ ~Duplicate(r)
  /\ seed' = [seed EXCEPT !.pc = "flushed"]
  /\ UNCHANGED <<db, pages, work, history, saves, runs>>

\* A duplicate grant, or a lost connection, at any point of the run.
SeedFail ==
  /\ seed # Idle
  /\ seed' = Idle
  /\ UNCHANGED <<db, pages, work, history, saves, runs>>

SeedCommit ==
  /\ seed.pc = "flushed"
  /\ granted' = [r \in Roles |-> IF r \in seed.empty THEN granted[r] \cup Defaults[r]
                                 ELSE granted[r]]
  /\ catalog' = Codes
  /\ seed' = Idle /\ completed' = TRUE
  /\ refilled' = refilled \cup {<<r, version[r]>> : r \in seed.empty}
  /\ UNCHANGED <<version, pages, work, saves, runs>>

\* "Admin user is up to date", "Product already exists": nothing commits.
SeedUpToDate ==
  /\ seed.pc = "flushed"
  /\ seed' = Idle /\ completed' = TRUE
  /\ UNCHANGED <<db, refilled, pages, work, saves, runs>>

Edit(e) == \/ \E r \in Roles : ReadVersion(e, r)
           \/ ReadGrants(e)
           \/ \E codes \in SUBSET Codes : Send(e, codes)
           \/ LockRole(e) \/ Refuse(e) \/ CommitSave(e) \/ Rollback(e)

Seed == \/ SeedBegin \/ FlushDefaults \/ SeedFail \/ SeedCommit \/ SeedUpToDate
        \/ \E r \in Roles : CountGrants(r)

Next == Seed \/ \E e \in Editors : Edit(e)

Spec == Init /\ [][Next]_vars

(***************************************************************************)
(* Properties                                                              *)
(***************************************************************************)

\* ROLE_PERMISSION_CONFLICT, "Role permissions changed since they were
\* loaded": a page whose version is still the role's shows the role's grants,
\* so that a save replaces what its editor saw - unless a seed run has filled
\* the role at that version, which it does not raise.
StalePagesAreRefused ==
  \A e \in Editors :
    LET p == pages[e] IN
    p # NoPage /\ p.version = version[p.role] /\ <<p.role, p.version>> \notin refilled
      => p.granted = granted[p.role]

\* No role but admin ever holds an admin-only permission, or one without the
\* permissions it depends on, when a seed run fills a role an editor has just
\* refilled included.
GrantsAreValid ==
  \A r \in Roles : /\ granted[r] \cap AdminOnly = {}
                   /\ \A c \in granted[r] : Requires[c] \subseteq granted[r]

\* Runbook: the seed command "synchronizes the fixed roles, permission
\* catalog, and configured admin": after a run without an error the catalogue
\* is the one of this release.
SeedSynchronises == completed => catalog = Codes
=============================================================================
