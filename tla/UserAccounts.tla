------------------------------ MODULE UserAccounts ------------------------------
(***************************************************************************)
(* User accounts, their server-side sessions and the requests that change  *)
(* them: app/services/auth.py, app/services/user.py, the authentication of *)
(* every request in app/api/dependencies.py, and the administrator's row   *)
(* of the seed command.                                                    *)
(*                                                                         *)
(* One request is one database session and one READ COMMITTED transaction, *)
(* and each action is one round trip of a handler, or one row lock that    *)
(* its statement gets.  A handler works on the copy of the row it read     *)
(* first: SQLAlchemy's identity map does not renew it when a later query   *)
(* of the same request returns the row again, FOR UPDATE or not.  The      *)
(* commit writes the changed columns only, and publishes them at once.     *)
(*                                                                         *)
(* Locks are taken one by one and kept until the transaction ends, so      *)
(* requests may wait for one another in a circle; PostgreSQL then rolls    *)
(* one of them back.                                                       *)
(*                                                                         *)
(* The four roles are reduced to "admin" and "staff": the users.* and      *)
(* sessions.* permissions belong to the role admin alone.  A password is   *)
(* known by the security change, or the seed run, that set it.  Sessions   *)
(* that expire unused are sessions nobody presents any more.               *)
(***************************************************************************)
EXTENDS Naturals, FiniteSets

CONSTANTS
  Users,         \* user ids
  FirstAdmins,   \* accounts that exist at first with role admin
  FirstStaff,    \* accounts that exist at first with another role
  Seeded,        \* the account of SEED_ADMIN_USERNAME
  Handlers,      \* request slots of the API server
  Tokens,        \* bound: sessions ever issued (jti), those of logins in progress included
  Patches,       \* bodies of PUT /users/{id}, reduced to what matters here
  MaxRequests    \* bound: administrative requests and seed runs begun in one behaviour

Roles == {"admin", "staff"}

\* A field a PUT body leaves out.
Keep == "keep"

AccountPatches == [role : Roles \cup {Keep}, active : {"true", "false", Keep},
                   password : BOOLEAN, identity : BOOLEAN]

Unchanged == [role |-> Keep, active |-> Keep, password |-> FALSE, identity |-> FALSE]

ASSUME AccountsAssumption == /\ FirstAdmins \subseteq Users /\ FirstAdmins # {}
                             /\ FirstStaff \subseteq Users \ FirstAdmins
                             /\ Seeded \in Users
                             /\ Patches \subseteq AccountPatches
                             /\ MaxRequests \in Nat

VARIABLES
  users,        \* committed account rows
  sessions,     \* committed user_sessions rows, by jti
  handlers,     \* what each request slot is doing
  changes,      \* history: security changes requests committed to each account
  reseeded,     \* history: passwords the seed command wrote to its account
  overwritten,  \* history: accounts whose auth_version was written from an old copy
  begun         \* administrative requests and seed runs begun so far

history == <<changes, reseeded, overwritten>>
vars == <<users, sessions, handlers, history, begun>>

Account(role) == [role |-> role, active |-> TRUE, deleted |-> FALSE, auth_version |-> 1]
NoAccount == [role |-> "none", active |-> FALSE, deleted |-> FALSE, auth_version |-> 0]
Unissued == [state |-> "unissued"]
Idle == [pc |-> "idle", locks |-> {}]

Requests == [op : {"UPDATE"}, target : Users, patch : Patches]
              \cup [op : {"DELETE", "REVOKE"}, target : Users, patch : {Unchanged}]
              \cup [op : {"CREATE"}, target : Users,
                    patch : [role : Roles, active : {Keep}, password : {TRUE},
                             identity : {TRUE}]]

Rows == [role : Roles \cup {"none"}, active : BOOLEAN, deleted : BOOLEAN,
         auth_version : Nat]

IssuedSessions == [state : {"open", "revoked"}, user : Users, auth_version : Nat,
                   opened_after : Nat, seeded_after : Nat]

\* Rows that requests lock, and the modes of PostgreSQL: FOR UPDATE, which an
\* UPDATE of a unique column takes as well; that of any other UPDATE; and that
\* of an INSERT or UPDATE that refers to the row.
AccountRow(u) == <<"user", u>>
SessionRow(x) == <<"session", x>>
AdminRole == <<"role", "admin">>

Lockable == {AccountRow(u) : u \in Users} \cup {SessionRow(x) : x \in Tokens} \cup {AdminRole}
Locks == Lockable \X {"update", "write", "share"}

\* A login carries the number of security changes its credentials survived; an
\* authenticated request its actor, its session, the copy of the target row,
\* the administrators it has to lock and the sessions it is going to revoke.  A
\* run of the seed command is a handler too.
LoggingIn == [pc : {"login"}, user : Users, seen : Rows, opened_after : Nat,
              seeded_after : Nat, locks : SUBSET Locks]
LoggingOut == [pc : {"logout"}, actor : Users, token : Tokens, locks : SUBSET Locks]
Seeding == [pc : {"seeding"}, seen : Rows, rekeys : BOOLEAN, locks : SUBSET Locks]
Administrations == [pc : {"begun", "losing", "counting", "checked", "ready"},
                    req : Requests, actor : Users, seen : Rows, due : SUBSET Users,
                    listed : SUBSET Tokens, locks : SUBSET Locks]

ActiveHandlers == LoggingIn \cup LoggingOut \cup Seeding \cup Administrations

TypeOK == /\ users \in [Users -> Rows]
          /\ sessions \in [Tokens -> {Unissued} \cup IssuedSessions]
          /\ handlers \in [Handlers -> {Idle} \cup ActiveHandlers]
          /\ changes \in [Users -> Nat]
          /\ reseeded \in Nat /\ overwritten \subseteq Users
          /\ begun \in 0 .. MaxRequests

Init == /\ users = [u \in Users |-> IF u \in FirstAdmins THEN Account("admin")
                                    ELSE IF u \in FirstStaff THEN Account("staff")
                                    ELSE NoAccount]
        /\ sessions = [x \in Tokens |-> Unissued]
        /\ handlers = [h \in Handlers |-> Idle]
        /\ changes = [u \in Users |-> 0]
        /\ reseeded = 0 /\ overwritten = {}
        /\ begun = 0

(***************************************************************************)
(* Helpers.                                                                *)
(***************************************************************************)
Available(row) == row.active /\ ~row.deleted

\* What get_current_user asks of a token: its account is available, its
\* session is not revoked, and both carry the account's auth_version.
Usable(x) == /\ sessions[x].state = "open"
             /\ Available(users[sessions[x].user])
             /\ sessions[x].auth_version = users[sessions[x].user].auth_version

ActiveAdmins == {u \in Users : users[u].role = "admin" /\ Available(users[u])}

Administering(h) == handlers[h].pc \in {"begun", "losing", "counting", "checked", "ready"}

Running(h, pc, ops) == handlers[h].pc = pc /\ handlers[h].req.op \in ops

\* The end of a transaction releases its locks.
Finish(h) == handlers' = [handlers EXCEPT ![h] = Idle]

Revoke(revoked) ==
  sessions' = [x \in Tokens |-> IF x \in revoked
                                THEN [sessions[x] EXCEPT !.state = "revoked"]
                                ELSE sessions[x]]

NewRole(req, row) == IF req.patch.role = Keep THEN row.role ELSE req.patch.role

SetActive(patch, row) == CASE patch.active = "true" -> TRUE
                           [] patch.active = "false" -> FALSE
                           [] OTHER -> row.active

\* Mutant of Sensitive: a deactivation does not count as one.
SensitiveWithoutDeactivation(req, row) ==
  \/ req.op = "DELETE"
  \/ /\ req.op = "UPDATE"
     /\ req.patch.password \/ NewRole(req, row) # row.role

\* A password, a role change or a deactivation ends the account's sessions.
Sensitive(req, row) ==
  \/ req.op = "DELETE"
  \/ /\ req.op = "UPDATE"
     /\ req.patch.password \/ NewRole(req, row) # row.role \/ req.patch.active = "false"

(***************************************************************************)
(* Row locks.                                                              *)
(***************************************************************************)

\* The row of the account that a CREATE or the seed command inserts: another
\* INSERT of the same username waits until the transaction ends.
NewRowLock(u) == IF users[u] = NoAccount THEN {<<AccountRow(u), "update">>} ELSE {}

RoleReference(role) == IF role = "admin" THEN {<<AdminRole, "share">>} ELSE {}

\* The target row of an UPDATE that changes a column of it.
TargetLock(req, copy) ==
  IF req.patch.identity THEN {<<AccountRow(req.target), "update">>}
  ELSE IF Sensitive(req, copy) \/ SetActive(req.patch, copy) # copy.active
       THEN {<<AccountRow(req.target), "write">>} ELSE {}

\* What the statements of the commit lock: the rows written, and those the audit
\* row, revoked_by, deleted_by, role_id and the SESSION_REVOKED row refer to.
CommitLocks(h) ==
  LET req == handlers[h].req
      copy == handlers[h].seen
  IN {<<SessionRow(x), "write">> : x \in handlers[h].listed}
       \cup {<<AccountRow(handlers[h].actor), "share">>}
       \cup CASE req.op = "UPDATE" ->
                   TargetLock(req, copy) \cup
                   (IF NewRole(req, copy) # copy.role THEN RoleReference(NewRole(req, copy)) ELSE {})
              [] req.op = "DELETE" -> {<<AccountRow(req.target), "write">>}
              [] req.op = "REVOKE" -> {<<AccountRow(req.target), "share">>}
              [] OTHER -> {}

SeedLocks(h) ==
  IF handlers[h].seen = NoAccount
  THEN NewRowLock(Seeded) \cup (IF users[Seeded] = NoAccount THEN RoleReference("admin") ELSE {})
  ELSE IF handlers[h].rekeys \/ ~handlers[h].seen.active
       THEN {<<AccountRow(Seeded), "write">>} ELSE {}

\* The locks a request needs before it can take its next step.
Wants(h) ==
  CASE handlers[h].pc = "login" -> {<<AccountRow(handlers[h].user), "write">>}
    [] handlers[h].pc = "logout" -> {<<SessionRow(handlers[h].token), "write">>,
                                     <<AccountRow(handlers[h].actor), "share">>}
    [] handlers[h].pc = "losing" -> {<<AdminRole, "update">>}
    [] handlers[h].pc = "counting" -> {<<AccountRow(u), "update">> : u \in handlers[h].due}
    [] Running(h, "begun", {"CREATE"}) ->
         NewRowLock(handlers[h].req.target) \cup
         (IF users[handlers[h].req.target] = NoAccount
          THEN RoleReference(handlers[h].req.patch.role) ELSE {})
    [] handlers[h].pc = "ready" -> CommitLocks(h)
    [] handlers[h].pc = "seeding" -> SeedLocks(h)
    [] OTHER -> {}

Conflict(l, k) ==
  l[1] = k[1] /\ ("update" \in {l[2], k[2]} \/ (l[2] = "write" /\ k[2] = "write"))

\* A lock serves for a weaker one of the same row.
Covers(k, l) == k[1] = l[1] /\ (k[2] = l[2] \/ k[2] = "update" \/ l[2] = "share")

Missing(h) == LET held == handlers[h].locks
              IN {l \in Wants(h) : \A k \in held : ~Covers(k, l)}

\* SQLAlchemy's unit of work writes accounts before sessions and those before
\* the rows that only refer to accounts; a reference is checked, and the row
\* it names locked, when the row with the reference is written.
Turn(h, l) ==
  CASE l[1][1] = "session" -> 2
    [] l[1][1] = "user" /\ l[2] = "share" /\ ~Running(h, "ready", {"DELETE"}) -> 3
    [] OTHER -> 1

Awaited(h) == LET missing == Missing(h)
              IN {l \in missing : \A k \in missing : Turn(h, l) <= Turn(h, k)}

Blocks(g, l) == \E k \in handlers[g].locks : Conflict(k, l)

\* One more lock; the rows of one table, and those of FOR UPDATE without ORDER
\* BY, come in any order.
Acquire(h) ==
  \E l \in Awaited(h) :
    /\ \A g \in Handlers \ {h} : ~Blocks(g, l)
    /\ handlers' = [handlers EXCEPT ![h].locks = @ \cup {l}]
    /\ UNCHANGED <<users, sessions, history, begun>>

\* Each of a circle of requests waits for a lock of another one.
Deadlocked(h) ==
  \E circle \in SUBSET Handlers :
    /\ h \in circle
    /\ \A g \in circle : \E l \in Awaited(g) : \E f \in circle \ {g} : Blocks(f, l)

\* Mutant of BreakDeadlock: the request that PostgreSQL has picked is not rolled
\* back, and its connection keeps the locks.
BreakDeadlockUnfinished(h) == Deadlocked(h) /\ UNCHANGED vars

\* PostgreSQL raises an error in one of the circle; get_db rolls back, and the
\* request is answered with a 500.
BreakDeadlock(h) ==
  /\ Deadlocked(h)
  /\ Finish(h)
  /\ UNCHANGED <<users, sessions, history, begun>>

(***************************************************************************)
(* AuthService.authenticate: the account is read, its password and state   *)
(* are checked against that copy, and the new session takes its version    *)
(* from the copy.  A refused login changes nothing modelled here.          *)
(***************************************************************************)
ReadCredentials(h, u) ==
  /\ handlers[h] = Idle
  /\ Cardinality({g \in Handlers : handlers[g].pc = "login"})
       < Cardinality({x \in Tokens : sessions[x] = Unissued})
  /\ Available(users[u])
  /\ handlers' = [handlers EXCEPT ![h] =
       [pc |-> "login", user |-> u, seen |-> users[u], opened_after |-> changes[u],
        seeded_after |-> reseeded, locks |-> {}]]
  /\ UNCHANGED <<users, sessions, history, begun>>

CommitLogin(h, x) ==
  /\ handlers[h].pc = "login" /\ Missing(h) = {}
  /\ sessions[x] = Unissued
  /\ sessions' = [sessions EXCEPT ![x] =
       [state |-> "open", user |-> handlers[h].user,
        auth_version |-> handlers[h].seen.auth_version,
        opened_after |-> handlers[h].opened_after,
        seeded_after |-> handlers[h].seeded_after]]
  /\ Finish(h)
  /\ UNCHANGED <<users, history, begun>>

(***************************************************************************)
(* get_current_user and require_permissions: the account and the session   *)
(* are read and checked once, at the start of the request.  Its account    *)
(* row is the copy the rest of the request works on.                       *)
(***************************************************************************)
Authenticate(h, x, req) ==
  LET actor == sessions[x].user IN
  /\ handlers[h] = Idle
  /\ begun < MaxRequests
  /\ sessions[x] # Unissued /\ Usable(x)
  /\ users[actor].role = "admin"
  /\ handlers' = [handlers EXCEPT ![h] =
       [pc |-> "begun", req |-> req, actor |-> actor, seen |-> users[actor],
        due |-> {}, listed |-> {}, locks |-> {}]]
  /\ begun' = begun + 1
  /\ UNCHANGED <<users, sessions, history>>

BeginLogout(h, x) ==
  /\ handlers[h] = Idle
  /\ sessions[x] # Unissued /\ Usable(x)
  /\ handlers' = [handlers EXCEPT ![h] =
       [pc |-> "logout", actor |-> sessions[x].user, token |-> x, locks |-> {}]]
  /\ UNCHANGED <<users, sessions, history, begun>>

CommitLogout(h) ==
  /\ handlers[h].pc = "logout" /\ Missing(h) = {}
  /\ Revoke({handlers[h].token})
  /\ Finish(h)
  /\ UNCHANGED <<users, history, begun>>

(***************************************************************************)
(* UserService.update, delete and revoke_sessions up to their commit.      *)
(***************************************************************************)
LosingAdmin(req, row) ==
  /\ row.role = "admin"
  /\ \/ req.op = "DELETE"
     \/ req.op = "UPDATE" /\ (NewRole(req, row) # "admin" \/ req.patch.active = "false")

\* SELF_DEACTIVATION_, SELF_DEMOTION_ and SELF_DELETE_NOT_ALLOWED.
SelfHarm(h, row) ==
  LET req == handlers[h].req IN
  /\ req.target = handlers[h].actor
  /\ \/ req.op = "DELETE"
     \/ req.op = "UPDATE" /\ (NewRole(req, row) # "admin" \/ req.patch.active = "false")

\* The target row; a request about its own account already has a copy of it.
TargetRow(h) == IF handlers[h].req.target = handlers[h].actor
                THEN handlers[h].seen ELSE users[handlers[h].req.target]

Targeted == {"UPDATE", "DELETE", "REVOKE"}

\* An administrative request goes on to its next round trip.
Proceed(h, pc, seen, due, listed) ==
  /\ handlers' = [handlers EXCEPT ![h] =
       [pc |-> pc, req |-> handlers[h].req, actor |-> handlers[h].actor,
        seen |-> seen, due |-> due, listed |-> listed, locks |-> handlers[h].locks]]
  /\ UNCHANGED <<users, sessions, history, begun>>

Judged(h, row) == IF LosingAdmin(handlers[h].req, row) THEN "losing" ELSE "checked"

ReadTarget(h) ==
  LET row == TargetRow(h) IN
  /\ Running(h, "begun", Targeted)
  /\ row # NoAccount
  /\ ~SelfHarm(h, row)
  /\ Proceed(h, Judged(h, row), row, {}, {})

RefuseTarget(h) ==
  /\ Running(h, "begun", Targeted)
  /\ TargetRow(h) = NoAccount \/ SelfHarm(h, TargetRow(h))
  /\ Finish(h)
  /\ UNCHANGED <<users, sessions, history, begun>>

\* Mutant of ListAdmins: the administrators are counted without a lock.
ListAdminsUnlocked(h) ==
  /\ handlers[h].pc = "losing"
  /\ Cardinality(ActiveAdmins) > 1
  /\ Proceed(h, "checked", handlers[h].seen, {}, {})

\* With the role row locked, the administrators are looked for: the rows to
\* lock are those that matched when the statement began.
ListAdmins(h) ==
  /\ handlers[h].pc = "losing" /\ Missing(h) = {}
  /\ Proceed(h, "counting", handlers[h].seen, ActiveAdmins, {})

\* The rows that still match when they are locked.
Counted(h) == handlers[h].due \cap ActiveAdmins

CountAdmins(h) ==
  /\ handlers[h].pc = "counting" /\ Missing(h) = {}
  /\ Cardinality(Counted(h)) > 1
  /\ Proceed(h, "checked", handlers[h].seen, handlers[h].due, {})

\* LAST_ADMIN_REQUIRED.
RefuseLastAdmin(h) ==
  /\ handlers[h].pc = "counting" /\ Missing(h) = {}
  /\ Cardinality(Counted(h)) <= 1
  /\ Finish(h)
  /\ UNCHANGED <<users, sessions, history, begun>>

\* The sessions to revoke are read before the commit that revokes them: all
\* open ones of the account, or those a revoke request asks for.
ListSessions(h) ==
  LET req == handlers[h].req
      open == {x \in Tokens : /\ sessions[x].state = "open"
                              /\ sessions[x].user = req.target}
  IN
  /\ handlers[h].pc = "checked"
  /\ \E listed \in SUBSET open :
       /\ req.op # "REVOKE" => listed = IF Sensitive(req, handlers[h].seen) THEN open ELSE {}
       /\ Proceed(h, "ready", handlers[h].seen, handlers[h].due, listed)

(***************************************************************************)
(* The commits.  A column is written when its value differs from the copy; *)
(* auth_version is the copy's plus one.                                    *)
(***************************************************************************)
Changed(value, copy, committed) == IF value # copy THEN value ELSE committed

\* Mutant of Written: auth_version is left alone.
WrittenWithoutVersion(req, copy, committed) ==
  [role |-> Changed(NewRole(req, copy), copy.role, committed.role),
   active |-> Changed(SetActive(req.patch, copy), copy.active, committed.active),
   deleted |-> committed.deleted,
   auth_version |-> committed.auth_version]

Written(req, copy, committed) ==
  [role |-> Changed(NewRole(req, copy), copy.role, committed.role),
   active |-> Changed(SetActive(req.patch, copy), copy.active, committed.active),
   deleted |-> committed.deleted,
   auth_version |-> IF Sensitive(req, copy) THEN copy.auth_version + 1
                    ELSE committed.auth_version]

Deleted(copy, committed) ==
  [role |-> committed.role,
   active |-> Changed(FALSE, copy.active, committed.active),
   deleted |-> TRUE,
   auth_version |-> copy.auth_version + 1]

\* The row of the target is replaced.  A security change is remembered, and
\* whether the copy it counted from was still the account's.
Commit(h, row) ==
  LET u == handlers[h].req.target
      copy == handlers[h].seen
      sensitive == Sensitive(handlers[h].req, copy)
  IN
  /\ Missing(h) = {}
  /\ users' = [users EXCEPT ![u] = row]
  /\ Revoke(handlers[h].listed)
  /\ changes' = [changes EXCEPT ![u] = IF sensitive THEN @ + 1 ELSE @]
  /\ overwritten' = IF sensitive /\ copy.auth_version # users[u].auth_version
                    THEN overwritten \cup {u} ELSE overwritten
  /\ Finish(h)
  /\ UNCHANGED <<reseeded, begun>>

CommitUpdate(h) ==
  /\ Running(h, "ready", {"UPDATE"})
  /\ Commit(h, Written(handlers[h].req, handlers[h].seen, users[handlers[h].req.target]))

CommitDelete(h) ==
  /\ Running(h, "ready", {"DELETE"})
  /\ Commit(h, Deleted(handlers[h].seen, users[handlers[h].req.target]))

CommitRevoke(h) ==
  /\ Running(h, "ready", {"REVOKE"}) /\ Missing(h) = {}
  /\ Revoke(handlers[h].listed)
  /\ Finish(h)
  /\ UNCHANGED <<users, history, begun>>

(***************************************************************************)
(* UserService.create: the flush inserts the row, the commit the audit row *)
(* that refers to the actor.  A taken username is refused, by the check or *)
(* the index.                                                              *)
(***************************************************************************)
InsertAccount(h) ==
  /\ Running(h, "begun", {"CREATE"}) /\ Missing(h) = {}
  /\ users[handlers[h].req.target] = NoAccount
  /\ Proceed(h, "ready", handlers[h].seen, {}, {})

RefuseTaken(h) ==
  /\ Running(h, "begun", {"CREATE"})
  /\ users[handlers[h].req.target] # NoAccount
  /\ Finish(h)
  /\ UNCHANGED <<users, sessions, history, begun>>

\* Mutant of CommitCreate: the row is inserted without its columns' defaults.
CommitCreateUnset(h) ==
  /\ Running(h, "ready", {"CREATE"}) /\ Missing(h) = {}
  /\ users' = [users EXCEPT ![handlers[h].req.target] = [role |-> handlers[h].req.patch.role]]
  /\ Finish(h)
  /\ UNCHANGED <<sessions, history, begun>>

CommitCreate(h) ==
  /\ Running(h, "ready", {"CREATE"}) /\ Missing(h) = {}
  /\ users' = [users EXCEPT ![handlers[h].req.target] = Account(handlers[h].req.patch.role)]
  /\ Finish(h)
  /\ UNCHANGED <<sessions, history, begun>>

(***************************************************************************)
(* The seed command.  An account of another role stops it; of the columns  *)
(* it synchronises is_active and the password are modelled: SEED_ADMIN_    *)
(* PASSWORD may differ from the copy's.  A deleted account stays deleted,  *)
(* auth_version is left alone and no session is revoked.                   *)
(***************************************************************************)
BeginSeed(h, rekeys) ==
  /\ handlers[h] = Idle
  /\ begun < MaxRequests
  /\ users[Seeded].role # "staff"
  /\ handlers' = [handlers EXCEPT ![h] =
       [pc |-> "seeding", seen |-> users[Seeded], rekeys |-> rekeys, locks |-> {}]]
  /\ begun' = begun + 1
  /\ UNCHANGED <<users, sessions, history>>

Activated(copy, committed) ==
  [role |-> committed.role,
   active |-> Changed(TRUE, copy.active, committed.active),
   deleted |-> committed.deleted,
   auth_version |-> committed.auth_version]

\* An account that was not there is created, unless it is by now.
CommitSeed(h) ==
  LET copy == handlers[h].seen IN
  /\ handlers[h].pc = "seeding" /\ Missing(h) = {}
  /\ users' = CASE copy # NoAccount -> [users EXCEPT ![Seeded] = Activated(copy, @)]
                [] copy = NoAccount /\ users[Seeded] = NoAccount ->
                     [users EXCEPT ![Seeded] = Account("admin")]
                [] OTHER -> users
  /\ reseeded' = IF copy # NoAccount /\ handlers[h].rekeys THEN reseeded + 1 ELSE reseeded
  /\ Finish(h)
  /\ UNCHANGED <<sessions, changes, overwritten, begun>>

\* The connection or the process is lost before the commit, or a username or an
\* email is taken.
Rollback(h) ==
  /\ handlers[h] # Idle
  /\ Finish(h)
  /\ UNCHANGED <<users, sessions, history, begun>>

Advance(h) == \/ Acquire(h)
              \/ \E x \in Tokens : CommitLogin(h, x)
              \/ CommitLogout(h)
              \/ ReadTarget(h) \/ RefuseTarget(h)
              \/ ListAdmins(h) \/ CountAdmins(h) \/ RefuseLastAdmin(h)
              \/ ListSessions(h)
              \/ CommitUpdate(h) \/ CommitDelete(h) \/ CommitRevoke(h)
              \/ InsertAccount(h) \/ RefuseTaken(h) \/ CommitCreate(h)
              \/ CommitSeed(h)
              \/ BreakDeadlock(h)

Next == \E h \in Handlers :
          \/ \E u \in Users : ReadCredentials(h, u)
          \/ \E x \in Tokens : BeginLogout(h, x)
          \/ \E x \in Tokens, req \in Requests : Authenticate(h, x, req)
          \/ \E rekeys \in BOOLEAN : BeginSeed(h, rekeys)
          \/ Advance(h)
          \/ Rollback(h)

Spec == Init /\ [][Next]_vars

\* The event loop keeps running every request, a lock that is released again
\* and again is handed to each of its waiters, and a connection that waits looks
\* for a deadlock after deadlock_timeout.
FairSpec == Spec /\ \A h \in Handlers : SF_vars(Advance(h))

(***************************************************************************)
(* Properties                                                              *)
(***************************************************************************)

\* LAST_ADMIN_REQUIRED, "The last active administrator cannot be changed":
\* the system never loses its last active administrator.
SomeActiveAdmin == ActiveAdmins # {}

\* README, "Password reset, role change, account deactivation, and explicit session
\* revocation invalidate active sessions", and the seed command "synchronizes its
\* ... password": a session that is accepted was opened with credentials that no
\* request and no seed run has replaced since.
SessionsEndWithChange ==
  \A x \in Tokens :
    sessions[x] # Unissued /\ Usable(x) =>
      /\ sessions[x].opened_after = changes[sessions[x].user]
      /\ sessions[x].user = Seeded => sessions[x].seeded_after = reseeded

\* What the requests keep of it: a session that is accepted was opened with
\* credentials read after the last security change a request made to its
\* account, even when the login was under way while the change committed.  The
\* accounts whose auth_version a request counted from a copy that was no longer
\* the account's are left out, and so are the passwords of the seed command.
RequestsEndSessions ==
  \A x \in Tokens :
    sessions[x] # Unissued /\ Usable(x) /\ sessions[x].user \notin overwritten
      => sessions[x].opened_after = changes[sessions[x].user]

\* A session that stopped being accepted is never accepted again: no
\* reactivation, by an administrator or the seed command, no role change and no
\* later version number revives it, unless a version was counted from an old copy.
DeadSessionsStayDead ==
  [][\A x \in Tokens :
       sessions[x] # Unissued /\ ~Usable(x) /\ sessions[x].user \notin overwritten'
         => ~Usable(x)']_vars

\* Every administrative request is answered in the end, although requests lock
\* accounts, sessions and the role one after the other, in no common order, and
\* do come to wait for one another in a circle.
AdministrationFinishes ==
  \A h \in Handlers : Administering(h) ~> ~Administering(h)
=============================================================================
