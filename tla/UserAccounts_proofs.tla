-------------------------- MODULE UserAccounts_proofs --------------------------
(***************************************************************************)
(* Proofs about UserAccounts, for any users, request slots, sessions and   *)
(* patches.                                                                *)
(*                                                                         *)
(* Three invariants build on one another.  BaseInv, of every behaviour:    *)
(* what a request holds has its type, the accounts it works on exist, and  *)
(* no two requests hold locks that conflict.  AdminInv, while nobody is    *)
(* promoted: a request that is about to take an administrator away has     *)
(* locked two active ones.  VersionInv, of every behaviour: unless one was *)
(* counted from an old copy, an account's auth_version counts its security *)
(* changes, a session's those before its login.                            *)
(***************************************************************************)
EXTENDS UserAccounts, FiniteSetTheorems, TLAPS

Judging == {"losing", "counting", "checked", "ready"}

\* A row without a role is that of an account that does not exist.
Upright(u) == users[u].role = "none" => users[u] = NoAccount

\* A request works on accounts that exist, and its copies have a role.  One that
\* creates an account has locked a row that is not there yet.
Known(h) ==
  /\ handlers[h].pc = "begun" =>
       handlers[h].seen.role = "admin" /\ users[handlers[h].actor].role \in Roles
  /\ handlers[h].pc \in {"losing", "counting", "checked"} => handlers[h].req.op \in Targeted
  /\ handlers[h].pc \in Judging /\ handlers[h].req.op \in Targeted =>
       handlers[h].seen.role \in Roles /\ users[handlers[h].req.target].role \in Roles
  /\ Running(h, "ready", {"CREATE"}) =>
       /\ users[handlers[h].req.target] = NoAccount
       /\ <<AccountRow(handlers[h].req.target), "update">> \in handlers[h].locks
  /\ handlers[h].pc = "seeding" /\ handlers[h].seen # NoAccount =>
       users[Seeded].role \in Roles

\* The sessions a request is going to revoke are there.
Listed(h) ==
  /\ handlers[h].pc = "logout" => sessions[handlers[h].token] # Unissued
  /\ Administering(h) => \A x \in handlers[h].listed : sessions[x] # Unissued

\* No request holds a lock that conflicts with one of another request.
Exclusive ==
  \A g, h \in Handlers : g # h =>
    \A k \in handlers[g].locks, l \in handlers[h].locks : ~Conflict(k, l)

BaseInv == /\ TypeOK
           /\ \A u \in Users : Upright(u)
           /\ \A h \in Handlers : Known(h) /\ Listed(h)
           /\ Exclusive

(***************************************************************************)
(* Types.                                                                  *)
(***************************************************************************)

\* What a slot holds is told by the point it has reached.
LEMMA HandlerKinds ==
  ASSUME TypeOK, NEW h \in Handlers
  PROVE  /\ handlers[h] # Idle => handlers[h] \in ActiveHandlers
         /\ handlers[h] = Idle => handlers[h].pc = "idle"
         /\ handlers[h].pc = "login" => handlers[h] \in LoggingIn
         /\ handlers[h].pc = "logout" => handlers[h] \in LoggingOut
         /\ handlers[h].pc = "seeding" => handlers[h] \in Seeding
         /\ Administering(h) => handlers[h] \in Administrations
         /\ handlers[h] = Idle \/ handlers[h].pc \in {"login", "logout", "seeding"}
              \/ Administering(h)
<1>1. handlers[h] \in {Idle} \cup LoggingIn \cup LoggingOut \cup Seeding \cup Administrations
  BY DEF TypeOK, ActiveHandlers
<1>2. Idle.pc = "idle"
  BY DEF Idle
<1>3. /\ \A r \in LoggingIn : r.pc = "login"
      /\ \A r \in LoggingOut : r.pc = "logout"
      /\ \A r \in Seeding : r.pc = "seeding"
      /\ \A r \in Administrations :
           r.pc \in {"begun", "losing", "counting", "checked", "ready"}
  BY DEF LoggingIn, LoggingOut, Seeding, Administrations
<1>4. QED
  BY <1>1, <1>2, <1>3 DEF Administering, ActiveHandlers

\* The parts of an administrative request.
LEMMA AdministrationParts ==
  ASSUME TypeOK, NEW h \in Handlers, Administering(h)
  PROVE  /\ handlers[h].req \in Requests /\ handlers[h].req.target \in Users
         /\ handlers[h].req.op \in Targeted \cup {"CREATE"}
         /\ handlers[h].req.patch.role \in Roles \cup {Keep}
         /\ handlers[h].req.patch.active \in {"true", "false", Keep}
         /\ handlers[h].req.op = "UPDATE" => handlers[h].req.patch \in Patches
         /\ handlers[h].req.op = "CREATE" => handlers[h].req.patch.role \in Roles
         /\ handlers[h].actor \in Users /\ handlers[h].seen \in Rows
         /\ handlers[h].due \subseteq Users /\ handlers[h].listed \subseteq Tokens
         /\ handlers[h].locks \subseteq Locks
<1>1. handlers[h] \in Administrations
  BY HandlerKinds
<1>2. handlers[h].req \in Requests /\ handlers[h].actor \in Users /\ handlers[h].seen \in Rows
      /\ handlers[h].due \subseteq Users /\ handlers[h].listed \subseteq Tokens
      /\ handlers[h].locks \subseteq Locks
  BY <1>1 DEF Administrations
<1>3. \A req \in Requests :
        /\ req.target \in Users
        /\ req.op \in Targeted \cup {"CREATE"}
        /\ req.patch.role \in Roles \cup {Keep}
        /\ req.patch.active \in {"true", "false", Keep}
        /\ req.op = "UPDATE" => req.patch \in Patches
        /\ req.op = "CREATE" => req.patch.role \in Roles
  <2>1. \A patch \in Patches : patch.role \in Roles \cup {Keep}
                                /\ patch.active \in {"true", "false", Keep}
    BY AccountsAssumption DEF AccountPatches
  <2>2. SUFFICES ASSUME NEW req \in Requests
                 PROVE  /\ req.target \in Users
                        /\ req.op \in Targeted \cup {"CREATE"}
                        /\ req.patch.role \in Roles \cup {Keep}
                        /\ req.patch.active \in {"true", "false", Keep}
                        /\ req.op = "UPDATE" => req.patch \in Patches
                        /\ req.op = "CREATE" => req.patch.role \in Roles
    OBVIOUS
  <2>3. CASE req \in [op : {"UPDATE"}, target : Users, patch : Patches]
    BY <2>1, <2>3 DEF Targeted
  <2>4. CASE req \in [op : {"DELETE", "REVOKE"}, target : Users, patch : {Unchanged}]
    BY <2>4 DEF Unchanged, Targeted
  <2>5. CASE req \in [op : {"CREATE"}, target : Users,
                      patch : [role : Roles, active : {Keep}, password : {TRUE},
                               identity : {TRUE}]]
    BY <2>5 DEF Targeted
  <2>6. QED
    BY <2>2, <2>3, <2>4, <2>5 DEF Requests
<1>4. QED
  BY <1>2, <1>3

\* The locks of a slot are locks.
LEMMA HeldLocks ==
  ASSUME TypeOK, NEW h \in Handlers
  PROVE  handlers[h].locks \subseteq Locks
<1>1. CASE handlers[h] = Idle
  BY <1>1 DEF Idle
<1>2. CASE handlers[h].pc = "login"
  BY <1>2, HandlerKinds DEF LoggingIn
<1>3. CASE handlers[h].pc = "logout"
  BY <1>3, HandlerKinds DEF LoggingOut
<1>4. CASE handlers[h].pc = "seeding"
  BY <1>4, HandlerKinds DEF Seeding
<1>5. CASE Administering(h)
  BY <1>5, AdministrationParts
<1>6. QED
  BY <1>1, <1>2, <1>3, <1>4, <1>5, HandlerKinds

\* The rows and modes of locks.
LEMMA SomeLocks ==
  /\ \A u \in Users, mode \in {"update", "write", "share"} : <<AccountRow(u), mode>> \in Locks
  /\ \A x \in Tokens, mode \in {"update", "write", "share"} : <<SessionRow(x), mode>> \in Locks
  /\ \A mode \in {"update", "write", "share"} : <<AdminRole, mode>> \in Locks
BY DEF Locks, Lockable

\* A request asks for locks of rows there are.
LEMMA WantsAreLocks ==
  ASSUME TypeOK, NEW h \in Handlers
  PROVE  Wants(h) \subseteq Locks
<1>1. CASE handlers[h].pc = "login"
  <2>1. handlers[h].user \in Users
    BY <1>1, HandlerKinds DEF LoggingIn
  <2>2. Wants(h) = {<<AccountRow(handlers[h].user), "write">>}
    BY <1>1 DEF Wants, Running
  <2>3. QED
    BY <2>1, <2>2, SomeLocks
<1>2. CASE handlers[h].pc = "logout"
  <2>1. handlers[h].token \in Tokens /\ handlers[h].actor \in Users
    BY <1>2, HandlerKinds DEF LoggingOut
  <2>2. Wants(h) = {<<SessionRow(handlers[h].token), "write">>,
                    <<AccountRow(handlers[h].actor), "share">>}
    BY <1>2 DEF Wants, Running
  <2>3. QED
    BY <2>1, <2>2, SomeLocks
<1>3. CASE handlers[h].pc = "losing"
  <2>1. Wants(h) = {<<AdminRole, "update">>}
    BY <1>3 DEF Wants, Running
  <2>2. QED
    BY <2>1, SomeLocks
<1>4. CASE handlers[h].pc = "counting"
  <2>1. handlers[h].due \subseteq Users
    BY <1>4, AdministrationParts DEF Administering
  <2>2. Wants(h) = {<<AccountRow(u), "update">> : u \in handlers[h].due}
    BY <1>4 DEF Wants, Running
  <2>3. QED
    BY <2>1, <2>2, SomeLocks
<1>5. ASSUME NEW u \in Users PROVE NewRowLock(u) \subseteq Locks
  BY SomeLocks DEF NewRowLock
<1>6. ASSUME NEW role PROVE RoleReference(role) \subseteq Locks
  BY SomeLocks DEF RoleReference
<1>7. CASE Running(h, "begun", {"CREATE"})
  <2>1. handlers[h].req.target \in Users
    BY <1>7, AdministrationParts DEF Administering, Running
  <2>2. Wants(h) \subseteq NewRowLock(handlers[h].req.target)
                             \cup RoleReference(handlers[h].req.patch.role)
    BY <1>7 DEF Wants, Running
  <2>3. QED
    BY <1>5, <1>6, <2>1, <2>2
<1>8. CASE handlers[h].pc = "ready"
  <2>1. /\ handlers[h].req.target \in Users /\ handlers[h].actor \in Users
        /\ handlers[h].listed \subseteq Tokens
    BY <1>8, AdministrationParts DEF Administering
  <2>2. Wants(h) = CommitLocks(h)
    BY <1>8 DEF Wants, Running
  <2> DEFINE req == handlers[h].req
             copy == handlers[h].seen
  <2>3. TargetLock(req, copy) \subseteq Locks
    BY <2>1, SomeLocks DEF TargetLock
  <2>4. {<<SessionRow(x), "write">> : x \in handlers[h].listed}
          \cup {<<AccountRow(handlers[h].actor), "share">>} \subseteq Locks
    BY <2>1, SomeLocks
  <2>5. /\ {<<AccountRow(req.target), "write">>} \subseteq Locks
        /\ {<<AccountRow(req.target), "share">>} \subseteq Locks
    BY <2>1, SomeLocks
  <2>6. RoleReference(NewRole(req, copy)) \subseteq Locks
    BY <1>6
  <2>7. QED
    BY <2>2, <2>3, <2>4, <2>5, <2>6 DEF CommitLocks
<1>9. CASE handlers[h].pc = "seeding"
  <2>1. Wants(h) = SeedLocks(h)
    BY <1>9 DEF Wants, Running
  <2>2. {<<AccountRow(Seeded), "write">>} \subseteq Locks
    BY SomeLocks, AccountsAssumption
  <2>3. QED
    BY <1>5, <1>6, <2>1, <2>2, AccountsAssumption DEF SeedLocks
<1>10. CASE handlers[h].pc \notin {"login", "logout", "losing", "counting", "ready", "seeding"}
            /\ ~Running(h, "begun", {"CREATE"})
  <2>1. Wants(h) = {}
    BY <1>10 DEF Wants, Running
  <2>2. QED
    BY <2>1
<1>11. QED
  BY <1>1, <1>2, <1>3, <1>4, <1>7, <1>8, <1>9, <1>10

\* What is not missing is held, in the mode asked for or the strongest one.
LEMMA Granted ==
  ASSUME TypeOK, NEW h \in Handlers, Missing(h) = {}, NEW l \in Wants(h), l[2] # "share"
  PROVE  l \in handlers[h].locks \/ <<l[1], "update">> \in handlers[h].locks
<1>1. PICK k \in handlers[h].locks : Covers(k, l)
  BY DEF Missing
<1>2. k \in Locks /\ l \in Locks
  BY HeldLocks, WantsAreLocks
<1>3. k = <<k[1], k[2]>> /\ l = <<l[1], l[2]>>
  BY <1>2 DEF Locks
<1>4. k[1] = l[1] /\ (k[2] = l[2] \/ k[2] = "update")
  BY <1>1 DEF Covers
<1>5. QED
  BY <1>3, <1>4

\* The rows of an account that does not exist and of a new one.
LEMMA RowsOfRequests ==
  /\ NoAccount \in Rows
  /\ \A role \in Roles : Account(role) \in Rows
BY DEF NoAccount, Account, Rows, Roles

\* The types hold at first.
LEMMA InitType == Init => TypeOK
<1>1. SUFFICES ASSUME Init PROVE TypeOK
  OBVIOUS
<1>2. users \in [Users -> Rows]
  BY <1>1, RowsOfRequests DEF Init, Roles
<1>3. QED
  BY <1>1, <1>2, AccountsAssumption DEF Init, TypeOK

\* The rows the commits write.
LEMMA NewRows ==
  ASSUME NEW req, req.patch.role \in Roles \cup {Keep},
         req.patch.active \in {"true", "false", Keep},
         NEW copy \in Rows, NEW row \in Rows
  PROVE  /\ Written(req, copy, row) \in Rows
         /\ Deleted(copy, row) \in Rows /\ Deleted(copy, row).role = row.role
         /\ copy.role \in Roles /\ row.role \in Roles
              => Written(req, copy, row).role \in Roles
<1>1. /\ copy.role \in Roles \cup {"none"} /\ copy.active \in BOOLEAN
      /\ copy.deleted \in BOOLEAN /\ copy.auth_version \in Nat
      /\ row.role \in Roles \cup {"none"} /\ row.active \in BOOLEAN
      /\ row.deleted \in BOOLEAN /\ row.auth_version \in Nat
  BY DEF Rows
<1>2. /\ NewRole(req, copy) \in Roles \cup {"none"}
      /\ copy.role \in Roles => NewRole(req, copy) \in Roles
  BY <1>1 DEF NewRole
<1>3. SetActive(req.patch, copy) \in BOOLEAN
  BY <1>1 DEF SetActive
<1>4. Written(req, copy, row) \in Rows
  <2>1. Changed(NewRole(req, copy), copy.role, row.role) \in Roles \cup {"none"}
    BY <1>1, <1>2 DEF Changed
  <2>2. Changed(SetActive(req.patch, copy), copy.active, row.active) \in BOOLEAN
    BY <1>1, <1>3 DEF Changed
  <2>3. (IF Sensitive(req, copy) THEN copy.auth_version + 1 ELSE row.auth_version) \in Nat
    BY <1>1
  <2>4. QED
    BY <1>1, <2>1, <2>2, <2>3 DEF Written, Rows
<1>5. Deleted(copy, row) \in Rows /\ Deleted(copy, row).role = row.role
  <2>1. Changed(FALSE, copy.active, row.active) \in BOOLEAN
    BY <1>1 DEF Changed
  <2>2. copy.auth_version + 1 \in Nat
    BY <1>1
  <2>3. QED
    BY <1>1, <2>1, <2>2 DEF Deleted, Rows
<1>6. copy.role \in Roles /\ row.role \in Roles => Written(req, copy, row).role \in Roles
  BY <1>2 DEF Written, Changed
<1>7. QED
  BY <1>4, <1>5, <1>6

\* The row the seed command writes.
LEMMA ActivatedRow ==
  ASSUME NEW copy \in Rows, NEW row \in Rows
  PROVE  /\ Activated(copy, row) \in Rows /\ Activated(copy, row).role = row.role
         /\ Activated(copy, row).deleted = row.deleted
         /\ Activated(copy, row).auth_version = row.auth_version
         /\ row.active = TRUE => Activated(copy, row).active = TRUE
<1> DEFINE active == Changed(TRUE, copy.active, row.active)
           new == Activated(copy, row)
<1>1. /\ row.role \in Roles \cup {"none"} /\ row.active \in BOOLEAN
      /\ row.deleted \in BOOLEAN /\ row.auth_version \in Nat
  BY DEF Rows
<1>2. active \in BOOLEAN
  BY <1>1 DEF Changed
<1>3. row.active = TRUE => active = TRUE
  BY DEF Changed
<1>4. new = [role |-> row.role, active |-> active, deleted |-> row.deleted,
             auth_version |-> row.auth_version]
  BY DEF Activated
<1> HIDE DEF active, new
<1>5. new \in Rows
  BY <1>1, <1>2, <1>4 DEF Rows
<1>6. /\ new.role = row.role /\ new.deleted = row.deleted
      /\ new.auth_version = row.auth_version /\ new.active = active
  BY <1>4
<1>7. QED
  BY <1>3, <1>5, <1>6 DEF new

\* A request that ends leaves its slot idle.
LEMMA FinishKeepsTypes ==
  ASSUME TypeOK, NEW h \in Handlers, Finish(h)
  PROVE  /\ handlers' \in [Handlers -> {Idle} \cup ActiveHandlers]
         /\ handlers'[h] = Idle /\ \A g \in Handlers \ {h} : handlers'[g] = handlers[g]
BY DEF TypeOK, Finish

\* A session stays what it was, or is revoked.
SessionsStay ==
  \A x \in Tokens : sessions[x] # Unissued =>
    /\ sessions'[x] # Unissued
    /\ sessions'[x].user = sessions[x].user
    /\ sessions'[x].auth_version = sessions[x].auth_version
    /\ sessions'[x].opened_after = sessions[x].opened_after
    /\ sessions'[x].state \in {sessions[x].state, "revoked"}

\* Sessions that were not there are opened by a login only.
NoneOpened == \A x \in Tokens : sessions'[x] # Unissued => sessions[x] # Unissued

\* Revoking changes no session's account and issues none.
LEMMA RevokeKeepsTypes ==
  ASSUME TypeOK, NEW revoked \in SUBSET Tokens, Revoke(revoked),
         \A x \in revoked : sessions[x] # Unissued
  PROVE  /\ sessions' \in [Tokens -> {Unissued} \cup IssuedSessions]
         /\ SessionsStay /\ NoneOpened
<1>1. /\ \A s \in IssuedSessions : s # Unissued
      /\ \A x \in Tokens : sessions[x] # Unissued => sessions[x] \in IssuedSessions
  <2>1. \A s \in IssuedSessions : s.state \in {"open", "revoked"}
    BY DEF IssuedSessions
  <2>2. Unissued.state = "unissued"
    BY DEF Unissued
  <2>3. QED
    BY <2>1, <2>2 DEF TypeOK
<1>2. \A s \in IssuedSessions :
        LET t == [s EXCEPT !.state = "revoked"] IN
        /\ t \in IssuedSessions /\ t.state = "revoked" /\ t.user = s.user
        /\ t.auth_version = s.auth_version /\ t.opened_after = s.opened_after
  BY DEF IssuedSessions
<1>3. \A x \in Tokens :
        sessions'[x] = IF x \in revoked THEN [sessions[x] EXCEPT !.state = "revoked"]
                       ELSE sessions[x]
  BY DEF Revoke
<1>4. NoneOpened
  BY <1>3 DEF NoneOpened
<1>5. \A x \in Tokens : sessions'[x] \in {Unissued} \cup IssuedSessions
  BY <1>1, <1>2, <1>3
<1>6. SessionsStay
  <2>1. SUFFICES ASSUME NEW x \in Tokens, sessions[x] \in IssuedSessions
                 PROVE  /\ sessions'[x] # Unissued
                        /\ sessions'[x].user = sessions[x].user
                        /\ sessions'[x].auth_version = sessions[x].auth_version
                        /\ sessions'[x].opened_after = sessions[x].opened_after
                        /\ sessions'[x].state \in {sessions[x].state, "revoked"}
    BY <1>1 DEF SessionsStay
  <2>2. CASE x \in revoked
    BY <1>1, <1>2, <1>3, <2>1, <2>2
  <2>3. CASE x \notin revoked
    BY <1>1, <1>3, <2>1, <2>3
  <2>4. QED
    BY <2>2, <2>3
<1>7. QED
  BY <1>4, <1>5, <1>6 DEF Revoke

\* An administrative request that moves on keeps the types and its locks.
LEMMA ProceedKeepsTypes ==
  ASSUME TypeOK, NEW h \in Handlers, Administering(h),
         NEW pc \in Judging, NEW seen \in Rows, NEW due, due \subseteq Users,
         NEW listed, listed \subseteq Tokens, Proceed(h, pc, seen, due, listed)
  PROVE  /\ TypeOK'
         /\ handlers'[h].pc = pc /\ handlers'[h].req = handlers[h].req
         /\ handlers'[h].actor = handlers[h].actor /\ handlers'[h].seen = seen
         /\ handlers'[h].due = due /\ handlers'[h].listed = listed
         /\ handlers'[h].locks = handlers[h].locks
         /\ \A g \in Handlers \ {h} : handlers'[g] = handlers[g]
         /\ UNCHANGED <<users, sessions, history, begun>>
<1>1. /\ handlers[h].req \in Requests /\ handlers[h].actor \in Users
      /\ handlers[h].locks \subseteq Locks
  BY AdministrationParts
<1>2. PICK r \in Administrations :
        r = [pc |-> pc, req |-> handlers[h].req, actor |-> handlers[h].actor,
             seen |-> seen, due |-> due, listed |-> listed, locks |-> handlers[h].locks]
  BY <1>1 DEF Administrations, Judging
<1>3. handlers' = [handlers EXCEPT ![h] = r]
  BY <1>2 DEF Proceed
<1>4. handlers' \in [Handlers -> {Idle} \cup ActiveHandlers]
  BY <1>3 DEF TypeOK, ActiveHandlers
<1>5. TypeOK'
  BY <1>4 DEF TypeOK, Proceed, history
<1>6. handlers'[h] = r /\ \A g \in Handlers \ {h} : handlers'[g] = handlers[g]
  BY <1>3 DEF TypeOK
<1>7. QED
  BY <1>2, <1>5, <1>6 DEF Proceed

\* A request that gets a lock is otherwise where it was.
LEMMA AcquireStep ==
  ASSUME TypeOK, NEW h \in Handlers, Acquire(h)
  PROVE  /\ TypeOK'
         /\ handlers'[h].pc = handlers[h].pc
         /\ handlers[h].pc = "login" =>
              /\ handlers'[h].user = handlers[h].user /\ handlers'[h].seen = handlers[h].seen
              /\ handlers'[h].opened_after = handlers[h].opened_after
         /\ handlers[h].pc = "logout" => handlers'[h].token = handlers[h].token
         /\ handlers[h].pc = "seeding" => handlers'[h].seen = handlers[h].seen
         /\ Administering(h) =>
              /\ handlers'[h].req = handlers[h].req /\ handlers'[h].actor = handlers[h].actor
              /\ handlers'[h].seen = handlers[h].seen /\ handlers'[h].due = handlers[h].due
              /\ handlers'[h].listed = handlers[h].listed
         /\ \A g \in Handlers \ {h} : handlers'[g] = handlers[g]
         /\ UNCHANGED <<users, sessions, history, begun>>
         /\ \E l \in Locks : /\ handlers'[h].locks = handlers[h].locks \cup {l}
                             /\ \A g \in Handlers \ {h} : ~Blocks(g, l)
<1>1. PICK l \in Awaited(h) :
        /\ \A g \in Handlers \ {h} : ~Blocks(g, l)
        /\ handlers' = [handlers EXCEPT ![h].locks = @ \cup {l}]
        /\ UNCHANGED <<users, sessions, history, begun>>
  BY DEF Acquire
<1>2. l \in Wants(h) /\ l \in Locks
  BY <1>1, WantsAreLocks DEF Awaited, Missing
<1>3. handlers[h] # Idle
  <2>1. handlers[h] = Idle => Wants(h) = {}
    BY HandlerKinds DEF Wants, Running
  <2>2. QED
    BY <1>2, <2>1
<1>4. \A g \in Handlers \ {h} : handlers'[g] = handlers[g]
  BY <1>1 DEF TypeOK
<1>5. handlers'[h] = [handlers[h] EXCEPT !.locks = @ \cup {l}]
  BY <1>1 DEF TypeOK
<1> DEFINE held == handlers[h].locks \cup {l}
<1>6. held \in SUBSET Locks
  BY <1>2, HeldLocks
<1> DEFINE Moved ==
      /\ handlers'[h] \in ActiveHandlers
      /\ handlers'[h].pc = handlers[h].pc
      /\ handlers[h].pc = "login" =>
           /\ handlers'[h].user = handlers[h].user /\ handlers'[h].seen = handlers[h].seen
           /\ handlers'[h].opened_after = handlers[h].opened_after
      /\ handlers[h].pc = "logout" => handlers'[h].token = handlers[h].token
      /\ handlers[h].pc = "seeding" => handlers'[h].seen = handlers[h].seen
      /\ Administering(h) =>
           /\ handlers'[h].req = handlers[h].req /\ handlers'[h].actor = handlers[h].actor
           /\ handlers'[h].seen = handlers[h].seen /\ handlers'[h].due = handlers[h].due
           /\ handlers'[h].listed = handlers[h].listed
      /\ handlers'[h].locks = held
<1>7. ASSUME handlers[h].pc = "login" PROVE Moved
  <2>1. handlers[h] \in LoggingIn
    BY <1>7, HandlerKinds
  <2>2. \A r \in LoggingIn, owned \in SUBSET Locks :
          LET t == [r EXCEPT !.locks = owned] IN
          /\ t \in LoggingIn /\ t.locks = owned /\ t.pc = r.pc
          /\ t.user = r.user /\ t.seen = r.seen /\ t.opened_after = r.opened_after
    BY DEF LoggingIn
  <2>3. handlers'[h] = [handlers[h] EXCEPT !.locks = held]
    BY <1>5
  <2>4. QED
    BY <1>6, <1>7, <2>1, <2>2, <2>3 DEF ActiveHandlers, Administering
<1>8. ASSUME handlers[h].pc = "logout" PROVE Moved
  <2>1. handlers[h] \in LoggingOut
    BY <1>8, HandlerKinds
  <2>2. \A r \in LoggingOut, owned \in SUBSET Locks :
          LET t == [r EXCEPT !.locks = owned] IN
          /\ t \in LoggingOut /\ t.locks = owned /\ t.pc = r.pc
          /\ t.token = r.token
    BY DEF LoggingOut
  <2>3. handlers'[h] = [handlers[h] EXCEPT !.locks = held]
    BY <1>5
  <2>4. QED
    BY <1>6, <1>8, <2>1, <2>2, <2>3 DEF ActiveHandlers, Administering
<1>9. ASSUME handlers[h].pc = "seeding" PROVE Moved
  <2>1. handlers[h] \in Seeding
    BY <1>9, HandlerKinds
  <2>2. \A r \in Seeding, owned \in SUBSET Locks :
          LET t == [r EXCEPT !.locks = owned] IN
          /\ t \in Seeding /\ t.locks = owned /\ t.pc = r.pc
          /\ t.seen = r.seen
    BY DEF Seeding
  <2>3. handlers'[h] = [handlers[h] EXCEPT !.locks = held]
    BY <1>5
  <2>4. QED
    BY <1>6, <1>9, <2>1, <2>2, <2>3 DEF ActiveHandlers, Administering
<1>10. ASSUME Administering(h) PROVE Moved
  <2>1. handlers[h] \in Administrations
    BY <1>10, HandlerKinds
  <2>2. \A r \in Administrations, owned \in SUBSET Locks :
          LET t == [r EXCEPT !.locks = owned] IN
          /\ t \in Administrations /\ t.locks = owned /\ t.pc = r.pc
          /\ t.req = r.req /\ t.actor = r.actor /\ t.seen = r.seen
          /\ t.due = r.due /\ t.listed = r.listed
    BY DEF Administrations
  <2>3. handlers'[h] = [handlers[h] EXCEPT !.locks = held]
    BY <1>5
  <2>4. QED
    BY <1>6, <1>10, <2>1, <2>2, <2>3 DEF ActiveHandlers, Administering
<1>11. Moved
  BY <1>3, <1>7, <1>8, <1>9, <1>10, HandlerKinds
<1>12. TypeOK'
  <2>1. handlers' \in [Handlers -> {Idle} \cup ActiveHandlers]
    BY <1>1, <1>11 DEF TypeOK
  <2>2. QED
    BY <1>1, <2>1 DEF TypeOK, history
<1>13. QED
  BY <1>1, <1>2, <1>4, <1>11, <1>12

(***************************************************************************)
(* The steps of an administrative request before its commit.               *)
(***************************************************************************)

\* The copy a request judges its target by, and what it goes on with.
LEMMA TargetCopy ==
  ASSUME BaseInv, NEW h \in Handlers, handlers[h].pc = "begun"
  PROVE  /\ TargetRow(h) \in Rows
         /\ TargetRow(h) # NoAccount =>
              TargetRow(h).role \in Roles /\ users[handlers[h].req.target].role \in Roles
<1>1. Administering(h)
  BY DEF Administering
<1>2. /\ handlers[h].req.target \in Users /\ handlers[h].actor \in Users
      /\ handlers[h].seen \in Rows
  BY <1>1, AdministrationParts DEF BaseInv
<1>3. /\ handlers[h].seen.role = "admin"
      /\ users[handlers[h].actor].role \in Roles
  BY DEF BaseInv, Known
<1>4. users[handlers[h].req.target] \in Rows /\ Upright(handlers[h].req.target)
  BY <1>2 DEF BaseInv, TypeOK
<1>5. users[handlers[h].req.target].role \in Roles \cup {"none"}
  BY <1>4 DEF Rows
<1>6. QED
  BY <1>2, <1>3, <1>4, <1>5 DEF TargetRow, Upright, Roles

\* The slot that moves leaves the others where they are, and keeps its request
\* and its locks.
Forward(h, pc) ==
  /\ TypeOK'
  /\ handlers'[h].pc = pc
  /\ handlers'[h].req = handlers[h].req
  /\ handlers'[h].locks = handlers[h].locks
  /\ \A g \in Handlers \ {h} : handlers'[g] = handlers[g]
  /\ UNCHANGED <<users, sessions, history, begun>>

\* _get_user: the copy is the row, or the one its actor's request has.
LEMMA ReadTargetStep ==
  ASSUME BaseInv, NEW h \in Handlers, ReadTarget(h)
  PROVE  /\ handlers[h].pc = "begun" /\ Administering(h)
         /\ handlers[h].req.op \in Targeted /\ TargetRow(h) # NoAccount
         /\ Forward(h, Judged(h, TargetRow(h)))
         /\ handlers'[h].seen = TargetRow(h) /\ handlers'[h].listed = {}
<1>1. /\ handlers[h].pc = "begun" /\ Administering(h)
      /\ handlers[h].req.op \in Targeted /\ TargetRow(h) # NoAccount
  BY DEF ReadTarget, Running, Administering
<1>2. TargetRow(h) \in Rows
  BY <1>1, TargetCopy
<1>3. Judged(h, TargetRow(h)) \in {"losing", "checked"}
  BY DEF Judged
<1>4. Proceed(h, Judged(h, TargetRow(h)), TargetRow(h), {}, {})
  BY DEF ReadTarget
<1>5. QED
  BY <1>1, <1>2, <1>3, <1>4, ProceedKeepsTypes DEF BaseInv, Judging, Forward

\* count_active_admins looks for the administrators.
LEMMA ListAdminsStep ==
  ASSUME BaseInv, NEW h \in Handlers, ListAdmins(h)
  PROVE  /\ handlers[h].pc = "losing" /\ Administering(h)
         /\ Forward(h, "counting")
         /\ handlers'[h].seen = handlers[h].seen
         /\ handlers'[h].due = ActiveAdmins /\ handlers'[h].listed = {}
<1>1. handlers[h].pc = "losing" /\ Administering(h)
  BY DEF ListAdmins, Administering
<1>2. handlers[h].seen \in Rows
  BY <1>1, AdministrationParts DEF BaseInv
<1>3. Proceed(h, "counting", handlers[h].seen, ActiveAdmins, {})
  BY DEF ListAdmins
<1>4. ActiveAdmins \in SUBSET Users
  BY DEF ActiveAdmins
<1>5. TypeOK /\ "counting" \in Judging /\ {} \in SUBSET Tokens /\ {} \in SUBSET Users
  BY DEF BaseInv, Judging
<1>6. ASSUME NEW seen \in Rows, NEW due \in SUBSET Users, NEW listed \in SUBSET Tokens,
             Proceed(h, "counting", seen, due, listed)
      PROVE  /\ Forward(h, "counting") /\ handlers'[h].seen = seen
             /\ handlers'[h].due = due /\ handlers'[h].listed = listed
  BY <1>1, <1>5, <1>6, ProceedKeepsTypes DEF Forward
<1>7. PICK seen \in Rows, due \in SUBSET Users, listed \in SUBSET Tokens :
        /\ seen = handlers[h].seen /\ listed = {} /\ due = ActiveAdmins
        /\ Proceed(h, "counting", seen, due, listed)
  BY <1>2, <1>3, <1>4, <1>5
<1>8. /\ Forward(h, "counting") /\ handlers'[h].seen = seen
      /\ handlers'[h].due = due /\ handlers'[h].listed = listed
  BY <1>6, <1>7
<1>9. QED
  BY <1>1, <1>4, <1>7, <1>8

\* It goes on once it has locked them.
LEMMA CountAdminsStep ==
  ASSUME BaseInv, NEW h \in Handlers, CountAdmins(h)
  PROVE  /\ handlers[h].pc = "counting" /\ Administering(h)
         /\ Forward(h, "checked")
         /\ handlers'[h].seen = handlers[h].seen
         /\ handlers'[h].due = handlers[h].due /\ handlers'[h].listed = {}
         /\ \A u \in handlers[h].due : <<AccountRow(u), "update">> \in handlers[h].locks
<1>1. handlers[h].pc = "counting" /\ Administering(h) /\ Missing(h) = {}
  BY DEF CountAdmins, Administering
<1>2. handlers[h].seen \in Rows /\ handlers[h].due \in SUBSET Users
  BY <1>1, AdministrationParts DEF BaseInv
<1>3. Proceed(h, "checked", handlers[h].seen, handlers[h].due, {})
  BY DEF CountAdmins
<1>4. ASSUME NEW u \in handlers[h].due
      PROVE  <<AccountRow(u), "update">> \in handlers[h].locks
  <2>1. <<AccountRow(u), "update">> \in Wants(h)
    BY <1>1 DEF Wants, Running
  <2>2. QED
    BY <1>1, <2>1, Granted DEF BaseInv
<1>5. TypeOK /\ "checked" \in Judging /\ {} \in SUBSET Tokens /\ {} \in SUBSET Users
  BY DEF BaseInv, Judging
<1>6. ASSUME NEW seen \in Rows, NEW due \in SUBSET Users, NEW listed \in SUBSET Tokens,
             Proceed(h, "checked", seen, due, listed)
      PROVE  /\ Forward(h, "checked") /\ handlers'[h].seen = seen
             /\ handlers'[h].due = due /\ handlers'[h].listed = listed
  BY <1>1, <1>5, <1>6, ProceedKeepsTypes DEF Forward
<1>7. PICK seen \in Rows, due \in SUBSET Users, listed \in SUBSET Tokens :
        /\ seen = handlers[h].seen /\ listed = {} /\ due = handlers[h].due
        /\ Proceed(h, "checked", seen, due, listed)
  BY <1>2, <1>3, <1>5
<1>8. /\ Forward(h, "checked") /\ handlers'[h].seen = seen
      /\ handlers'[h].due = due /\ handlers'[h].listed = listed
  BY <1>6, <1>7
<1>9. QED
  BY <1>1, <1>4, <1>7, <1>8

\* The sessions a request is going to revoke exist.
LEMMA ListSessionsStep ==
  ASSUME BaseInv, NEW h \in Handlers, ListSessions(h)
  PROVE  /\ handlers[h].pc = "checked" /\ Administering(h)
         /\ Forward(h, "ready")
         /\ handlers'[h].seen = handlers[h].seen /\ handlers'[h].due = handlers[h].due
         /\ \A x \in handlers'[h].listed : sessions[x] # Unissued
<1>1. handlers[h].pc = "checked" /\ Administering(h)
  BY DEF ListSessions, Administering
<1>2. handlers[h].seen \in Rows /\ handlers[h].due \in SUBSET Users
  BY <1>1, AdministrationParts DEF BaseInv
<1>3. PICK listed \in SUBSET Tokens :
        /\ \A x \in listed : sessions[x].state = "open"
        /\ Proceed(h, "ready", handlers[h].seen, handlers[h].due, listed)
  BY DEF ListSessions
<1>4. \A x \in listed : sessions[x] # Unissued
  BY <1>3 DEF Unissued
<1>5. TypeOK /\ "ready" \in Judging /\ {} \in SUBSET Tokens /\ {} \in SUBSET Users
  BY DEF BaseInv, Judging
<1>6. PICK seen \in Rows, due \in SUBSET Users :
        /\ seen = handlers[h].seen /\ due = handlers[h].due
        /\ Proceed(h, "ready", seen, due, listed)
  BY <1>2, <1>3
<1>7. /\ Forward(h, "ready") /\ handlers'[h].seen = seen
      /\ handlers'[h].due = due /\ handlers'[h].listed = listed
  BY <1>1, <1>5, <1>6, ProceedKeepsTypes DEF Forward
<1>8. QED
  BY <1>1, <1>4, <1>6, <1>7

\* A flush inserts a row that it has locked.
LEMMA InsertAccountStep ==
  ASSUME BaseInv, NEW h \in Handlers, InsertAccount(h)
  PROVE  /\ handlers[h].pc = "begun" /\ Administering(h) /\ handlers[h].req.op = "CREATE"
         /\ Forward(h, "ready") /\ handlers'[h].listed = {}
         /\ users[handlers[h].req.target] = NoAccount
         /\ <<AccountRow(handlers[h].req.target), "update">> \in handlers[h].locks
<1>1. /\ handlers[h].pc = "begun" /\ Administering(h) /\ handlers[h].req.op = "CREATE"
      /\ Missing(h) = {} /\ users[handlers[h].req.target] = NoAccount
  BY DEF InsertAccount, Running, Administering
<1>2. handlers[h].seen \in Rows
  BY <1>1, AdministrationParts DEF BaseInv
<1>3. Proceed(h, "ready", handlers[h].seen, {}, {})
  BY DEF InsertAccount
<1>4. <<AccountRow(handlers[h].req.target), "update">> \in handlers[h].locks
  <2>1. NewRowLock(handlers[h].req.target) \subseteq Wants(h)
    BY <1>1 DEF Wants, Running
  <2>2. <<AccountRow(handlers[h].req.target), "update">> \in Wants(h)
    BY <1>1, <2>1 DEF NewRowLock
  <2>3. QED
    BY <1>1, <2>2, Granted DEF BaseInv
<1>5. TypeOK /\ "ready" \in Judging /\ {} \in SUBSET Tokens /\ {} \in SUBSET Users
  BY DEF BaseInv, Judging
<1>6. ASSUME NEW seen \in Rows, NEW due \in SUBSET Users, NEW listed \in SUBSET Tokens,
             Proceed(h, "ready", seen, due, listed)
      PROVE  /\ Forward(h, "ready") /\ handlers'[h].seen = seen
             /\ handlers'[h].due = due /\ handlers'[h].listed = listed
  BY <1>1, <1>5, <1>6, ProceedKeepsTypes DEF Forward
<1>7. PICK seen \in Rows, due \in SUBSET Users, listed \in SUBSET Tokens :
        /\ seen = handlers[h].seen /\ listed = {} /\ due = {}
        /\ Proceed(h, "ready", seen, due, listed)
  BY <1>2, <1>3, <1>5
<1>8. /\ Forward(h, "ready") /\ handlers'[h].seen = seen
      /\ handlers'[h].due = due /\ handlers'[h].listed = listed
  BY <1>6, <1>7
<1>9. QED
  BY <1>1, <1>4, <1>7, <1>8

(***************************************************************************)
(* The commits of rows.                                                    *)
(***************************************************************************)

\* Accounts stay accounts, and only a row that is locked appears.
AccountsStay(h) ==
  /\ \A u \in Users : Upright(u)'
  /\ \A u \in Users : users[u].role \in Roles => users'[u].role \in Roles
  /\ \A u \in Users : users[u] = NoAccount /\ users'[u] # NoAccount
                        => <<AccountRow(u), "update">> \in handlers[h].locks

\* One row at most is replaced, by a row with a role.
LEMMA ReplacedRow ==
  ASSUME BaseInv, NEW h \in Handlers, NEW u \in Users, NEW row \in Rows, row.role \in Roles,
         users' = [users EXCEPT ![u] = row],
         users[u].role \in Roles \/ <<AccountRow(u), "update">> \in handlers[h].locks
  PROVE  /\ users' \in [Users -> Rows] /\ users'[u] = row
         /\ \A v \in Users \ {u} : users'[v] = users[v]
         /\ AccountsStay(h)
<1>1. /\ users' \in [Users -> Rows] /\ users'[u] = row
      /\ \A v \in Users \ {u} : users'[v] = users[v]
  BY DEF BaseInv, TypeOK
<1>2. row.role # "none" /\ NoAccount.role \notin Roles
  BY DEF Roles, NoAccount
<1>3. QED
  BY <1>1, <1>2 DEF BaseInv, TypeOK, AccountsStay, Upright

\* A commit that replaces the target's row keeps the types.
LEMMA CommitStep ==
  ASSUME BaseInv, NEW h \in Handlers, Running(h, "ready", {"UPDATE", "DELETE"}),
         NEW row \in Rows, row.role \in Roles, Commit(h, row)
  PROVE  /\ TypeOK' /\ AccountsStay(h) /\ SessionsStay /\ NoneOpened /\ Finish(h)
         /\ handlers[h].req.target \in Users
         /\ users'[handlers[h].req.target] = row
         /\ \A v \in Users \ {handlers[h].req.target} :
              users'[v] = users[v] /\ changes'[v] = changes[v]
         /\ overwritten \subseteq overwritten'
<1> DEFINE u == handlers[h].req.target
<1>1. Administering(h) /\ handlers[h].pc = "ready" /\ handlers[h].req.op \in Targeted
  BY DEF Administering, Running, Targeted
<1>2. u \in Users /\ handlers[h].listed \in SUBSET Tokens
  BY <1>1, AdministrationParts DEF BaseInv
<1>3. users[u].role \in Roles
  BY <1>1 DEF BaseInv, Known, Judging
<1>4. users' = [users EXCEPT ![u] = row] /\ Revoke(handlers[h].listed) /\ Finish(h)
      /\ reseeded' = reseeded /\ begun' = begun
  BY DEF Commit
<1>5. /\ users' \in [Users -> Rows] /\ users'[u] = row
      /\ \A v \in Users \ {u} : users'[v] = users[v]
      /\ AccountsStay(h)
  BY <1>2, <1>3, <1>4, ReplacedRow
<1>6. \A x \in handlers[h].listed : sessions[x] # Unissued
  BY <1>1 DEF BaseInv, Listed
<1>7. /\ sessions' \in [Tokens -> {Unissued} \cup IssuedSessions]
      /\ SessionsStay /\ NoneOpened
  BY <1>2, <1>4, <1>6, RevokeKeepsTypes DEF BaseInv
<1>8. changes' \in [Users -> Nat] /\ \A v \in Users \ {u} : changes'[v] = changes[v]
  <2>1. PICK n \in Nat : changes' = [changes EXCEPT ![u] = n]
    <3>1. changes[u] \in Nat /\ changes[u] + 1 \in Nat
      BY <1>2 DEF BaseInv, TypeOK
    <3>2. \/ changes' = [changes EXCEPT ![u] = changes[u]]
          \/ changes' = [changes EXCEPT ![u] = changes[u] + 1]
      BY DEF Commit
    <3>3. QED
      BY <3>1, <3>2
  <2>2. QED
    BY <1>2, <2>1 DEF BaseInv, TypeOK
<1>9. overwritten' \subseteq Users /\ overwritten \subseteq overwritten'
  BY <1>2 DEF Commit, BaseInv, TypeOK
<1>10. TypeOK'
  BY <1>4, <1>5, <1>7, <1>8, <1>9, FinishKeepsTypes DEF BaseInv, TypeOK
<1>11. QED
  BY <1>2, <1>4, <1>5, <1>7, <1>8, <1>9, <1>10

\* The rows and copies of a PUT or a DELETE about to commit.
LEMMA ReadyParts ==
  ASSUME BaseInv, NEW h \in Handlers, Running(h, "ready", {"UPDATE", "DELETE"})
  PROVE  /\ Administering(h) /\ handlers[h].pc = "ready"
         /\ handlers[h].req.target \in Users
         /\ users[handlers[h].req.target] \in Rows
         /\ users[handlers[h].req.target].role \in Roles
         /\ handlers[h].seen \in Rows /\ handlers[h].seen.role \in Roles
         /\ handlers[h].req.patch.role \in Roles \cup {Keep}
         /\ handlers[h].req.patch.active \in {"true", "false", Keep}
<1>1. Administering(h) /\ handlers[h].pc = "ready" /\ handlers[h].req.op \in Targeted
  BY DEF Administering, Running, Targeted
<1>2. QED
  BY <1>1, AdministrationParts DEF BaseInv, Known, Judging, TypeOK

\* UserService.update writes a row with a role.
LEMMA CommitUpdateStep ==
  ASSUME BaseInv, NEW h \in Handlers, CommitUpdate(h)
  PROVE  /\ Running(h, "ready", {"UPDATE", "DELETE"})
         /\ \E row \in Rows :
              /\ row = Written(handlers[h].req, handlers[h].seen,
                               users[handlers[h].req.target])
              /\ row.role \in Roles /\ Commit(h, row)
<1>1. Running(h, "ready", {"UPDATE", "DELETE"})
  BY DEF CommitUpdate, Running
<1>2. QED
  BY <1>1, ReadyParts, NewRows DEF CommitUpdate

\* UserService.delete writes a row with a role.
LEMMA CommitDeleteStep ==
  ASSUME BaseInv, NEW h \in Handlers, CommitDelete(h)
  PROVE  /\ Running(h, "ready", {"UPDATE", "DELETE"})
         /\ \E row \in Rows :
              /\ row = Deleted(handlers[h].seen, users[handlers[h].req.target])
              /\ row.role \in Roles /\ Commit(h, row)
<1>1. Running(h, "ready", {"UPDATE", "DELETE"})
  BY DEF CommitDelete, Running
<1>2. QED
  BY <1>1, ReadyParts, NewRows DEF CommitDelete

\* A new account is available and has the first version.
LEMMA NewAccount ==
  ASSUME NEW role \in Roles
  PROVE  Account(role) \in Rows /\ Account(role).role = role
         /\ Account(role).auth_version = 1 /\ Available(Account(role))
BY DEF Account, Rows, Available, Roles

\* UserService.create writes a row where there was none.
LEMMA CommitCreateStep ==
  ASSUME BaseInv, NEW h \in Handlers, CommitCreate(h)
  PROVE  /\ TypeOK' /\ AccountsStay(h) /\ SessionsStay /\ NoneOpened /\ Finish(h)
         /\ UNCHANGED <<sessions, history>>
         /\ \E u \in Users, role \in Roles :
              /\ users[u] = NoAccount /\ users'[u] = Account(role)
              /\ \A v \in Users \ {u} : users'[v] = users[v]
<1>1. handlers[h].pc = "ready" /\ handlers[h].req.op = "CREATE" /\ Administering(h)
  BY DEF CommitCreate, Running, Administering
<1> DEFINE u == handlers[h].req.target
           role == handlers[h].req.patch.role
<1>2. u \in Users /\ role \in Roles
  BY <1>1, AdministrationParts DEF BaseInv
<1>3. users[u] = NoAccount /\ <<AccountRow(u), "update">> \in handlers[h].locks
  BY <1>1 DEF BaseInv, Known, Running
<1>4. /\ users' = [users EXCEPT ![u] = Account(role)]
      /\ Finish(h) /\ UNCHANGED <<sessions, history, begun>>
  BY DEF CommitCreate
<1>5. /\ users' \in [Users -> Rows] /\ users'[u] = Account(role) /\ AccountsStay(h)
      /\ \A v \in Users \ {u} : users'[v] = users[v]
  <2>1. PICK row \in Rows : row = Account(role) /\ row.role \in Roles
    BY <1>2, NewAccount
  <2>2. users' = [users EXCEPT ![u] = row]
    BY <1>4, <2>1
  <2>3. u \in Users /\ (users[u].role \in Roles \/ <<AccountRow(u), "update">> \in handlers[h].locks)
    BY <1>2, <1>3
  <2> HIDE DEF u, role
  <2>4. users' \in [Users -> Rows] /\ users'[u] = row /\ AccountsStay(h)
      /\ \A v \in Users \ {u} : users'[v] = users[v]
    BY <2>1, <2>2, <2>3, ReplacedRow
  <2>5. QED
    BY <2>1, <2>4
<1>6. TypeOK'
  BY <1>4, <1>5, FinishKeepsTypes DEF BaseInv, TypeOK, history
<1>7. QED
  BY <1>2, <1>3, <1>4, <1>5, <1>6 DEF SessionsStay, NoneOpened, BaseInv, TypeOK

\* The seed command creates the administrator's row or activates it.
LEMMA CommitSeedStep ==
  ASSUME BaseInv, NEW h \in Handlers, CommitSeed(h)
  PROVE  /\ TypeOK' /\ AccountsStay(h) /\ SessionsStay /\ NoneOpened /\ Finish(h)
         /\ UNCHANGED <<sessions, changes, overwritten>>
         /\ Seeded \in Users /\ \A v \in Users \ {Seeded} : users'[v] = users[v]
         /\ \/ users'[Seeded] = users[Seeded]
            \/ users[Seeded] = NoAccount /\ users'[Seeded] = Account("admin")
            \/ /\ users[Seeded].role \in Roles
               /\ users'[Seeded] = Activated(handlers[h].seen, users[Seeded])
               /\ handlers[h].seen \in Rows
<1> DEFINE copy == handlers[h].seen
<1>1. copy \in Rows /\ Seeded \in Users /\ users[Seeded] \in Rows
  BY HandlerKinds, AccountsAssumption DEF CommitSeed, Seeding, BaseInv, TypeOK
<1>2. Finish(h) /\ UNCHANGED <<sessions, changes, overwritten, begun>> /\ handlers[h].pc = "seeding"
      /\ Missing(h) = {}
  BY DEF CommitSeed
<1> DEFINE Replaced ==
      /\ users' \in [Users -> Rows] /\ AccountsStay(h)
      /\ \A v \in Users \ {Seeded} : users'[v] = users[v]
      /\ \/ users'[Seeded] = users[Seeded]
         \/ users[Seeded] = NoAccount /\ users'[Seeded] = Account("admin")
         \/ /\ users[Seeded].role \in Roles
            /\ users'[Seeded] = Activated(copy, users[Seeded])
<1>3. ASSUME copy # NoAccount PROVE Replaced
  <2>1. users[Seeded].role \in Roles
    BY <1>2, <1>3 DEF BaseInv, Known
  <2>2. PICK row \in Rows : row = Activated(copy, users[Seeded]) /\ row.role \in Roles
    BY <1>1, <2>1, ActivatedRow
  <2>3. users' = [users EXCEPT ![Seeded] = row]
    BY <1>3, <2>2 DEF CommitSeed
  <2>4. QED
    BY <1>1, <2>1, <2>2, <2>3, ReplacedRow
<1>4. ASSUME copy = NoAccount, users[Seeded] = NoAccount PROVE Replaced
  <2>1. users' = [users EXCEPT ![Seeded] = Account("admin")]
    BY <1>4 DEF CommitSeed
  <2>2. Account("admin") \in Rows /\ Account("admin").role \in Roles
    BY NewAccount DEF Roles
  <2>3. <<AccountRow(Seeded), "update">> \in Wants(h)
    BY <1>2, <1>4 DEF Wants, Running, SeedLocks, NewRowLock
  <2>4. <<AccountRow(Seeded), "update">> \in handlers[h].locks
    BY <1>2, <2>3, Granted DEF BaseInv
  <2>5. QED
    BY <1>1, <1>4, <2>1, <2>2, <2>4, ReplacedRow
<1>5. ASSUME copy = NoAccount, users[Seeded] # NoAccount PROVE Replaced
  <2>1. users' = users
    BY <1>5 DEF CommitSeed
  <2>2. QED
    BY <2>1 DEF BaseInv, TypeOK, AccountsStay, Upright
<1>6. Replaced
  BY <1>3, <1>4, <1>5
<1>7. reseeded' \in Nat
  BY DEF CommitSeed, BaseInv, TypeOK
<1>8. TypeOK'
  BY <1>2, <1>6, <1>7, FinishKeepsTypes DEF BaseInv, TypeOK
<1>9. QED
  BY <1>1, <1>2, <1>6, <1>8 DEF SessionsStay, NoneOpened, BaseInv, TypeOK

(***************************************************************************)
(* The steps that write no account row.                                    *)
(***************************************************************************)

\* Where only slots change, accounts and sessions stay.
LEMMA NothingWritten ==
  ASSUME BaseInv, UNCHANGED <<users, sessions>>, NEW h \in Handlers
  PROVE  AccountsStay(h) /\ SessionsStay /\ NoneOpened
BY DEF BaseInv, TypeOK, AccountsStay, Upright, SessionsStay, NoneOpened

\* The parts of a login under way.
LEMMA LoginParts ==
  ASSUME TypeOK, NEW h \in Handlers, handlers[h].pc = "login"
  PROVE  /\ handlers[h].user \in Users /\ handlers[h].seen \in Rows
         /\ handlers[h].seen.auth_version \in Nat
         /\ handlers[h].opened_after \in Nat /\ handlers[h].seeded_after \in Nat
<1>1. handlers[h] \in LoggingIn
  BY HandlerKinds
<1>2. QED
  BY <1>1 DEF LoggingIn, Rows

\* A login issues a session of an account that exists.
LEMMA CommitLoginStep ==
  ASSUME BaseInv, NEW h \in Handlers, NEW x \in Tokens, CommitLogin(h, x)
  PROVE  TypeOK' /\ AccountsStay(h) /\ SessionsStay /\ Finish(h)
<1>1. /\ handlers[h].user \in Users /\ handlers[h].seen.auth_version \in Nat
      /\ handlers[h].opened_after \in Nat /\ handlers[h].seeded_after \in Nat
  BY LoginParts DEF CommitLogin, BaseInv
<1>2. PICK s \in IssuedSessions : sessions' = [sessions EXCEPT ![x] = s]
  <2>1. [state |-> "open", user |-> handlers[h].user,
         auth_version |-> handlers[h].seen.auth_version,
         opened_after |-> handlers[h].opened_after,
         seeded_after |-> handlers[h].seeded_after] \in IssuedSessions
    BY <1>1 DEF IssuedSessions
  <2>2. QED
    BY <2>1 DEF CommitLogin
<1>3. sessions' \in [Tokens -> {Unissued} \cup IssuedSessions]
  BY <1>2 DEF BaseInv, TypeOK
<1>4. SessionsStay
  BY <1>2 DEF BaseInv, TypeOK, CommitLogin, SessionsStay
<1>5. AccountsStay(h)
  BY DEF CommitLogin, BaseInv, TypeOK, AccountsStay, Upright
<1>6. QED
  BY <1>3, <1>4, <1>5, FinishKeepsTypes DEF CommitLogin, BaseInv, TypeOK, history

\* A logout revokes the one session it presented.
LEMMA CommitLogoutStep ==
  ASSUME BaseInv, NEW h \in Handlers, CommitLogout(h)
  PROVE  TypeOK' /\ AccountsStay(h) /\ SessionsStay /\ NoneOpened /\ Finish(h)
<1>1. handlers[h] \in LoggingOut
  BY HandlerKinds DEF CommitLogout, BaseInv
<1>2. {handlers[h].token} \in SUBSET Tokens /\ sessions[handlers[h].token] # Unissued
  BY <1>1 DEF LoggingOut, CommitLogout, BaseInv, Listed
<1>3. /\ sessions' \in [Tokens -> {Unissued} \cup IssuedSessions]
      /\ SessionsStay /\ NoneOpened
  BY <1>2, RevokeKeepsTypes DEF CommitLogout, BaseInv
<1>4. AccountsStay(h)
  BY DEF CommitLogout, BaseInv, TypeOK, AccountsStay, Upright
<1>5. QED
  BY <1>3, <1>4, FinishKeepsTypes DEF CommitLogout, BaseInv, TypeOK, history

\* Revoking an account's sessions commits nothing else.
LEMMA CommitRevokeStep ==
  ASSUME BaseInv, NEW h \in Handlers, CommitRevoke(h)
  PROVE  TypeOK' /\ AccountsStay(h) /\ SessionsStay /\ NoneOpened /\ Finish(h)
<1>1. Administering(h)
  BY DEF CommitRevoke, Running, Administering
<1>2. handlers[h].listed \in SUBSET Tokens
      /\ \A x \in handlers[h].listed : sessions[x] # Unissued
  BY <1>1, AdministrationParts DEF BaseInv, Listed
<1>3. /\ sessions' \in [Tokens -> {Unissued} \cup IssuedSessions]
      /\ SessionsStay /\ NoneOpened
  BY <1>2, RevokeKeepsTypes DEF CommitRevoke, BaseInv
<1>4. AccountsStay(h)
  BY DEF CommitRevoke, BaseInv, TypeOK, AccountsStay, Upright
<1>5. QED
  BY <1>3, <1>4, FinishKeepsTypes DEF CommitRevoke, BaseInv, TypeOK, history

\* A request that is refused or rolled back writes nothing.
Ended(h) == \/ RefuseTarget(h) \/ RefuseLastAdmin(h) \/ RefuseTaken(h)
            \/ BreakDeadlock(h) \/ Rollback(h)

LEMMA EndedStep ==
  ASSUME BaseInv, NEW h \in Handlers, Ended(h)
  PROVE  /\ TypeOK' /\ AccountsStay(h) /\ SessionsStay /\ NoneOpened /\ Finish(h)
         /\ UNCHANGED <<users, sessions, history>>
<1>1. Finish(h) /\ UNCHANGED <<users, sessions, history, begun>>
  BY DEF Ended, RefuseTarget, RefuseLastAdmin, RefuseTaken, BreakDeadlock, Rollback
<1>2. TypeOK'
  BY <1>1, FinishKeepsTypes DEF BaseInv, TypeOK, history
<1>3. QED
  BY <1>1, <1>2, NothingWritten

\* The rows a session and its account give a new request.
LEMMA IssuedParts ==
  ASSUME TypeOK, NEW x \in Tokens, sessions[x] # Unissued
  PROVE  /\ sessions[x] \in IssuedSessions
         /\ sessions[x].user \in Users /\ sessions[x].auth_version \in Nat
         /\ sessions[x].opened_after \in Nat /\ sessions[x].state \in {"open", "revoked"}
<1>1. sessions[x] \in IssuedSessions
  BY DEF TypeOK
<1>2. QED
  BY <1>1 DEF IssuedSessions

\* A slot that takes a request holds no lock.
Begins(h) ==
  /\ TypeOK'
  /\ handlers'[h].locks = {}
  /\ \A g \in Handlers \ {h} : handlers'[g] = handlers[g]
  /\ UNCHANGED <<users, sessions, history>>

\* A request that is let in is an administrator's.
LEMMA AuthenticateStep ==
  ASSUME BaseInv, NEW h \in Handlers, NEW x \in Tokens, NEW req \in Requests,
         Authenticate(h, x, req)
  PROVE  /\ Begins(h)
         /\ handlers'[h].pc = "begun" /\ handlers'[h].req = req
         /\ handlers'[h].actor = sessions[x].user
         /\ handlers'[h].seen = users[sessions[x].user]
         /\ sessions[x].user \in Users /\ users[sessions[x].user].role = "admin"
         /\ handlers'[h].listed = {}
<1>1. sessions[x].user \in Users
  BY IssuedParts DEF Authenticate, BaseInv
<1>2. PICK begin \in Administrations :
        /\ handlers' = [handlers EXCEPT ![h] = begin]
        /\ begin = [pc |-> "begun", req |-> req, actor |-> sessions[x].user,
                    seen |-> users[sessions[x].user], due |-> {}, listed |-> {}, locks |-> {}]
  <2>1. users[sessions[x].user] \in Rows
    BY <1>1 DEF BaseInv, TypeOK
  <2>2. [pc |-> "begun", req |-> req, actor |-> sessions[x].user,
         seen |-> users[sessions[x].user], due |-> {}, listed |-> {}, locks |-> {}]
           \in Administrations
    BY <1>1, <2>1 DEF Administrations
  <2>3. QED
    BY <2>2 DEF Authenticate
<1>3. /\ handlers' \in [Handlers -> {Idle} \cup ActiveHandlers] /\ handlers'[h] = begin
      /\ \A g \in Handlers \ {h} : handlers'[g] = handlers[g]
  BY <1>2 DEF BaseInv, TypeOK, ActiveHandlers
<1>4. begun' \in 0 .. MaxRequests
  BY AccountsAssumption DEF Authenticate, BaseInv, TypeOK
<1>5. TypeOK'
  BY <1>3, <1>4 DEF Authenticate, BaseInv, TypeOK, history
<1>6. QED
  BY <1>1, <1>2, <1>3, <1>5 DEF Authenticate, Begins

\* A login keeps the row whose password it checks.
LEMMA ReadCredentialsStep ==
  ASSUME BaseInv, NEW h \in Handlers, NEW u \in Users, ReadCredentials(h, u)
  PROVE  /\ Begins(h)
         /\ handlers'[h].pc = "login" /\ handlers'[h].user = u
         /\ handlers'[h].seen = users[u] /\ handlers'[h].opened_after = changes[u]
<1>1. PICK r \in LoggingIn :
        /\ handlers' = [handlers EXCEPT ![h] = r]
        /\ r = [pc |-> "login", user |-> u, seen |-> users[u], opened_after |-> changes[u],
                seeded_after |-> reseeded, locks |-> {}]
  <2>1. [pc |-> "login", user |-> u, seen |-> users[u], opened_after |-> changes[u],
         seeded_after |-> reseeded, locks |-> {}] \in LoggingIn
    BY DEF LoggingIn, BaseInv, TypeOK
  <2>2. QED
    BY <2>1 DEF ReadCredentials
<1>2. /\ handlers' \in [Handlers -> {Idle} \cup ActiveHandlers] /\ handlers'[h] = r
      /\ \A g \in Handlers \ {h} : handlers'[g] = handlers[g]
  BY <1>1 DEF BaseInv, TypeOK, ActiveHandlers
<1>3. TypeOK'
  BY <1>2 DEF ReadCredentials, BaseInv, TypeOK, history
<1>4. QED
  BY <1>1, <1>2, <1>3 DEF ReadCredentials, Begins

\* A logout remembers the session that was presented.
LEMMA BeginLogoutStep ==
  ASSUME BaseInv, NEW h \in Handlers, NEW x \in Tokens, BeginLogout(h, x)
  PROVE  /\ Begins(h)
         /\ handlers'[h].pc = "logout" /\ handlers'[h].token = x /\ sessions[x] # Unissued
<1>1. PICK r \in LoggingOut :
        /\ handlers' = [handlers EXCEPT ![h] = r]
        /\ r.pc = "logout" /\ r.token = x /\ r.locks = {}
  <2>1. [pc |-> "logout", actor |-> sessions[x].user, token |-> x, locks |-> {}] \in LoggingOut
    BY IssuedParts DEF BeginLogout, BaseInv, LoggingOut
  <2>2. QED
    BY <2>1 DEF BeginLogout
<1>2. /\ handlers' \in [Handlers -> {Idle} \cup ActiveHandlers] /\ handlers'[h] = r
      /\ \A g \in Handlers \ {h} : handlers'[g] = handlers[g]
  BY <1>1 DEF BaseInv, TypeOK, ActiveHandlers
<1>3. TypeOK'
  BY <1>2 DEF BeginLogout, BaseInv, TypeOK, history
<1>4. QED
  BY <1>1, <1>2, <1>3 DEF BeginLogout, Begins

\* The seed command keeps the row it reads.
LEMMA BeginSeedStep ==
  ASSUME BaseInv, NEW h \in Handlers, NEW rekeys \in BOOLEAN, BeginSeed(h, rekeys)
  PROVE  /\ Begins(h)
         /\ handlers'[h].pc = "seeding" /\ handlers'[h].seen = users[Seeded]
<1>1. PICK r \in Seeding :
        /\ handlers' = [handlers EXCEPT ![h] = r]
        /\ r.pc = "seeding" /\ r.seen = users[Seeded] /\ r.locks = {}
  <2>1. [pc |-> "seeding", seen |-> users[Seeded], rekeys |-> rekeys, locks |-> {}] \in Seeding
    BY AccountsAssumption DEF Seeding, BaseInv, TypeOK
  <2>2. QED
    BY <2>1 DEF BeginSeed
<1>2. /\ handlers' \in [Handlers -> {Idle} \cup ActiveHandlers] /\ handlers'[h] = r
      /\ \A g \in Handlers \ {h} : handlers'[g] = handlers[g]
  BY <1>1 DEF BaseInv, TypeOK, ActiveHandlers
<1>3. begun' \in 0 .. MaxRequests
  BY AccountsAssumption DEF BeginSeed, BaseInv, TypeOK
<1>4. TypeOK'
  BY <1>2, <1>3 DEF BeginSeed, BaseInv, TypeOK, history
<1>5. QED
  BY <1>1, <1>2, <1>4 DEF BeginSeed, Begins

(***************************************************************************)
(* BaseInv.                                                                *)
(***************************************************************************)

\* A conflict has no direction.
LEMMA ConflictsBothWays == \A k, l : Conflict(k, l) <=> Conflict(l, k)
BY DEF Conflict

\* A request that gets no lock comes into conflict with nobody.
LEMMA ExclusiveStays ==
  ASSUME BaseInv, NEW h \in Handlers, handlers'[h].locks \subseteq handlers[h].locks,
         \A g \in Handlers \ {h} : handlers'[g] = handlers[g]
  PROVE  Exclusive'
<1>1. \A g \in Handlers : handlers'[g].locks \subseteq handlers[g].locks
  OBVIOUS
<1>2. QED
  BY <1>1 DEF BaseInv, Exclusive

\* Nor does one that gets a lock nobody's lock is in conflict with.
LEMMA ExclusiveAcquire ==
  ASSUME BaseInv, NEW h \in Handlers, Acquire(h)
  PROVE  Exclusive'
<1>1. PICK l \in Locks : /\ handlers'[h].locks = handlers[h].locks \cup {l}
                         /\ \A g \in Handlers \ {h} : ~Blocks(g, l)
  BY AcquireStep DEF BaseInv
<1>2. \A g \in Handlers \ {h} : handlers'[g] = handlers[g]
  BY AcquireStep DEF BaseInv
<1>3. \A g \in Handlers \ {h} : \A k \in handlers[g].locks : ~Conflict(k, l) /\ ~Conflict(l, k)
  BY <1>1, ConflictsBothWays DEF Blocks
<1>4. SUFFICES ASSUME NEW f \in Handlers, NEW g \in Handlers, f # g,
                      NEW k \in handlers'[f].locks, NEW m \in handlers'[g].locks
               PROVE  ~Conflict(k, m)
  BY DEF Exclusive
<1>5. CASE f = h
  BY <1>1, <1>2, <1>3, <1>4, <1>5 DEF BaseInv, Exclusive
<1>6. CASE g = h
  BY <1>1, <1>2, <1>3, <1>4, <1>6 DEF BaseInv, Exclusive
<1>7. CASE f # h /\ g # h
  BY <1>2, <1>4, <1>7 DEF BaseInv, Exclusive
<1>8. QED
  BY <1>5, <1>6, <1>7

\* Whoever does not move keeps its place: a row it has locked appears under
\* nobody else.
LEMMA OthersStay ==
  ASSUME BaseInv, NEW h \in Handlers, AccountsStay(h), SessionsStay, NEW g \in Handlers \ {h},
         handlers'[g] = handlers[g]
  PROVE  Known(g)' /\ Listed(g)'
<1>1. Known(g) /\ Listed(g)
  BY DEF BaseInv
<1>2. /\ Administering(g) => /\ handlers[g].req.target \in Users
                             /\ handlers[g].actor \in Users
                             /\ handlers[g].listed \subseteq Tokens
      /\ handlers[g].pc = "logout" => handlers[g].token \in Tokens
  BY AdministrationParts, HandlerKinds DEF BaseInv, LoggingOut
<1>3. Running(g, "ready", {"CREATE"}) => users'[handlers[g].req.target] = NoAccount
  <2> DEFINE u == handlers[g].req.target
             lock == <<AccountRow(u), "update">>
  <2>1. SUFFICES ASSUME Running(g, "ready", {"CREATE"}), users'[u] # NoAccount PROVE FALSE
    OBVIOUS
  <2>2. users[u] = NoAccount /\ lock \in handlers[g].locks /\ u \in Users
    BY <1>1, <1>2, <2>1 DEF Known, Running, Administering
  <2>3. lock \in handlers[h].locks
    BY <2>1, <2>2 DEF AccountsStay
  <2>4. Conflict(lock, lock)
    BY DEF Conflict
  <2>5. QED
    BY <2>2, <2>3, <2>4 DEF BaseInv, Exclusive
<1>4. Known(g)'
  BY <1>1, <1>2, <1>3, AccountsAssumption
     DEF Known, AccountsStay, Administering, Judging, Running
<1>5. Listed(g)'
  BY <1>1, <1>2 DEF Listed, SessionsStay, Administering
<1>6. QED
  BY <1>4, <1>5

\* BaseInv after a step that ends its request.
LEMMA FinishedStep ==
  ASSUME BaseInv, NEW h \in Handlers, TypeOK', AccountsStay(h), SessionsStay, Finish(h)
  PROVE  BaseInv'
<1>1. handlers'[h] = Idle /\ \A g \in Handlers \ {h} : handlers'[g] = handlers[g]
  BY FinishKeepsTypes DEF BaseInv
<1>2. Known(h)' /\ Listed(h)'
  BY <1>1 DEF Known, Listed, Idle, Administering, Judging, Running
<1>3. \A g \in Handlers \ {h} : Known(g)' /\ Listed(g)'
  BY <1>1, OthersStay
<1>4. Exclusive'
  <2>1. handlers'[h].locks = {}
    BY <1>1 DEF Idle
  <2>2. QED
    BY <1>1, <2>1, ExclusiveStays
<1>5. QED
  BY <1>2, <1>3, <1>4 DEF BaseInv, AccountsStay

\* BaseInv after a step that writes nothing.
LEMMA MovedStep ==
  ASSUME BaseInv, NEW h \in Handlers, TypeOK', UNCHANGED <<users, sessions>>,
         \A g \in Handlers \ {h} : handlers'[g] = handlers[g],
         Known(h)', Listed(h)', Exclusive'
  PROVE  BaseInv'
<1>1. AccountsStay(h) /\ SessionsStay
  BY NothingWritten
<1>2. \A g \in Handlers \ {h} : Known(g)' /\ Listed(g)'
  BY <1>1, OthersStay
<1>3. QED
  BY <1>1, <1>2 DEF BaseInv, AccountsStay

\* BaseInv after a step of an administrative request before its commit.
LEMMA ForwardStep ==
  ASSUME BaseInv, NEW h \in Handlers, NEW pc, Forward(h, pc), Known(h)', Listed(h)'
  PROVE  BaseInv'
<1>1. /\ TypeOK' /\ handlers'[h].locks = handlers[h].locks
      /\ \A g \in Handlers \ {h} : handlers'[g] = handlers[g]
      /\ UNCHANGED <<users, sessions>>
  BY DEF Forward
<1>2. Exclusive'
  BY <1>1, ExclusiveStays
<1>3. QED
  BY <1>1, <1>2, MovedStep

\* BaseInv after a step that takes a request.
LEMMA BeginStep ==
  ASSUME BaseInv, NEW h \in Handlers, Begins(h), Known(h)', Listed(h)'
  PROVE  BaseInv'
<1>1. /\ TypeOK' /\ handlers'[h].locks = {}
      /\ \A g \in Handlers \ {h} : handlers'[g] = handlers[g]
      /\ UNCHANGED <<users, sessions>>
  BY DEF Begins
<1>2. Exclusive'
  BY <1>1, ExclusiveStays
<1>3. QED
  BY <1>1, <1>2, MovedStep

\* BaseInv holds at first.
LEMMA BaseInit == Init => BaseInv
<1>1. SUFFICES ASSUME Init PROVE BaseInv
  OBVIOUS
<1>2. \A u \in Users : Upright(u)
  BY <1>1 DEF Init, Upright, Account, Roles
<1>3. \A h \in Handlers : Known(h) /\ Listed(h)
  BY <1>1 DEF Init, Known, Listed, Idle, Administering, Judging, Running
<1>4. Exclusive
  BY <1>1 DEF Init, Exclusive, Idle
<1>5. QED
  BY <1>1, <1>2, <1>3, <1>4, InitType DEF BaseInv

\* Every step of a request under way keeps BaseInv.
LEMMA BaseAdvance ==
  ASSUME BaseInv, NEW h \in Handlers, Advance(h)
  PROVE  BaseInv'
<1>1. CASE Acquire(h)
  <2>1. Known(h) /\ Listed(h) /\ TypeOK
    BY DEF BaseInv
  <2>2. handlers[h].locks \subseteq handlers'[h].locks
    BY <1>1, <2>1, AcquireStep
  <2>3. Known(h)' /\ Listed(h)'
    BY <1>1, <2>1, <2>2, AcquireStep DEF Known, Listed, Administering, Judging, Running
  <2>4. QED
    BY <1>1, <2>1, <2>3, AcquireStep, ExclusiveAcquire, MovedStep
<1>2. CASE \E x \in Tokens : CommitLogin(h, x)
  BY <1>2, CommitLoginStep, FinishedStep
<1>3. CASE CommitLogout(h)
  BY <1>3, CommitLogoutStep, FinishedStep
<1>4. CASE ReadTarget(h)
  <2>1. TargetRow(h).role \in Roles /\ users[handlers[h].req.target].role \in Roles
    BY <1>4, ReadTargetStep, TargetCopy
  <2>2. Judged(h, TargetRow(h)) \in {"losing", "checked"} /\ handlers[h].req.op # "CREATE"
    BY <1>4, ReadTargetStep DEF Judged, Targeted
  <2>3. Known(h)' /\ Listed(h)'
    BY <1>4, <2>1, <2>2, ReadTargetStep
       DEF Forward, Known, Listed, Administering, Judging, Running
  <2>4. QED
    BY <1>4, <2>3, ReadTargetStep, ForwardStep
<1>5. CASE ListAdmins(h)
  <2>1. Known(h)' /\ Listed(h)'
    BY <1>5, ListAdminsStep
       DEF BaseInv, Forward, Known, Listed, Administering, Judging, Running, Targeted
  <2>2. QED
    BY <1>5, <2>1, ListAdminsStep, ForwardStep
<1>6. CASE CountAdmins(h)
  <2>1. Known(h)' /\ Listed(h)'
    BY <1>6, CountAdminsStep
       DEF BaseInv, Forward, Known, Listed, Administering, Judging, Running, Targeted
  <2>2. QED
    BY <1>6, <2>1, CountAdminsStep, ForwardStep
<1>7. CASE ListSessions(h)
  <2>1. Known(h)' /\ Listed(h)'
    BY <1>7, ListSessionsStep
       DEF BaseInv, Forward, Known, Listed, Administering, Judging, Running, Targeted
  <2>2. QED
    BY <1>7, <2>1, ListSessionsStep, ForwardStep
<1>8. CASE CommitUpdate(h)
  BY <1>8, CommitUpdateStep, CommitStep, FinishedStep
<1>9. CASE CommitDelete(h)
  BY <1>9, CommitDeleteStep, CommitStep, FinishedStep
<1>10. CASE CommitRevoke(h)
  BY <1>10, CommitRevokeStep, FinishedStep
<1>11. CASE InsertAccount(h)
  <2>1. Known(h)' /\ Listed(h)'
    BY <1>11, InsertAccountStep
       DEF BaseInv, Forward, Known, Listed, Administering, Judging, Running, Targeted
  <2>2. QED
    BY <1>11, <2>1, InsertAccountStep, ForwardStep
<1>12. CASE CommitCreate(h)
  BY <1>12, CommitCreateStep, FinishedStep
<1>13. CASE CommitSeed(h)
  BY <1>13, CommitSeedStep, FinishedStep
<1>14. CASE Ended(h)
  BY <1>14, EndedStep, FinishedStep
<1>15. QED
  BY <1>1, <1>2, <1>3, <1>4, <1>5, <1>6, <1>7, <1>8, <1>9, <1>10, <1>11, <1>12, <1>13, <1>14
     DEF Advance, Ended

\* BaseInv is inductive.
LEMMA BaseStep == BaseInv /\ [Next]_vars => BaseInv'
<1>1. SUFFICES ASSUME BaseInv, [Next]_vars PROVE BaseInv'
  OBVIOUS
<1>2. ASSUME NEW h \in Handlers, NEW u \in Users, ReadCredentials(h, u) PROVE BaseInv'
  <2>1. Known(h)' /\ Listed(h)'
    BY <1>1, <1>2, ReadCredentialsStep DEF Known, Listed, Administering, Judging, Running
  <2>2. QED
    BY <1>1, <1>2, <2>1, ReadCredentialsStep, BeginStep
<1>3. ASSUME NEW h \in Handlers, NEW x \in Tokens, BeginLogout(h, x) PROVE BaseInv'
  <2>1. Known(h)' /\ Listed(h)'
    BY <1>1, <1>3, BeginLogoutStep DEF Begins, Known, Listed, Administering, Judging, Running
  <2>2. QED
    BY <1>1, <1>3, <2>1, BeginLogoutStep, BeginStep
<1>4. ASSUME NEW h \in Handlers, NEW x \in Tokens, NEW req \in Requests,
             Authenticate(h, x, req)
      PROVE  BaseInv'
  <2>1. Known(h)' /\ Listed(h)'
    BY <1>1, <1>4, AuthenticateStep
       DEF Begins, Known, Listed, Administering, Judging, Running, Roles
  <2>2. QED
    BY <1>1, <1>4, <2>1, AuthenticateStep, BeginStep
<1>5. ASSUME NEW h \in Handlers, NEW rekeys \in BOOLEAN, BeginSeed(h, rekeys) PROVE BaseInv'
  <2>1. users[Seeded] # NoAccount => users[Seeded].role \in Roles
    BY <1>1, AccountsAssumption DEF BaseInv, Upright, TypeOK, Rows
  <2>2. Known(h)' /\ Listed(h)'
    BY <1>1, <1>5, <2>1, BeginSeedStep
       DEF Begins, Known, Listed, Administering, Judging, Running
  <2>3. QED
    BY <1>1, <1>5, <2>2, BeginSeedStep, BeginStep
<1>6. ASSUME NEW h \in Handlers, Rollback(h) PROVE BaseInv'
  <2>1. Ended(h)
    BY <1>6 DEF Ended
  <2>2. QED
    BY <1>1, <1>6, <2>1, EndedStep, FinishedStep
<1>7. CASE UNCHANGED vars
  BY <1>1, <1>7 DEF vars, history, BaseInv, TypeOK, Upright, Known, Listed, Administering,
                    Running, Exclusive
<1>8. QED
  BY <1>1, <1>2, <1>3, <1>4, <1>5, <1>6, <1>7, BaseAdvance DEF Next

\* Every row, session and request has its type, whatever the requests do and
\* wherever they are interrupted: a commit never writes a row without a role
\* over an account, although it works on a copy it read transactions ago.
THEOREM AccountsTypeCorrect == Spec => []TypeOK
<1>1. BaseInv => TypeOK
  BY DEF BaseInv
<1>2. QED
  BY <1>1, BaseInit, BaseStep, PTL DEF Spec

(***************************************************************************)
(* The last administrator, while no PUT makes an administrator.            *)
(***************************************************************************)
NoPromotions == \A patch \in Patches : patch.role # "admin"

\* Active administrators that a request has counted and still holds.
Kept(h) == {v \in handlers[h].due \cap ActiveAdmins :
              <<AccountRow(v), "update">> \in handlers[h].locks}

\* A copy that says staff is right; whoever was allowed to take an administrator
\* away keeps another one besides.
Guarded(h) ==
  /\ handlers[h].pc \in Judging /\ handlers[h].req.op \in Targeted
       /\ handlers[h].seen.role = "staff"
       => users[handlers[h].req.target].role = "staff"
  /\ handlers[h].pc \in {"checked", "ready"} /\ LosingAdmin(handlers[h].req, handlers[h].seen)
       => \E v, w \in Kept(h) : v # w

AdminInv == SomeActiveAdmin /\ \A h \in Handlers : Guarded(h)

\* What a commit does to the roles and to the active administrators: the one it
\* takes away is its target, whose row it has locked.
StaffStays == \A u \in Users : users[u].role = "staff" => users'[u].role = "staff"

OnlyItsOwn(h) ==
  \A v \in ActiveAdmins \ ActiveAdmins' :
    /\ handlers[h].pc = "ready" /\ v = handlers[h].req.target
    /\ LosingAdmin(handlers[h].req, handlers[h].seen)
    /\ \E mode \in {"update", "write"} : <<AccountRow(v), mode>> \in handlers[h].locks

\* A commit that changes its target for the worse has locked its row.
LEMMA TargetIsLocked ==
  ASSUME BaseInv, NEW h \in Handlers, Running(h, "ready", {"UPDATE", "DELETE"}),
         Missing(h) = {}, Sensitive(handlers[h].req, handlers[h].seen)
  PROVE  \E mode \in {"update", "write"} :
           <<AccountRow(handlers[h].req.target), mode>> \in handlers[h].locks
<1> DEFINE row == AccountRow(handlers[h].req.target)
<1>1. Wants(h) = CommitLocks(h)
  BY DEF Wants, Running
<1>2. <<row, "update">> \in CommitLocks(h) \/ <<row, "write">> \in CommitLocks(h)
  <2>1. CASE handlers[h].req.op = "UPDATE"
    <3>1. <<row, "update">> \in TargetLock(handlers[h].req, handlers[h].seen)
            \/ <<row, "write">> \in TargetLock(handlers[h].req, handlers[h].seen)
      BY DEF TargetLock
    <3>2. TargetLock(handlers[h].req, handlers[h].seen) \subseteq CommitLocks(h)
      BY <2>1 DEF CommitLocks
    <3>3. QED
      BY <3>1, <3>2
  <2>2. CASE handlers[h].req.op = "DELETE"
    <3>1. {<<row, "write">>} \subseteq CommitLocks(h)
      BY <2>2 DEF CommitLocks
    <3>2. QED
      BY <3>1
  <2>3. QED
    BY <2>1, <2>2 DEF Running
<1>3. CASE <<row, "update">> \in CommitLocks(h)
  <2>1. <<row, "update">>[1] = row /\ <<row, "update">>[2] # "share"
    OBVIOUS
  <2>2. QED
    BY <1>1, <1>3, <2>1, Granted DEF BaseInv
<1>4. CASE <<row, "write">> \in CommitLocks(h)
  <2>1. <<row, "write">>[1] = row /\ <<row, "write">>[2] # "share"
    OBVIOUS
  <2>2. QED
    BY <1>1, <1>4, <2>1, Granted DEF BaseInv
<1>5. QED
  BY <1>2, <1>3, <1>4

\* A PUT takes away no administrator but its target, and makes none.
LEMMA UpdateTakesItsOwn ==
  ASSUME NoPromotions, BaseInv, AdminInv, NEW h \in Handlers, CommitUpdate(h)
  PROVE  StaffStays /\ OnlyItsOwn(h)
<1> DEFINE req == handlers[h].req
           copy == handlers[h].seen
           u == req.target
<1>1. /\ handlers[h].pc = "ready" /\ req.op = "UPDATE" /\ Administering(h)
      /\ Running(h, "ready", {"UPDATE", "DELETE"}) /\ Missing(h) = {}
  BY DEF CommitUpdate, Running, Administering, Commit
<1>2. /\ u \in Users /\ users[u] \in Rows /\ copy.role \in Roles
      /\ req.patch.active \in {"true", "false", Keep}
  BY <1>1, ReadyParts
<1>3. req.patch.role \in {"staff", Keep}
  BY <1>1, AdministrationParts DEF BaseInv, NoPromotions, Roles
<1>4. /\ users'[u] = Written(req, copy, users[u])
      /\ \A v \in Users \ {u} : users'[v] = users[v]
  BY <1>1, CommitUpdateStep, CommitStep
<1>5. StaffStays
  BY <1>2, <1>3, <1>4 DEF StaffStays, Written, Changed, NewRole, Keep
<1>6. ASSUME u \in ActiveAdmins, u \notin ActiveAdmins'
      PROVE  LosingAdmin(req, copy)
               /\ \E mode \in {"update", "write"} : <<AccountRow(u), mode>> \in handlers[h].locks
  <2>1. users[u].role = "admin" /\ users[u].active = TRUE /\ users[u].deleted = FALSE
    BY <1>2, <1>6 DEF ActiveAdmins, Available, Rows
  <2>2. copy.role = "admin"
    BY <1>1, <1>2, <2>1 DEF AdminInv, Guarded, Judging, Roles, Targeted
  <2>3. users'[u].role # "admin" \/ users'[u].active # TRUE \/ users'[u].deleted # FALSE
    BY <1>2, <1>6 DEF ActiveAdmins, Available
  <2>4. NewRole(req, copy) # "admin" \/ SetActive(req.patch, copy) = FALSE
    <3>1. /\ users'[u].role = Changed(NewRole(req, copy), copy.role, users[u].role)
          /\ users'[u].deleted = users[u].deleted
      BY <1>4 DEF Written
    <3>2. users'[u].active = Changed(SetActive(req.patch, copy), copy.active, users[u].active)
      BY <1>4 DEF Written
    <3>3. copy.active \in BOOLEAN
      BY <1>1, AdministrationParts DEF BaseInv, Rows
    <3>4. SetActive(req.patch, copy) \in BOOLEAN
      BY <3>3 DEF SetActive
    <3>5. NewRole(req, copy) = "admin" => users'[u].role = "admin"
      BY <2>1, <2>2, <3>1 DEF Changed
    <3>6. SetActive(req.patch, copy) = TRUE => users'[u].active = TRUE
      BY <2>1, <3>2 DEF Changed
    <3>7. QED
      BY <2>1, <2>3, <3>1, <3>4, <3>5, <3>6
  <2>5. NewRole(req, copy) # "admin" \/ req.patch.active = "false"
    <3>1. CASE req.patch.active = "true"
      BY <2>4, <3>1 DEF SetActive
    <3>2. CASE req.patch.active = "false"
      BY <3>2
    <3>3. CASE req.patch.active = Keep
      <4>1. SetActive(req.patch, copy) = copy.active
        BY <3>3 DEF SetActive, Keep
      <4>2. Changed(SetActive(req.patch, copy), copy.active, users[u].active) = TRUE
        BY <2>1, <4>1 DEF Changed
      <4>3. users'[u].active = TRUE /\ users'[u].deleted = FALSE
        BY <1>4, <2>1, <4>2 DEF Written
      <4>4. users'[u].role # "admin"
        BY <2>3, <4>3
      <4>5. QED
        BY <1>4, <2>1, <2>2, <4>4 DEF Written, Changed
    <3>4. QED
      BY <1>2, <3>1, <3>2, <3>3
  <2>6. LosingAdmin(req, copy) /\ Sensitive(req, copy)
    BY <1>1, <2>2, <2>5 DEF LosingAdmin, Sensitive
  <2>7. QED
    BY <1>1, <2>6, TargetIsLocked
<1>7. OnlyItsOwn(h)
  BY <1>1, <1>4, <1>6 DEF OnlyItsOwn, ActiveAdmins, Available
<1>8. QED
  BY <1>5, <1>7

\* A DELETE takes away no administrator but its target.
LEMMA DeleteTakesItsOwn ==
  ASSUME BaseInv, AdminInv, NEW h \in Handlers, CommitDelete(h)
  PROVE  StaffStays /\ OnlyItsOwn(h)
<1> DEFINE copy == handlers[h].seen
           u == handlers[h].req.target
<1>1. /\ handlers[h].pc = "ready" /\ handlers[h].req.op = "DELETE" /\ Administering(h)
      /\ Running(h, "ready", {"UPDATE", "DELETE"}) /\ Missing(h) = {}
  BY DEF CommitDelete, Running, Administering, Commit
<1>2. u \in Users /\ copy.role \in Roles
  BY <1>1, ReadyParts
<1>3. /\ users'[u] = Deleted(copy, users[u])
      /\ \A v \in Users \ {u} : users'[v] = users[v]
  BY <1>1, CommitDeleteStep, CommitStep
<1>4. StaffStays
  BY <1>2, <1>3 DEF StaffStays, Deleted
<1>5. ASSUME u \in ActiveAdmins
      PROVE  LosingAdmin(handlers[h].req, copy)
               /\ \E mode \in {"update", "write"} : <<AccountRow(u), mode>> \in handlers[h].locks
  <2>1. copy.role = "admin"
    BY <1>1, <1>2, <1>5 DEF AdminInv, Guarded, Judging, Roles, ActiveAdmins, Targeted
  <2>2. LosingAdmin(handlers[h].req, copy) /\ Sensitive(handlers[h].req, copy)
    BY <1>1, <2>1 DEF LosingAdmin, Sensitive
  <2>3. QED
    BY <1>1, <2>2, TargetIsLocked
<1>6. OnlyItsOwn(h)
  BY <1>1, <1>3, <1>5 DEF OnlyItsOwn, ActiveAdmins, Available
<1>7. QED
  BY <1>4, <1>6

\* A POST takes away no administrator.
LEMMA CreateTakesNone ==
  ASSUME BaseInv, NEW h \in Handlers, CommitCreate(h)
  PROVE  StaffStays /\ OnlyItsOwn(h)
<1>1. PICK u \in Users : /\ \A v \in Users \ {u} : users'[v] = users[v]
                         /\ users[u] = NoAccount
  BY CommitCreateStep
<1>2. NoAccount.role = "none"
  BY DEF NoAccount
<1>3. QED
  BY <1>1, <1>2 DEF StaffStays, OnlyItsOwn, ActiveAdmins, Available

\* The seed command takes away no administrator.
LEMMA SeedTakesNone ==
  ASSUME BaseInv, NEW h \in Handlers, CommitSeed(h)
  PROVE  StaffStays /\ OnlyItsOwn(h)
<1>1. Seeded \in Users /\ users[Seeded] \in Rows /\ \A v \in Users \ {Seeded} : users'[v] = users[v]
  BY CommitSeedStep DEF BaseInv, TypeOK
<1>2. \/ users'[Seeded] = users[Seeded]
      \/ users[Seeded] = NoAccount
      \/ /\ users'[Seeded].role = users[Seeded].role
         /\ users'[Seeded].deleted = users[Seeded].deleted
         /\ users[Seeded].active = TRUE => users'[Seeded].active = TRUE
  <2>1. CASE /\ users'[Seeded] = Activated(handlers[h].seen, users[Seeded])
             /\ handlers[h].seen \in Rows
    <3>1. PICK copy \in Rows, row \in Rows :
            copy = handlers[h].seen /\ row = users[Seeded]
      BY <1>1, <2>1
    <3>2. /\ Activated(copy, row).role = row.role
          /\ Activated(copy, row).deleted = row.deleted
          /\ row.active = TRUE => Activated(copy, row).active = TRUE
      BY ActivatedRow
    <3>3. users'[Seeded] = Activated(copy, row)
      BY <2>1, <3>1
    <3>4. QED
      BY <3>1, <3>2, <3>3
  <2>2. QED
    BY <2>1, CommitSeedStep
<1>3. NoAccount.role = "none"
  BY DEF NoAccount
<1>4. StaffStays
  BY <1>1, <1>2, <1>3 DEF StaffStays
<1>5. Seeded \in ActiveAdmins => Seeded \in ActiveAdmins'
  BY <1>1, <1>2, <1>3 DEF ActiveAdmins, Available, Rows
<1>6. OnlyItsOwn(h)
  BY <1>1, <1>5 DEF OnlyItsOwn, ActiveAdmins, Available
<1>7. QED
  BY <1>4, <1>6

\* The administrators a request has locked stay: nobody else can take one away.
LEMMA KeptStay ==
  ASSUME BaseInv, NEW h \in Handlers, OnlyItsOwn(h), NEW g \in Handlers \ {h},
         NEW v \in Kept(g)
  PROVE  v \in ActiveAdmins'
<1>1. SUFFICES ASSUME v \notin ActiveAdmins' PROVE FALSE
  OBVIOUS
<1>2. v \in ActiveAdmins /\ <<AccountRow(v), "update">> \in handlers[g].locks
  BY DEF Kept
<1>3. PICK mode \in {"update", "write"} : <<AccountRow(v), mode>> \in handlers[h].locks
  BY <1>1, <1>2 DEF OnlyItsOwn
<1>4. Conflict(<<AccountRow(v), "update">>, <<AccountRow(v), mode>>)
  BY DEF Conflict
<1>5. QED
  BY <1>2, <1>3, <1>4 DEF BaseInv, Exclusive

LEMMA GuardStays ==
  ASSUME BaseInv, AdminInv, NEW h \in Handlers, StaffStays, OnlyItsOwn(h),
         NEW g \in Handlers \ {h}, handlers'[g] = handlers[g]
  PROVE  Guarded(g)'
<1>1. Guarded(g)
  BY DEF AdminInv
<1>2. Administering(g) => handlers[g].req.target \in Users
  BY AdministrationParts DEF BaseInv
<1>3. Kept(g) \subseteq Kept(g)'
  BY KeptStay DEF Kept
<1>4. handlers[g].pc \in Judging /\ handlers[g].req.op \in Targeted
        /\ handlers[g].seen.role = "staff"
        => users'[handlers[g].req.target].role = "staff"
  BY <1>1, <1>2 DEF Guarded, StaffStays, Administering, Judging
<1>5. QED
  BY <1>1, <1>3, <1>4 DEF Guarded

\* So a commit leaves one.
LEMMA AdminCommit ==
  ASSUME BaseInv, AdminInv, NEW h \in Handlers, StaffStays, OnlyItsOwn(h), Finish(h)
  PROVE  AdminInv'
<1>1. handlers'[h] = Idle /\ \A g \in Handlers \ {h} : handlers'[g] = handlers[g]
  BY FinishKeepsTypes DEF BaseInv
<1>2. Guarded(h)'
  BY <1>1 DEF Guarded, Idle, Judging
<1>3. SomeActiveAdmin'
  <2>1. CASE ActiveAdmins \subseteq ActiveAdmins'
    BY <2>1 DEF AdminInv, SomeActiveAdmin
  <2>2. CASE ~(ActiveAdmins \subseteq ActiveAdmins')
    <3>1. /\ handlers[h].pc = "ready" /\ Guarded(h)
          /\ LosingAdmin(handlers[h].req, handlers[h].seen)
      BY <2>2 DEF OnlyItsOwn, AdminInv
    <3>2. PICK v \in Kept(h) : v # handlers[h].req.target
      BY <3>1 DEF Guarded
    <3>3. v \in ActiveAdmins'
      BY <3>2 DEF OnlyItsOwn, Kept
    <3>4. QED
      BY <3>3 DEF SomeActiveAdmin
  <2>3. QED
    BY <2>1, <2>2
<1>4. \A g \in Handlers \ {h} : Guarded(g)'
  BY <1>1, GuardStays
<1>5. QED
  BY <1>2, <1>3, <1>4 DEF AdminInv

\* A step that leaves the accounts alone leaves the administrators alone.
LEMMA UsersUnchanged ==
  ASSUME BaseInv, NEW h \in Handlers, users' = users
  PROVE  StaffStays /\ OnlyItsOwn(h) /\ ActiveAdmins' = ActiveAdmins
BY DEF StaffStays, OnlyItsOwn, ActiveAdmins

\* A step that writes no account is about the slot it moves.
LEMMA AdminMove ==
  ASSUME BaseInv, AdminInv, NEW h \in Handlers, users' = users, Guarded(h)',
         \A g \in Handlers \ {h} : handlers'[g] = handlers[g]
  PROVE  AdminInv'
<1>1. StaffStays /\ OnlyItsOwn(h) /\ ActiveAdmins' = ActiveAdmins
  BY UsersUnchanged
<1>2. \A g \in Handlers \ {h} : Guarded(g)'
  BY <1>1, GuardStays
<1>3. QED
  BY <1>1, <1>2 DEF AdminInv, SomeActiveAdmin

\* AdminInv holds at first.
LEMMA AdminInit == Init => AdminInv
<1>1. SUFFICES ASSUME Init PROVE AdminInv
  OBVIOUS
<1>2. \A h \in Handlers : Guarded(h)
  BY <1>1 DEF Init, Guarded, Idle, Judging
<1>3. PICK u \in FirstAdmins : u \in Users
  BY AccountsAssumption
<1>4. users[u] = Account("admin")
  BY <1>1, <1>3 DEF Init
<1>5. u \in ActiveAdmins
  BY <1>3, <1>4 DEF ActiveAdmins, Account, Available
<1>6. QED
  BY <1>2, <1>5 DEF AdminInv, SomeActiveAdmin

\* More than one is at least two.
LEMMA TwoOfThem ==
  ASSUME NEW S, Cardinality(S) > 1
  PROVE  \E v, w \in S : v # w
<1>1. CASE S = {}
  BY <1>1, FS_EmptySet
<1>2. CASE S # {}
  <2>1. PICK v \in S : TRUE
    BY <1>2
  <2>2. CASE S = {v}
    <3>1. Cardinality({v}) = 1
      BY FS_Singleton
    <3>2. QED
      BY <2>2, <3>1
  <2>3. CASE S # {v}
    BY <2>1, <2>3
  <2>4. QED
    BY <2>2, <2>3
<1>3. QED
  BY <1>1, <1>2

\* Every step of a request under way keeps AdminInv.
LEMMA AdminAdvance ==
  ASSUME NoPromotions, BaseInv, AdminInv, NEW h \in Handlers, Advance(h)
  PROVE  AdminInv'
<1>1. CASE Acquire(h)
  <2>1. Guarded(h) /\ TypeOK
    BY DEF AdminInv, BaseInv
  <2>2. handlers[h].locks \subseteq handlers'[h].locks /\ users' = users
    BY <1>1, <2>1, AcquireStep
  <2>3. ActiveAdmins' = ActiveAdmins
    BY <2>2, UsersUnchanged
  <2>4. Administering(h) => Kept(h) \subseteq Kept(h)'
    BY <1>1, <2>1, <2>2, <2>3, AcquireStep DEF Kept
  <2>5. Guarded(h)'
    BY <1>1, <2>1, <2>2, <2>4, AcquireStep DEF Guarded, Judging, Administering
  <2>6. QED
    BY <1>1, <2>1, <2>2, <2>5, AcquireStep, AdminMove
<1>2. CASE \E x \in Tokens : CommitLogin(h, x)
  BY <1>2, UsersUnchanged, AdminCommit DEF CommitLogin
<1>3. CASE CommitLogout(h)
  BY <1>3, UsersUnchanged, AdminCommit DEF CommitLogout
<1>4. CASE ReadTarget(h)
  <2>1. TargetRow(h).role = "staff" => users[handlers[h].req.target].role = "staff"
    BY <1>4, ReadTargetStep DEF TargetRow, BaseInv, Known
  <2>2. /\ handlers'[h].pc \in {"losing", "checked"}
        /\ handlers'[h].pc = "checked" => ~LosingAdmin(handlers[h].req, TargetRow(h))
    BY <1>4, ReadTargetStep DEF Forward, Judged
  <2>3. Guarded(h)'
    BY <1>4, <2>1, <2>2, ReadTargetStep DEF Forward, Guarded
  <2>4. QED
    BY <1>4, <2>3, ReadTargetStep, AdminMove DEF Forward
<1>5. CASE ListAdmins(h)
  <2>1. Guarded(h)'
    BY <1>5, ListAdminsStep DEF AdminInv, Forward, Guarded, Judging
  <2>2. QED
    BY <1>5, <2>1, ListAdminsStep, AdminMove DEF Forward
<1>6. CASE CountAdmins(h)
  <2>1. PICK v, w \in Counted(h) : v # w
    BY <1>6, TwoOfThem DEF CountAdmins
  <2>2. users' = users /\ ActiveAdmins' = ActiveAdmins
    BY <1>6, CountAdminsStep, UsersUnchanged DEF Forward
  <2>3. v \in Kept(h)' /\ w \in Kept(h)'
    BY <1>6, <2>2, CountAdminsStep DEF Counted, Kept, Forward
  <2>4. Guarded(h)'
    BY <1>6, <2>1, <2>2, <2>3, CountAdminsStep DEF AdminInv, Forward, Guarded, Judging
  <2>5. QED
    BY <1>6, <2>4, CountAdminsStep, AdminMove DEF Forward
<1>7. CASE ListSessions(h)
  <2>1. users' = users /\ ActiveAdmins' = ActiveAdmins
    BY <1>7, ListSessionsStep, UsersUnchanged DEF Forward
  <2>2. Kept(h)' = Kept(h)
    BY <1>7, <2>1, ListSessionsStep DEF Kept, Forward
  <2>3. Guarded(h)'
    BY <1>7, <2>1, <2>2, ListSessionsStep DEF AdminInv, Forward, Guarded, Judging
  <2>4. QED
    BY <1>7, <2>3, ListSessionsStep, AdminMove DEF Forward
<1>8. CASE CommitUpdate(h)
  BY <1>8, UpdateTakesItsOwn, AdminCommit DEF CommitUpdate, Commit
<1>9. CASE CommitDelete(h)
  BY <1>9, DeleteTakesItsOwn, AdminCommit DEF CommitDelete, Commit
<1>10. CASE CommitRevoke(h)
  BY <1>10, UsersUnchanged, AdminCommit DEF CommitRevoke
<1>11. CASE InsertAccount(h)
  <2>1. Guarded(h)'
    BY <1>11, InsertAccountStep DEF Forward, Guarded, LosingAdmin, Targeted
  <2>2. QED
    BY <1>11, <2>1, InsertAccountStep, AdminMove DEF Forward
<1>12. CASE CommitCreate(h)
  BY <1>12, CreateTakesNone, AdminCommit DEF CommitCreate
<1>13. CASE CommitSeed(h)
  BY <1>13, SeedTakesNone, AdminCommit DEF CommitSeed
<1>14. CASE Ended(h)
  BY <1>14, EndedStep, UsersUnchanged, AdminCommit
<1>15. QED
  BY <1>1, <1>2, <1>3, <1>4, <1>5, <1>6, <1>7, <1>8, <1>9, <1>10, <1>11, <1>12, <1>13, <1>14
     DEF Advance, Ended

\* AdminInv is inductive where nobody is promoted.
LEMMA AdminStep == ASSUME NoPromotions PROVE BaseInv /\ AdminInv /\ [Next]_vars => AdminInv'
<1>1. SUFFICES ASSUME BaseInv, AdminInv, [Next]_vars PROVE AdminInv'
  OBVIOUS
<1>2. ASSUME NEW h \in Handlers, Begins(h), handlers'[h].pc \notin Judging PROVE AdminInv'
  <2>1. Guarded(h)'
    BY <1>2 DEF Guarded, Judging
  <2>2. QED
    BY <1>1, <1>2, <2>1, AdminMove DEF Begins
<1>3. ASSUME NEW h \in Handlers,
             \/ \E u \in Users : ReadCredentials(h, u)
             \/ \E x \in Tokens : BeginLogout(h, x)
             \/ \E x \in Tokens, req \in Requests : Authenticate(h, x, req)
             \/ \E rekeys \in BOOLEAN : BeginSeed(h, rekeys)
      PROVE  AdminInv'
  BY <1>1, <1>2, <1>3, ReadCredentialsStep, BeginLogoutStep, AuthenticateStep, BeginSeedStep
     DEF Judging
<1>4. ASSUME NEW h \in Handlers, Rollback(h) PROVE AdminInv'
  BY <1>1, <1>4, UsersUnchanged, AdminCommit DEF Rollback
<1>5. CASE UNCHANGED vars
  BY <1>1, <1>5 DEF vars, AdminInv, SomeActiveAdmin, ActiveAdmins, Guarded, Kept
<1>6. QED
  BY <1>1, <1>3, <1>4, <1>5, AdminAdvance DEF Next

\* However many requests demote, deactivate and delete administrators at once,
\* one of them stays: the rows the check counted are locked until its commit,
\* and a commit takes no administrator away whose row it has not locked.
THEOREM AnAdminRemains == ASSUME NoPromotions PROVE Spec => []SomeActiveAdmin
<1>1. AdminInv => SomeActiveAdmin
  BY DEF AdminInv
<1>2. QED
  BY <1>1, BaseInit, BaseStep, AdminInit, AdminStep, PTL DEF Spec

(***************************************************************************)
(* The versions of accounts and sessions.  Nothing is said of an account   *)
(* whose version was counted from an old copy.                             *)
(***************************************************************************)

\* An account starts with version 1 and every security change adds one.
Versioned(u) ==
  IF users[u].role = "none" THEN changes[u] = 0
  ELSE u \notin overwritten => users[u].auth_version = changes[u] + 1

\* A version given out after so many changes of an account that was available
\* then: an account that is not has left it behind.
Behind(version, after, u) ==
  /\ users[u].role \in Roles
  /\ version = after + 1
  /\ version <= users[u].auth_version
  /\ ~Available(users[u]) => version < users[u].auth_version

\* The version a login is about to give its session.
Current(h) ==
  handlers[h].pc = "login" /\ handlers[h].user \notin overwritten
    => Behind(handlers[h].seen.auth_version, handlers[h].opened_after, handlers[h].user)

Opened(x) ==
  sessions[x] # Unissued /\ sessions[x].user \notin overwritten
    => Behind(sessions[x].auth_version, sessions[x].opened_after, sessions[x].user)

VersionInv == /\ \A u \in Users : Versioned(u)
              /\ \A h \in Handlers : Current(h)
              /\ \A x \in Tokens : Opened(x)

\* What a step may do to an account: open it, leave its version while it stays
\* available, or make a security change.
Aged(u) ==
  IF users[u].role = "none"
  THEN changes'[u] = changes[u] /\ (users'[u].role = "none" \/ users'[u].auth_version = 1)
  ELSE \/ /\ users'[u].auth_version = users[u].auth_version
          /\ changes'[u] = changes[u]
          /\ Available(users[u]) => Available(users'[u])
       \/ /\ users'[u].auth_version = users[u].auth_version + 1
          /\ changes'[u] = changes[u] + 1

Ages == /\ overwritten \subseteq overwritten'
        /\ \A u \in Users : users[u].role = "none" \/ u \notin overwritten' => Aged(u)

\* The parts of an account's row.
LEMMA VersionTypes ==
  ASSUME TypeOK, NEW u \in Users
  PROVE  /\ users[u].auth_version \in Nat /\ changes[u] \in Nat
         /\ users[u].role \in Roles \cup {"none"}
         /\ users[u].active \in BOOLEAN /\ users[u].deleted \in BOOLEAN
BY DEF TypeOK, Rows

\* An account that aged is still one version ahead of its changes.
LEMMA VersionedStays ==
  ASSUME BaseInv, VersionInv, NEW h \in Handlers, AccountsStay(h), TypeOK', Ages, NEW u \in Users
  PROVE  Versioned(u)'
<1>1. Versioned(u)
  BY DEF VersionInv
<1>2. users[u].auth_version \in Nat /\ changes[u] \in Nat
      /\ users[u].role \in Roles \cup {"none"}
  BY VersionTypes DEF BaseInv
<1>3. CASE users[u].role = "none"
  BY <1>1, <1>2, <1>3 DEF Versioned, Ages, Aged
<1>4. CASE users[u].role \in Roles
  <2>1. users[u].role # "none" /\ users'[u].role # "none"
    BY <1>4 DEF AccountsStay, Roles
  <2>2. SUFFICES ASSUME u \notin overwritten'
                 PROVE  users'[u].auth_version = changes'[u] + 1
    BY <2>1 DEF Versioned
  <2>3. users[u].auth_version = changes[u] + 1
    BY <1>1, <2>1, <2>2 DEF Versioned, Ages
  <2>4. \/ users'[u].auth_version = users[u].auth_version /\ changes'[u] = changes[u]
        \/ users'[u].auth_version = users[u].auth_version + 1 /\ changes'[u] = changes[u] + 1
    BY <2>1, <2>2 DEF Ages, Aged
  <2>5. QED
    BY <1>2, <2>3, <2>4
<1>5. QED
  BY <1>2, <1>3, <1>4

\* A version that fits the changes before it fits them after a step too.
LEMMA BehindStays ==
  ASSUME BaseInv, NEW h \in Handlers, AccountsStay(h), NEW u \in Users, Aged(u),
         NEW version \in Nat, NEW after \in Nat, Behind(version, after, u)
  PROVE  /\ Behind(version, after, u)'
         /\ users[u].auth_version <= users'[u].auth_version
<1>1. users[u].auth_version \in Nat
  BY VersionTypes DEF BaseInv
<1>2. users[u].role \in Roles /\ users[u].role # "none" /\ users'[u].role \in Roles
  BY DEF Behind, AccountsStay, Roles
<1>3. version = after + 1 /\ version <= users[u].auth_version
  BY DEF Behind
<1>4. CASE /\ users'[u].auth_version = users[u].auth_version
           /\ Available(users[u]) => Available(users'[u])
  <2>1. ~Available(users'[u]) => version < users[u].auth_version
    BY <1>4 DEF Behind
  <2>2. users[u].auth_version <= users'[u].auth_version
    BY <1>1, <1>4
  <2>3. QED
    BY <1>2, <1>3, <1>4, <2>1, <2>2 DEF Behind
<1>5. CASE users'[u].auth_version = users[u].auth_version + 1
  <2>1. version < users'[u].auth_version /\ version <= users'[u].auth_version
        /\ users[u].auth_version <= users'[u].auth_version
    BY <1>1, <1>3, <1>5
  <2>2. QED
    BY <1>2, <1>3, <2>1 DEF Behind
<1>6. QED
  BY <1>2, <1>4, <1>5 DEF Aged

\* A login under way that does not move stays behind its account.
LEMMA CurrentStays ==
  ASSUME BaseInv, VersionInv, NEW h \in Handlers, AccountsStay(h), Ages,
         NEW g \in Handlers \ {h}, handlers'[g] = handlers[g]
  PROVE  Current(g)'
<1>1. SUFFICES ASSUME handlers[g].pc = "login", handlers[g].user \notin overwritten'
               PROVE  Behind(handlers[g].seen.auth_version, handlers[g].opened_after,
                             handlers[g].user)'
  BY DEF Current
<1>2. /\ handlers[g].user \in Users /\ handlers[g].seen.auth_version \in Nat
      /\ handlers[g].opened_after \in Nat
  BY <1>1, LoginParts DEF BaseInv
<1>3. /\ Behind(handlers[g].seen.auth_version, handlers[g].opened_after, handlers[g].user)
      /\ Aged(handlers[g].user)
  BY <1>1, <1>2 DEF VersionInv, Current, Ages
<1>4. \A n, m \in Nat, w \in Users : Aged(w) /\ Behind(n, m, w) => Behind(n, m, w)'
  BY BehindStays
<1>5. QED
  BY <1>2, <1>3, <1>4 DEF Behind

\* A session opened before a change stays behind its account.
LEMMA OpenedStays ==
  ASSUME BaseInv, VersionInv, NEW h \in Handlers, AccountsStay(h), SessionsStay, Ages,
         NEW x \in Tokens, sessions[x] # Unissued, sessions[x].user \notin overwritten'
  PROVE  /\ Opened(x)'
         /\ users[sessions[x].user].auth_version <= users'[sessions[x].user].auth_version
<1>1. /\ sessions[x].user \in Users /\ sessions[x].auth_version \in Nat
      /\ sessions[x].opened_after \in Nat
  BY IssuedParts DEF BaseInv
<1>2. /\ Behind(sessions[x].auth_version, sessions[x].opened_after, sessions[x].user)
      /\ Aged(sessions[x].user)
  BY <1>1 DEF VersionInv, Opened, Ages
<1>3. /\ sessions'[x].user = sessions[x].user
      /\ sessions'[x].auth_version = sessions[x].auth_version
      /\ sessions'[x].opened_after = sessions[x].opened_after
  BY DEF SessionsStay
<1>4. PICK u \in Users, n \in Nat, m \in Nat :
        u = sessions[x].user /\ n = sessions[x].auth_version /\ m = sessions[x].opened_after
  BY <1>1
<1>5. Behind(n, m, u)' /\ users[u].auth_version <= users'[u].auth_version
  BY <1>2, <1>4, BehindStays
<1>6. QED
  BY <1>3, <1>4, <1>5 DEF Opened, Behind

\* VersionInv after a step that ends its request and opens no session.
LEMMA VersionFinish ==
  ASSUME BaseInv, VersionInv, NEW h \in Handlers, TypeOK', AccountsStay(h), SessionsStay,
         NoneOpened, Ages, Finish(h)
  PROVE  VersionInv'
<1>1. handlers'[h] = Idle /\ \A g \in Handlers \ {h} : handlers'[g] = handlers[g]
  BY FinishKeepsTypes DEF BaseInv
<1>2. Current(h)'
  BY <1>1 DEF Current, Idle
<1>3. \A g \in Handlers \ {h} : Current(g)'
  BY <1>1, CurrentStays
<1>4. \A u \in Users : Versioned(u)'
  BY VersionedStays
<1>5. ASSUME NEW x \in Tokens PROVE Opened(x)'
  <2>1. CASE sessions'[x] = Unissued
    BY <2>1 DEF Opened
  <2>2. CASE sessions'[x] # Unissued /\ sessions[x].user \in overwritten'
    BY <2>2 DEF Opened, NoneOpened, SessionsStay
  <2>3. CASE sessions'[x] # Unissued /\ sessions[x].user \notin overwritten'
    BY <2>3, OpenedStays DEF NoneOpened
  <2>4. QED
    BY <2>1, <2>2, <2>3
<1>6. QED
  BY <1>2, <1>3, <1>4, <1>5 DEF VersionInv

\* Where nothing is written, nothing ages.
LEMMA NothingAges ==
  ASSUME UNCHANGED <<users, changes, overwritten>>
  PROVE  Ages
BY DEF Ages, Aged

\* VersionInv after a step that writes nothing.
LEMMA VersionMove ==
  ASSUME BaseInv, VersionInv, NEW h \in Handlers,
         UNCHANGED <<users, sessions, changes, overwritten>>,
         \A g \in Handlers \ {h} : handlers'[g] = handlers[g], Current(h)'
  PROVE  VersionInv'
<1>1. AccountsStay(h) /\ Ages
  BY NothingWritten, NothingAges
<1>2. \A g \in Handlers \ {h} : Current(g)'
  BY <1>1, CurrentStays
<1>3. (\A u \in Users : Versioned(u)') /\ (\A x \in Tokens : Opened(x)')
  BY DEF VersionInv, Versioned, Opened, Behind
<1>4. QED
  BY <1>2, <1>3 DEF VersionInv

\* A commit that does not count is one that leaves the account available.
LEMMA UpdateLeavesAvailable ==
  ASSUME NEW req, req.op = "UPDATE", req.patch.active \in {"true", "false", Keep},
         NEW copy \in Rows, NEW row \in Rows, ~Sensitive(req, copy), Available(row)
  PROVE  Available(Written(req, copy, row))
<1>1. row.active = TRUE /\ row.deleted = FALSE
  BY DEF Available, Rows
<1>2. req.patch.active \in {"true", Keep}
  BY DEF Sensitive
<1>3. Changed(SetActive(req.patch, copy), copy.active, row.active) = TRUE
  <2>1. CASE req.patch.active = "true"
    <3>1. SetActive(req.patch, copy) = TRUE
      BY <2>1 DEF SetActive
    <3>2. QED
      BY <1>1, <3>1 DEF Changed
  <2>2. CASE req.patch.active = Keep
    <3>1. SetActive(req.patch, copy) = copy.active
      BY <2>2 DEF SetActive, Keep
    <3>2. QED
      BY <1>1, <3>1 DEF Changed
  <2>3. QED
    BY <1>2, <2>1, <2>2
<1>4. Written(req, copy, row).active = TRUE /\ Written(req, copy, row).deleted = FALSE
  BY <1>1, <1>3 DEF Written
<1>5. QED
  BY <1>4 DEF Available

\* A PUT or a DELETE counts from the copy, and the account is left out when the
\* copy's version was not its own.
LEMMA CommitAges ==
  ASSUME BaseInv, NEW h \in Handlers, CommitUpdate(h) \/ CommitDelete(h)
  PROVE  Ages
<1> DEFINE req == handlers[h].req
           copy == handlers[h].seen
           u == req.target
<1>1. PICK row \in Rows :
        /\ row.role \in Roles /\ Commit(h, row)
        /\ Running(h, "ready", {"UPDATE", "DELETE"})
        /\ \/ req.op = "UPDATE" /\ row = Written(req, copy, users[u])
           \/ req.op = "DELETE" /\ row = Deleted(copy, users[u])
  BY CommitUpdateStep, CommitDeleteStep DEF CommitUpdate, CommitDelete, Running
<1>2. /\ u \in Users /\ users[u] \in Rows /\ users[u].role \in Roles /\ copy \in Rows
      /\ req.patch.active \in {"true", "false", Keep}
  BY <1>1, ReadyParts
<1>3. /\ users'[u] = row /\ overwritten \subseteq overwritten'
      /\ \A v \in Users \ {u} : users'[v] = users[v] /\ changes'[v] = changes[v]
  BY <1>1, CommitStep
<1>4. ASSUME NEW v \in Users \ {u} PROVE Aged(v)
  BY <1>3, <1>4 DEF Aged
<1>5. ASSUME u \notin overwritten' PROVE Aged(u)
  <2>1. users[u].role # "none"
    BY <1>2 DEF Roles
  <2>2. CASE Sensitive(req, copy)
    <3>1. copy.auth_version = users[u].auth_version
      BY <1>1, <1>2, <1>5, <2>2 DEF Commit
    <3>2. changes'[u] = changes[u] + 1
      BY <1>1, <1>2, <2>2 DEF Commit, BaseInv, TypeOK
    <3>3. row.auth_version = copy.auth_version + 1
      <4>1. CASE row = Written(req, copy, users[u])
        <5>1. Written(req, copy, users[u]).auth_version
                = IF Sensitive(req, copy) THEN copy.auth_version + 1 ELSE users[u].auth_version
          BY DEF Written
        <5>2. QED
          BY <2>2, <4>1, <5>1
      <4>2. CASE row = Deleted(copy, users[u])
        BY <4>2 DEF Deleted
      <4>3. QED
        BY <1>1, <4>1, <4>2
    <3>4. QED
      BY <1>3, <2>1, <3>1, <3>2, <3>3 DEF Aged
  <2>3. CASE ~Sensitive(req, copy)
    <3>1. req.op = "UPDATE" /\ row = Written(req, copy, users[u])
      BY <1>1, <2>3 DEF Sensitive
    <3>2. changes'[u] = changes[u]
      BY <1>1, <1>2, <2>3 DEF Commit, BaseInv, TypeOK
    <3>3. row.auth_version = users[u].auth_version
      BY <2>3, <3>1 DEF Written
    <3>4. Available(users[u]) => Available(row)
      BY <1>2, <2>3, <3>1, UpdateLeavesAvailable
    <3>5. QED
      BY <1>3, <2>1, <3>2, <3>3, <3>4 DEF Aged
  <2>4. QED
    BY <2>2, <2>3
<1>6. users[u].role # "none"
  BY <1>2 DEF Roles
<1>7. QED
  BY <1>3, <1>4, <1>5, <1>6 DEF Ages

\* A POST opens an account with version 1.
LEMMA CreateAges ==
  ASSUME BaseInv, NEW h \in Handlers, CommitCreate(h)
  PROVE  Ages
<1>1. PICK u \in Users, role \in Roles :
        /\ users[u] = NoAccount /\ users'[u] = Account(role)
        /\ \A v \in Users \ {u} : users'[v] = users[v]
  BY CommitCreateStep
<1>2. UNCHANGED <<changes, overwritten>>
  BY CommitCreateStep DEF history
<1>3. users[u].role = "none" /\ users'[u].auth_version = 1
  BY <1>1, NewAccount DEF NoAccount
<1>4. QED
  BY <1>1, <1>2, <1>3 DEF Ages, Aged

\* The seed command opens an account with version 1 or makes one available.
LEMMA SeedAges ==
  ASSUME BaseInv, NEW h \in Handlers, CommitSeed(h)
  PROVE  Ages
<1>1. /\ Seeded \in Users /\ users[Seeded] \in Rows
      /\ \A v \in Users \ {Seeded} : users'[v] = users[v]
      /\ UNCHANGED <<changes, overwritten>>
  BY CommitSeedStep DEF BaseInv, TypeOK
<1>2. CASE users'[Seeded] = users[Seeded]
  BY <1>1, <1>2 DEF Ages, Aged
<1>3. CASE users[Seeded] = NoAccount /\ users'[Seeded] = Account("admin")
  <2>1. users[Seeded].role = "none" /\ users'[Seeded].auth_version = 1
    BY <1>3 DEF NoAccount, Account
  <2>2. QED
    BY <1>1, <2>1 DEF Ages, Aged
<1>4. CASE /\ users[Seeded].role \in Roles /\ handlers[h].seen \in Rows
           /\ users'[Seeded] = Activated(handlers[h].seen, users[Seeded])
  <2>1. PICK copy \in Rows, row \in Rows :
          copy = handlers[h].seen /\ row = users[Seeded]
    BY <1>1, <1>4
  <2>2. /\ Activated(copy, row).deleted = row.deleted
        /\ Activated(copy, row).auth_version = row.auth_version
        /\ row.active = TRUE => Activated(copy, row).active = TRUE
    BY ActivatedRow
  <2>3. users'[Seeded] = Activated(copy, row)
    BY <1>4, <2>1
  <2>4. row.active \in BOOLEAN /\ row.deleted \in BOOLEAN
    BY DEF Rows
  <2>5. Available(users[Seeded]) => Available(users'[Seeded])
    BY <2>1, <2>2, <2>3, <2>4 DEF Available
  <2>6. users[Seeded].role # "none" /\ users'[Seeded].auth_version = users[Seeded].auth_version
    BY <1>4, <2>1, <2>2, <2>3 DEF Roles
  <2>7. QED
    BY <1>1, <2>5, <2>6 DEF Ages, Aged
<1>5. QED
  BY <1>2, <1>3, <1>4, CommitSeedStep

\* VersionInv holds at first.
LEMMA VersionInit == Init => VersionInv
<1>1. SUFFICES ASSUME Init PROVE VersionInv
  OBVIOUS
<1>2. \A h \in Handlers : Current(h)
  BY <1>1 DEF Init, Idle, Current
<1>3. \A u \in Users : Versioned(u)
  <2>1. \A role \in Roles : Account(role).role # "none" /\ Account(role).auth_version = 1
    BY DEF Account, Roles
  <2>2. NoAccount.role = "none"
    BY DEF NoAccount
  <2>3. QED
    BY <1>1, <2>1, <2>2 DEF Init, Versioned, Roles
<1>4. \A x \in Tokens : Opened(x)
  BY <1>1 DEF Init, Opened
<1>5. QED
  BY <1>2, <1>3, <1>4 DEF VersionInv

\* A login that commits opens a session with the version it read.
LEMMA LoginVersions ==
  ASSUME BaseInv, VersionInv, NEW h \in Handlers, NEW x \in Tokens, CommitLogin(h, x)
  PROVE  VersionInv'
<1> DEFINE v == handlers[h].seen.auth_version
           a == handlers[h].opened_after
           u == handlers[h].user
<1>1. u \in Users /\ v \in Nat /\ a \in Nat /\ (u \notin overwritten => Behind(v, a, u))
  BY LoginParts DEF CommitLogin, BaseInv, VersionInv, Current
<1>2. UNCHANGED <<users, changes, overwritten>>
  BY DEF CommitLogin, history
<1>3. AccountsStay(h) /\ SessionsStay /\ Ages
  BY <1>2, CommitLoginStep, NothingAges
<1>4. handlers'[h] = Idle /\ \A g \in Handlers \ {h} : handlers'[g] = handlers[g]
  BY FinishKeepsTypes DEF CommitLogin, BaseInv
<1>5. \A g \in Handlers \ {h} : Current(g)'
  BY <1>3, <1>4, CurrentStays
<1>6. Current(h)'
  BY <1>4 DEF Current, Idle
<1>7. \A w \in Users : Versioned(w)'
  BY <1>3, CommitLoginStep, VersionedStays
<1>8. \A y \in Tokens \ {x} : Opened(y)'
  <2>1. \A y \in Tokens \ {x} : sessions'[y] = sessions[y]
    BY DEF CommitLogin, BaseInv, TypeOK
  <2>2. QED
    BY <1>2, <2>1 DEF VersionInv, Opened, Behind
<1>9. Opened(x)'
  <2>1. /\ sessions'[x].user = u
        /\ sessions'[x].auth_version = v
        /\ sessions'[x].opened_after = a
    BY DEF CommitLogin, BaseInv, TypeOK
  <2>2. QED
    BY <1>1, <1>2, <2>1 DEF Opened, Behind
<1>10. QED
  BY <1>5, <1>6, <1>7, <1>8, <1>9 DEF VersionInv

\* Every step of a request under way keeps VersionInv.
LEMMA VersionAdvance ==
  ASSUME BaseInv, VersionInv, NEW h \in Handlers, Advance(h)
  PROVE  VersionInv'
<1>1. CASE Acquire(h)
  <2>1. UNCHANGED <<users, sessions, changes, overwritten>>
    BY <1>1, AcquireStep DEF BaseInv, history
  <2>2. Current(h)'
    BY <1>1, <2>1, AcquireStep DEF BaseInv, VersionInv, Current, Behind
  <2>3. QED
    BY <1>1, <2>1, <2>2, AcquireStep, VersionMove DEF BaseInv
<1>2. CASE \E x \in Tokens : CommitLogin(h, x)
  BY <1>2, LoginVersions
<1>3. CASE CommitLogout(h)
  BY <1>3, CommitLogoutStep, NothingAges, VersionFinish DEF CommitLogout, history
<1>4. CASE \E pc \in Judging : Forward(h, pc)
  <2>1. /\ UNCHANGED <<users, sessions, changes, overwritten>>
        /\ \A g \in Handlers \ {h} : handlers'[g] = handlers[g]
        /\ handlers'[h].pc \in Judging
    BY <1>4 DEF Forward, history
  <2>2. Current(h)'
    BY <2>1 DEF Current, Judging
  <2>3. QED
    BY <2>1, <2>2, VersionMove
<1>5. CASE ReadTarget(h)
  BY <1>4, <1>5, ReadTargetStep DEF Judged, Judging
<1>6. CASE ListAdmins(h) \/ CountAdmins(h) \/ ListSessions(h) \/ InsertAccount(h)
  BY <1>4, <1>6, ListAdminsStep, CountAdminsStep, ListSessionsStep, InsertAccountStep
     DEF Judging
<1>7. CASE CommitUpdate(h) \/ CommitDelete(h)
  BY <1>7, CommitUpdateStep, CommitDeleteStep, CommitStep, CommitAges, VersionFinish
<1>8. CASE CommitRevoke(h)
  BY <1>8, CommitRevokeStep, NothingAges, VersionFinish DEF CommitRevoke, history
<1>9. CASE CommitCreate(h)
  BY <1>9, CommitCreateStep, CreateAges, VersionFinish
<1>10. CASE CommitSeed(h)
  BY <1>10, CommitSeedStep, SeedAges, VersionFinish
<1>11. CASE Ended(h)
  BY <1>11, EndedStep, NothingAges, VersionFinish DEF history
<1>12. QED
  BY <1>1, <1>2, <1>3, <1>5, <1>6, <1>7, <1>8, <1>9, <1>10, <1>11 DEF Advance, Ended

\* VersionInv is inductive.
LEMMA VersionStep == BaseInv /\ VersionInv /\ [Next]_vars => VersionInv'
<1>1. SUFFICES ASSUME BaseInv, VersionInv, [Next]_vars PROVE VersionInv'
  OBVIOUS
<1>2. ASSUME NEW h \in Handlers, Begins(h), Current(h)' PROVE VersionInv'
  BY <1>1, <1>2, VersionMove DEF Begins, history
<1>3. ASSUME NEW h \in Handlers, NEW u \in Users, ReadCredentials(h, u) PROVE VersionInv'
  <2>1. Available(users[u]) /\ UNCHANGED <<users, overwritten>>
    BY <1>3 DEF ReadCredentials, history
  <2>2. users[u].role \in Roles
    <3>1. ~NoAccount.active
      BY DEF NoAccount
    <3>2. users[u] # NoAccount
      BY <2>1, <3>1 DEF Available
    <3>3. QED
      BY <1>1, <3>2, VersionTypes DEF BaseInv, Upright
  <2>3. /\ users[u].auth_version \in Nat
        /\ u \notin overwritten => users[u].auth_version = changes[u] + 1
    BY <1>1, <2>2, VersionTypes DEF BaseInv, VersionInv, Versioned, Roles
  <2>4. u \notin overwritten => Behind(users[u].auth_version, changes[u], u)
    <3>1. users[u].auth_version <= users[u].auth_version
      BY <2>3
    <3>2. QED
      BY <2>1, <2>2, <2>3, <3>1 DEF Behind
  <2>5. Current(h)'
    BY <1>1, <1>3, <2>1, <2>4, ReadCredentialsStep DEF Current, Behind
  <2>6. QED
    BY <1>1, <1>2, <1>3, <2>5, ReadCredentialsStep
<1>4. ASSUME NEW h \in Handlers, Begins(h), handlers'[h].pc # "login" PROVE VersionInv'
  BY <1>2, <1>4 DEF Current
<1>5. ASSUME NEW h \in Handlers,
             \/ \E x \in Tokens : BeginLogout(h, x)
             \/ \E x \in Tokens, req \in Requests : Authenticate(h, x, req)
             \/ \E rekeys \in BOOLEAN : BeginSeed(h, rekeys)
      PROVE  VersionInv'
  BY <1>1, <1>4, <1>5, BeginLogoutStep, AuthenticateStep, BeginSeedStep
<1>6. ASSUME NEW h \in Handlers, Rollback(h) PROVE VersionInv'
  BY <1>1, <1>6, EndedStep, NothingAges, VersionFinish DEF Ended, history
<1>7. CASE UNCHANGED vars
  BY <1>1, <1>7 DEF vars, history, VersionInv, Versioned, Current, Opened, Behind
<1>8. QED
  BY <1>1, <1>3, <1>5, <1>6, <1>7, VersionAdvance DEF Next

\* What every step does to accounts and sessions.
LEMMA StepAges ==
  ASSUME BaseInv, Next
  PROVE  \E h \in Handlers : AccountsStay(h) /\ SessionsStay /\ Ages
<1>1. PICK h \in Handlers : \/ \E u \in Users : ReadCredentials(h, u)
                            \/ \E x \in Tokens : BeginLogout(h, x)
                            \/ \E x \in Tokens, req \in Requests : Authenticate(h, x, req)
                            \/ \E rekeys \in BOOLEAN : BeginSeed(h, rekeys)
                            \/ Advance(h)
                            \/ Rollback(h)
  BY DEF Next
<1>2. CASE UNCHANGED <<users, sessions, changes, overwritten>>
  BY <1>2, NothingWritten, NothingAges
<1>3. CASE (\E x \in Tokens : CommitLogin(h, x)) \/ CommitLogout(h) \/ CommitRevoke(h)
  <2>1. UNCHANGED <<users, changes, overwritten>>
    BY <1>3 DEF CommitLogin, CommitLogout, CommitRevoke, history
  <2>2. QED
    BY <1>3, <2>1, CommitLoginStep, CommitLogoutStep, CommitRevokeStep, NothingAges
<1>4. CASE CommitUpdate(h) \/ CommitDelete(h)
  BY <1>4, CommitUpdateStep, CommitDeleteStep, CommitStep, CommitAges
<1>5. CASE CommitCreate(h)
  BY <1>5, CommitCreateStep, CreateAges
<1>6. CASE CommitSeed(h)
  BY <1>6, CommitSeedStep, SeedAges
<1>7. CASE /\ ~ \E x \in Tokens : CommitLogin(h, x)
           /\ ~CommitLogout(h) /\ ~CommitRevoke(h) /\ ~CommitUpdate(h) /\ ~CommitDelete(h)
           /\ ~CommitCreate(h) /\ ~CommitSeed(h)
  <2>1. UNCHANGED <<users, sessions, changes, overwritten>>
    BY <1>1, <1>7 DEF ReadCredentials, BeginLogout, Authenticate, BeginSeed, Advance, Rollback,
                      Acquire, ReadTarget, RefuseTarget, ListAdmins, CountAdmins,
                      RefuseLastAdmin, ListSessions, InsertAccount, RefuseTaken, BreakDeadlock,
                      Proceed, history
  <2>2. QED
    BY <2>1, <1>2
<1>8. QED
  BY <1>3, <1>4, <1>5, <1>6, <1>7

\* An accepted session has its account's version, hence no change after it.
LEMMA AcceptedIsFresh == BaseInv /\ VersionInv => RequestsEndSessions
<1>1. SUFFICES ASSUME BaseInv, VersionInv, NEW x \in Tokens, sessions[x] # Unissued, Usable(x),
                      sessions[x].user \notin overwritten
               PROVE  sessions[x].opened_after = changes[sessions[x].user]
  BY DEF RequestsEndSessions
<1>2. /\ sessions[x].user \in Users /\ sessions[x].auth_version \in Nat
      /\ sessions[x].opened_after \in Nat
  BY <1>1, IssuedParts DEF BaseInv
<1>3. sessions[x].auth_version = sessions[x].opened_after + 1
      /\ users[sessions[x].user].role \in Roles
  BY <1>1 DEF VersionInv, Opened, Behind
<1>4. users[sessions[x].user].auth_version = changes[sessions[x].user] + 1
  BY <1>1, <1>2, <1>3 DEF VersionInv, Versioned, Roles
<1>5. sessions[x].auth_version = users[sessions[x].user].auth_version
  BY <1>1 DEF Usable
<1>6. changes[sessions[x].user] \in Nat
  BY <1>1, <1>2, VersionTypes DEF BaseInv
<1>7. QED
  BY <1>2, <1>3, <1>4, <1>5, <1>6

\* No step makes a session accepted that was not.
LEMMA DeadIsDead ==
  ASSUME BaseInv, VersionInv, Next, NEW x \in Tokens, sessions[x] # Unissued, ~Usable(x),
         sessions[x].user \notin overwritten'
  PROVE  ~Usable(x)'
<1> DEFINE u == sessions[x].user
<1>1. /\ u \in Users /\ sessions[x].auth_version \in Nat
      /\ sessions[x].state \in {"open", "revoked"}
  BY IssuedParts DEF BaseInv
<1>2. PICK h \in Handlers : AccountsStay(h) /\ SessionsStay /\ Ages
  BY StepAges
<1>3. /\ sessions'[x].user = u
      /\ sessions'[x].auth_version = sessions[x].auth_version
      /\ sessions'[x].state \in {sessions[x].state, "revoked"}
  BY <1>2 DEF SessionsStay
<1>4. CASE sessions[x].state = "revoked"
  BY <1>3, <1>4 DEF Usable
<1>5. CASE sessions[x].state = "open"
  <2>1. u \notin overwritten
    BY <1>2 DEF Ages
  <2>2. /\ sessions[x].auth_version <= users[u].auth_version
        /\ ~Available(users[u]) => sessions[x].auth_version < users[u].auth_version
    BY <2>1 DEF VersionInv, Opened, Behind
  <2>3. users[u].auth_version \in Nat
    BY <1>1, VersionTypes DEF BaseInv
  <2>4. ~Available(users[u]) \/ sessions[x].auth_version # users[u].auth_version
    BY <1>5 DEF Usable
  <2>5. sessions[x].auth_version < users[u].auth_version
    <3>1. CASE ~Available(users[u])
      BY <2>2, <3>1
    <3>2. CASE sessions[x].auth_version # users[u].auth_version
      BY <1>1, <2>2, <2>3, <3>2
    <3>3. QED
      BY <2>4, <3>1, <3>2
  <2>6. users[u].auth_version <= users'[u].auth_version
    BY <1>2, OpenedStays
  <2>7. users'[u].auth_version \in Nat
    BY <1>1, BaseStep, VersionTypes DEF BaseInv, TypeOK, Rows
  <2>8. sessions[x].auth_version # users'[u].auth_version
    BY <1>1, <2>3, <2>5, <2>6, <2>7
  <2>9. QED
    BY <1>3, <2>8 DEF Usable
<1>6. QED
  BY <1>1, <1>4, <1>5

\* An accepted session was opened with credentials read after the last password,
\* role or state change that a request made to its account, although the version
\* its login copied may be that of an earlier read, and no lock covers both: the
\* only way round it is a version counted from an old copy.
THEOREM SessionsEnd == Spec => []RequestsEndSessions
BY BaseInit, BaseStep, VersionInit, VersionStep, AcceptedIsFresh, PTL DEF Spec

\* With the same exception, a session that stopped being accepted stays dead,
\* also when an administrator or the seed command reactivates its account.
THEOREM DeadStayDead == Spec => DeadSessionsStayDead
<1>1. BaseInv /\ VersionInv /\ [Next]_vars
        => [\A x \in Tokens : sessions[x] # Unissued /\ ~Usable(x)
                                /\ sessions[x].user \notin overwritten' => ~Usable(x)']_vars
  BY DeadIsDead
<1>2. QED
  BY <1>1, BaseInit, BaseStep, VersionInit, VersionStep, PTL
     DEF Spec, DeadSessionsStayDead
=============================================================================
