------------------------------ MODULE RequestAudit ------------------------------
(***************************************************************************)
(* What the API records of a request and what it answers: audit_events,    *)
(* auth_events and the limit on failed logins.                             *)
(*                                                                         *)
(* A change and its SUCCESS row are one transaction; an audited read is    *)
(* answered only when its row is stored (app/services/audit.py).  A        *)
(* refused request is rolled back and the middleware of app/main.py is to  *)
(* write a FAILED or DENIED row in a transaction of its own, for which it  *)
(* reads the current user.  An exception nobody handles passes the         *)
(* middleware by.  A login counts the failures of the last minutes and     *)
(* commits its own later (app/services/auth.py).                           *)
(*                                                                         *)
(* What a request changes is the subject of the other modules: here a      *)
(* change is only committed or not.                                        *)
(***************************************************************************)
EXTENDS Naturals, FiniteSets

CONSTANTS
  Logins,      \* POST /auth/login requests
  Others,      \* the other requests
  Workers,     \* bound: requests in progress at the same time
  Identities,  \* normalized user names
  Addresses,   \* client addresses
  Limit,       \* LOGIN_RATE_LIMIT_ATTEMPTS
  Window,      \* LOGIN_RATE_LIMIT_MINUTES
  MaxTime      \* bound: the last moment

Requests == Logins \cup Others

\* Changes of products and stock, changes of accounts and roles, audited reads,
\* reads of accounts and roles, of the audit trail, and the end of a session.
Kinds == {"write", "administer", "read", "view", "inspect", "logout"}

\* Paths with /auth/, /users, /roles or /permissions in them.
OfSecurity == {"administer", "view", "logout", "login"}

ASSUME AuditAssumption ==
  /\ IsFiniteSet(Logins) /\ IsFiniteSet(Others) /\ Logins \cap Others = {}
  /\ Workers \in Nat \ {0} /\ Limit \in Nat \ {0, 1}
  /\ Window \in Nat \ {0} /\ MaxTime \in Nat

VARIABLES
  requests,      \* what each request has come to
  guesses,       \* what each login read before it judged
  changed,       \* the requests whose change is committed
  audit_events,  \* committed rows
  auth_events,   \* committed rows
  unrecorded,    \* history: refusals whose row the database did not take
  clock

vars == <<requests, guesses, changed, audit_events, auth_events, unrecorded, clock>>

Waiting == [pc |-> "waiting"]
NoGuess == [pc |-> "none"]

Phases == {"begun", "counted", "working", "committed", "answered", "done", "failed"}
Statuses == {0, 200, 401, 403, 409, 422, 429, 503}

\* actor is the middleware's copy of the current user: none, readable, or
\* expired by the rollback of a session that is closed.
Started == [pc : Phases, kind : Kinds \cup {"login"},
            actor : {"none", "readable", "expired"}, status : Statuses]

Guess == [identity : Identities, address : Addresses, at : 0 .. MaxTime, attempts : Nat]

AuditRow == [request : Requests, outcome : {"SUCCESS", "FAILED", "DENIED"},
             category : {"SECURITY", "OPERATION"}]

\* occurred_at is the start of the transaction: the moment of the count.
AuthRow == [request : Logins, reason : {"NONE", "RATE_LIMITED", "REFUSED"},
            identity : Identities, address : Addresses, at : 0 .. MaxTime]

TypeOK == /\ requests \in [Requests -> {Waiting} \cup Started]
          /\ guesses \in [Logins -> {NoGuess} \cup Guess]
          /\ changed \subseteq Others
          /\ audit_events \subseteq AuditRow /\ auth_events \subseteq AuthRow
          /\ unrecorded \subseteq Requests
          /\ clock \in 0 .. MaxTime

Init == /\ requests = [r \in Requests |-> Waiting]
        /\ guesses = [r \in Logins |-> NoGuess]
        /\ changed = {} /\ audit_events = {} /\ auth_events = {}
        /\ unrecorded = {}
        /\ clock = 0

Ended == {"waiting", "done", "failed"}
InProgress == {r \in Requests : requests[r].pc \notin Ended}

In(r, pc) == requests[r].pc = pc

Begin(r, kind) ==
  /\ In(r, "waiting") /\ Cardinality(InProgress) < Workers
  /\ requests' = [requests EXCEPT ![r] =
       [pc |-> "begun", kind |-> kind, actor |-> "none", status |-> 0]]
  /\ UNCHANGED <<guesses, changed, audit_events, auth_events, unrecorded, clock>>

Move(r, pc, actor, status) ==
  requests' = [requests EXCEPT ![r] =
    [pc |-> pc, kind |-> requests[r].kind, actor |-> actor, status |-> status]]

Go(r, pc) == Move(r, pc, requests[r].actor, requests[r].status)
Answer(r, status, actor) == Move(r, "answered", actor, status)

\* Mutant of Stored: the category is not set, as in the rows older than it.
StoredUncategorised(r, outcome, category) ==
  [request |-> r, outcome |-> outcome, category |-> "NONE"]

Stored(r, outcome, category) == [request |-> r, outcome |-> outcome, category |-> category]

(***************************************************************************)
(* get_current_user, the permission, and the handler.                      *)
(***************************************************************************)
SignIn(r) ==
  /\ In(r, "begun") /\ requests[r].kind # "login"
  /\ Move(r, "working", "readable", requests[r].status)
  /\ UNCHANGED <<guesses, changed, audit_events, auth_events, unrecorded, clock>>

\* AUTHENTICATION_REQUIRED, or a login body that is not valid.
RefuseStranger(r) ==
  /\ In(r, "begun")
  /\ Answer(r, IF requests[r].kind = "login" THEN 422 ELSE 401, "none")
  /\ UNCHANGED <<guesses, changed, audit_events, auth_events, unrecorded, clock>>

\* Mutant of Refuse: get_db commits what the request did so far.
RefuseCommitted(r, status) ==
  /\ In(r, "working")
  /\ Answer(r, status, "expired")
  /\ audit_events' = audit_events \cup {Stored(r, "SUCCESS", "OPERATION")}
  /\ UNCHANGED <<guesses, changed, auth_events, unrecorded, clock>>

\* An AppError: get_db rolls the session back and closes it, and with that every
\* object it holds, the current user included, can no longer be read.
Refuse(r, status) ==
  /\ In(r, "working")
  /\ Answer(r, status, "expired")
  /\ UNCHANGED <<guesses, changed, audit_events, auth_events, unrecorded, clock>>

\* A body that is not valid: whether FastAPI raises inside or outside of the
\* dependencies, and get_db rolls back or only closes, depends on its version.
RefuseInput(r, actor) ==
  /\ In(r, "working")
  /\ Answer(r, 422, actor)
  /\ UNCHANGED <<guesses, changed, audit_events, auth_events, unrecorded, clock>>

SuccessCategory(kind) == IF kind \in OfSecurity THEN "SECURITY" ELSE "OPERATION"

\* The change and its row; a logout writes its row to auth_events.  The answer
\* to the commit may be lost.
CommitChange(r) ==
  /\ In(r, "working") /\ requests[r].kind \in {"write", "administer", "logout"}
  /\ changed' = changed \cup {r}
  /\ audit_events' = audit_events \cup
       (IF requests[r].kind = "logout" THEN {}
        ELSE {Stored(r, "SUCCESS", SuccessCategory(requests[r].kind))})
  /\ Go(r, "committed") \/ Go(r, "failed")
  /\ UNCHANGED <<guesses, auth_events, unrecorded, clock>>

\* record_read, or its commit whose answer is lost: AUDIT_UNAVAILABLE.
CommitRead(r) ==
  /\ In(r, "working") /\ requests[r].kind = "read"
  /\ audit_events' = audit_events \cup {Stored(r, "SUCCESS", "OPERATION")}
  /\ Go(r, "committed") \/ Answer(r, 503, "expired")
  /\ UNCHANGED <<guesses, changed, auth_events, unrecorded, clock>>

\* Mutant of FailRead: a row that cannot be stored is forgotten.
FailReadQuietly(r) ==
  /\ In(r, "working") /\ requests[r].kind = "read"
  /\ Go(r, "committed")
  /\ UNCHANGED <<guesses, changed, audit_events, auth_events, unrecorded, clock>>

\* record_read fails: AUDIT_UNAVAILABLE.
FailRead(r) ==
  /\ In(r, "working") /\ requests[r].kind = "read"
  /\ Answer(r, 503, "expired")
  /\ UNCHANGED <<guesses, changed, audit_events, auth_events, unrecorded, clock>>

\* Reads of accounts, roles and audit events are not audited.
Serve(r) ==
  /\ In(r, "working") /\ requests[r].kind \in {"view", "inspect"}
  /\ Go(r, "committed")
  /\ UNCHANGED <<guesses, changed, audit_events, auth_events, unrecorded, clock>>

\* What is left after the commit: the refresh and the answer.
Succeed(r) ==
  /\ In(r, "committed")
  /\ Move(r, "done", requests[r].actor, 200)
  /\ UNCHANGED <<guesses, changed, audit_events, auth_events, unrecorded, clock>>

\* An exception nobody handles, a failing commit or refresh among them, or the
\* end of the process.  The answer, if there is one, is made outside of the
\* middleware: a 500 with neither X-Request-ID nor an audit row.
Fail(r) ==
  /\ requests[r].pc \in {"begun", "counted", "working", "committed"}
  /\ Go(r, "failed")
  /\ UNCHANGED <<guesses, changed, audit_events, auth_events, unrecorded, clock>>

(***************************************************************************)
(* AuthService.authenticate.                                               *)
(***************************************************************************)
Failures == {e \in auth_events : e.reason # "NONE"}

\* Mutant of Recent: the moment of the cutoff is left out.
RecentAfter(e) == e.at + Window > clock

\* occurred_at >= cutoff
Recent(e) == e.at + Window >= clock

CountFailures(r, identity, address) ==
  /\ In(r, "begun") /\ requests[r].kind = "login"
  /\ guesses' = [guesses EXCEPT ![r] =
       [identity |-> identity, address |-> address, at |-> clock,
        attempts |-> Cardinality({e \in Failures :
          Recent(e) /\ (e.identity = identity \/ e.address = address)})]]
  /\ Go(r, "counted")
  /\ UNCHANGED <<changed, audit_events, auth_events, unrecorded, clock>>

\* The row is committed and the answer follows, or is lost.
Judge(r, reason, answered) ==
  /\ auth_events' = auth_events \cup
       {[request |-> r, reason |-> reason, identity |-> guesses[r].identity,
         address |-> guesses[r].address, at |-> guesses[r].at]}
  /\ answered \/ Go(r, "failed")
  /\ UNCHANGED <<guesses, changed, audit_events, unrecorded, clock>>

\* AUTH_RATE_LIMITED; this failure counts as well.
LimitLogin(r) == /\ In(r, "counted") /\ guesses[r].attempts >= Limit
                 /\ Judge(r, "RATE_LIMITED", Answer(r, 429, "none"))

\* INVALID_CREDENTIALS or ACCOUNT_DISABLED.
RefuseLogin(r) == /\ In(r, "counted") /\ guesses[r].attempts < Limit
                  /\ Judge(r, "REFUSED", Answer(r, 401, "none"))

AcceptLogin(r) == /\ In(r, "counted") /\ guesses[r].attempts < Limit
                  /\ Judge(r, "NONE", Go(r, "committed"))

(***************************************************************************)
(* request_context, the middleware.                                        *)
(***************************************************************************)
FailureOutcome(r) == IF requests[r].status \in {401, 403} THEN "DENIED" ELSE "FAILED"

\* Mutant of FailureCategory: only the path decides.
FailureCategoryByPath(r) == IF requests[r].kind \in OfSecurity THEN "SECURITY" ELSE "OPERATION"

FailureCategory(r) ==
  IF requests[r].kind \in OfSecurity \/ requests[r].status \in {401, 403}
  THEN "SECURITY" ELSE "OPERATION"

Reported(r) == In(r, "answered") /\ requests[r].kind # "inspect"

\* The row, whether or not the middleware learns that it was stored.
RecordFailure(r) ==
  /\ Reported(r) /\ requests[r].actor # "expired"
  /\ audit_events' = audit_events \cup {Stored(r, FailureOutcome(r), FailureCategory(r))}
  /\ Go(r, "done")
  /\ UNCHANGED <<guesses, changed, auth_events, unrecorded, clock>>

\* The database fails: "Could not persist failed request audit event".
FailToRecord(r) ==
  /\ Reported(r) /\ requests[r].actor # "expired"
  /\ unrecorded' = unrecorded \cup {r}
  /\ Go(r, "done")
  /\ UNCHANGED <<guesses, changed, audit_events, auth_events, clock>>

\* AuditService.add reads actor.role of the expired, detached user before there is
\* a row: a DetachedInstanceError, which the middleware logs in the same words.
FailToReadActor(r) ==
  /\ Reported(r) /\ requests[r].actor = "expired"
  /\ Go(r, "done")
  /\ UNCHANGED <<guesses, changed, audit_events, auth_events, unrecorded, clock>>

\* Failures on /audit-events are not recorded.
PassOn(r) ==
  /\ In(r, "answered") /\ requests[r].kind = "inspect"
  /\ Go(r, "done")
  /\ UNCHANGED <<guesses, changed, audit_events, auth_events, unrecorded, clock>>

Tick == /\ clock < MaxTime
        /\ clock' = clock + 1
        /\ UNCHANGED <<requests, guesses, changed, audit_events, auth_events, unrecorded>>

Login(r) == \/ Begin(r, "login")
            \/ \E identity \in Identities, address \in Addresses :
                 CountFailures(r, identity, address)
            \/ LimitLogin(r) \/ RefuseLogin(r) \/ AcceptLogin(r)

Other(r) == \/ \E kind \in Kinds : Begin(r, kind)
            \/ SignIn(r)
            \/ \E status \in {403, 409} : Refuse(r, status)
            \/ \E actor \in {"readable", "expired"} : RefuseInput(r, actor)
            \/ CommitChange(r) \/ CommitRead(r) \/ FailRead(r) \/ Serve(r)

Either(r) == \/ RefuseStranger(r) \/ Succeed(r) \/ Fail(r)
             \/ RecordFailure(r) \/ FailToRecord(r)
             \/ FailToReadActor(r) \/ PassOn(r)

Next == \/ \E r \in Logins : Login(r)
        \/ \E r \in Others : Other(r)
        \/ \E r \in Requests : Either(r)
        \/ Tick

Spec == Init /\ [][Next]_vars

(***************************************************************************)
(* Properties                                                              *)
(***************************************************************************)

\* AuditRepository.list and get, for a viewer with or without the permission
\* audit.security.view.
Visible(security_allowed) ==
  {e \in audit_events : security_allowed \/ e.category # "SECURITY"}

Audited(r, outcomes) == \E e \in audit_events : e.request = r /\ e.outcome \in outcomes
Refused(r) == In(r, "done") /\ requests[r].status >= 400
Judged(r, reasons) == \E e \in auth_events : e.request = r /\ e.reason \in reasons

\* RBAC_AUDIT_RUNBOOK: "audited reads and mutations deliberately fail closed if
\* their required audit write cannot commit".  A 200 means that the change and
\* its row are there, a refusal that nothing was changed, and a login learns
\* the verdict on its password only when the verdict is stored.
AnswersTellTheTruth ==
  \A r \in Requests :
    /\ In(r, "done") /\ requests[r].status = 200 =>
         CASE requests[r].kind \in {"write", "administer"} -> r \in changed /\ Audited(r, {"SUCCESS"})
           [] requests[r].kind = "read" -> Audited(r, {"SUCCESS"})
           [] requests[r].kind = "logout" -> r \in changed
           [] requests[r].kind = "login" -> Judged(r, {"NONE"})
           [] OTHER -> TRUE
    /\ Refused(r) => r \notin changed
    /\ Refused(r) /\ requests[r].status = 401 /\ r \in Logins => Judged(r, {"REFUSED"})
    /\ Refused(r) /\ requests[r].status = 429 => Judged(r, {"RATE_LIMITED"})

\* README, "append-only audit history": a change has a SUCCESS row exactly when
\* it is committed, and a failure row tells of a refusal.  No request is told
\* both to have succeeded and to have failed, not even a read that is refused
\* because the answer to the commit of its row was lost: its user cannot be read
\* any more, and there is no second row.
RowsTellTheTruth ==
  /\ \A r \in Others :
       requests[r].pc # "waiting" /\ requests[r].kind \in {"write", "administer"} =>
         (r \in changed <=> Audited(r, {"SUCCESS"}))
  /\ \A e \in audit_events : e.outcome # "SUCCESS" =>
       /\ Refused(e.request)
       /\ e.outcome = "DENIED" <=> requests[e.request].status \in {401, 403}
       /\ ~Audited(e.request, {"SUCCESS"})

\* RBAC_AUDIT_RUNBOOK: "denied access ... can be found by request_id"; TODO.md:
\* exports that fail or are too large and denied permissions are recorded with the
\* outcomes FAILED and DENIED.  A refused request has its row, unless the database
\* failed when it was to be stored; requests for the audit trail itself need none.
RefusalsLeaveARow ==
  \A r \in Requests :
    Refused(r) /\ requests[r].kind # "inspect" =>
      Audited(r, {"FAILED", "DENIED"}) \/ r \in unrecorded

\* test_audit_query_separates_operational_and_security_events: who may see the
\* operations only never sees a denial, nor that somebody touched an account,
\* a role or a session, with or without success.
OperatorsSeeNoDenials ==
  \A e \in Visible(FALSE) :
    /\ e.outcome # "DENIED"
    /\ requests[e.request].kind \notin OfSecurity

\* Passwords tried in a time window, by the requests whose guess passed the
\* limit: those refused and those that are about to be.
Passed == {r \in Logins : \/ In(r, "counted") /\ guesses[r].attempts < Limit
                          \/ Judged(r, {"REFUSED"})}
Tried(start) == {r \in Passed : guesses[r].at \in start .. start + Window}

\* LOGIN_RATE_LIMIT_ATTEMPTS wrong passwords may be tried for an identity, or
\* from an address, in LOGIN_RATE_LIMIT_MINUTES.  Attempts in flight together
\* all count before the others' failures are stored: the limit is passed by
\* one less than there are requests in progress, and never by more.
GuessesStayNearTheLimit ==
  \A start \in 0 .. MaxTime :
    /\ \A identity \in Identities :
         Cardinality({r \in Tried(start) : guesses[r].identity = identity})
           < Limit + Workers
    /\ \A address \in Addresses :
         Cardinality({r \in Tried(start) : guesses[r].address = address})
           < Limit + Workers
=============================================================================
