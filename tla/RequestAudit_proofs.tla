-------------------------- MODULE RequestAudit_proofs --------------------------
(***************************************************************************)
(* Proofs about RequestAudit, for any requests, identities, addresses,     *)
(* limit, window and number of requests in progress.                       *)
(*                                                                         *)
(* What is recorded of a request concerns nobody else: a step of a request *)
(* leaves the rows, the state and the guess of every other one alone       *)
(* (Elsewhere), and what it does to its own is one step per action.        *)
(* The limit on failed logins is the exception, and has an argument of its *)
(* own: a guess is let through only when fewer than Limit failures of its  *)
(* window are stored, and the guesses not yet stored are in progress.      *)
(***************************************************************************)
EXTENDS RequestAudit, FiniteSetTheorems, TLAPS

FailureRows == {"FAILED", "DENIED"}

Untouched(r) == /\ r \notin changed /\ r \notin unrecorded
                /\ \A e \in audit_events : e.request # r
                /\ \A e \in auth_events : e.request # r

\* What the commit behind a 200 has stored.
Kept(r) ==
  /\ requests[r].kind \in {"write", "administer"} => r \in changed /\ Audited(r, {"SUCCESS"})
  /\ requests[r].kind = "read" => Audited(r, {"SUCCESS"})
  /\ requests[r].kind = "logout" => r \in changed
  /\ requests[r].kind = "login" => Judged(r, {"NONE"})

\* What a refusal leaves.
TurnedDown(r) ==
  /\ r \notin changed
  /\ Audited(r, {"SUCCESS"}) => requests[r].kind = "read" /\ requests[r].actor = "expired"
  /\ requests[r].status = 401 /\ r \in Logins => Judged(r, {"REFUSED"})
  /\ requests[r].status = 429 => Judged(r, {"RATE_LIMITED"})

RowFits(e) ==
  /\ e.outcome # "SUCCESS" =>
       /\ Refused(e.request)
       /\ e.outcome = "DENIED" <=> requests[e.request].status \in {401, 403}
  /\ e.category # "SECURITY" =>
       e.outcome # "DENIED" /\ requests[e.request].kind \notin OfSecurity

GuessFits(r) == guesses[r] \in Guess /\ guesses[r].at <= clock

\* All that concerns one request.
Good(r) ==
  /\ requests[r].pc # "waiting" => (r \in Logins <=> requests[r].kind = "login")
  /\ requests[r].pc \in {"waiting", "begun", "counted", "working"} => Untouched(r)
  /\ requests[r].pc = "counted" => r \in Logins /\ GuessFits(r)
  /\ requests[r].pc = "committed" => Kept(r)
  /\ requests[r].pc = "done" /\ requests[r].status = 200 => Kept(r)
  /\ requests[r].pc = "answered" =>
       requests[r].status >= 400 /\ TurnedDown(r) /\ ~Audited(r, FailureRows)
  /\ Refused(r) =>
       /\ TurnedDown(r)
       /\ requests[r].kind = "inspect" => ~Audited(r, FailureRows)
       /\ requests[r].actor = "expired" => ~Audited(r, FailureRows)
  /\ requests[r].pc # "waiting" /\ requests[r].kind \in {"write", "administer"} =>
       (r \in changed <=> Audited(r, {"SUCCESS"}))
  /\ \A e \in audit_events : e.request = r => RowFits(e)
  /\ \A e \in auth_events : e.request = r =>
       /\ GuessFits(r)
       /\ e.identity = guesses[r].identity /\ e.address = guesses[r].address
       /\ e.at = guesses[r].at

IInv == /\ TypeOK
        /\ IsFiniteSet(auth_events)
        /\ \A r \in Requests : Good(r)

Act(r) == \/ r \in Logins /\ Login(r)
          \/ r \in Others /\ Other(r)
          \/ Either(r)

\* A step of request r leaves what concerns the others alone.
Elsewhere(r) ==
  /\ \A q \in Requests \ {r} : requests'[q] = requests[q]
  /\ \A q \in Logins \ {r} : guesses'[q] = guesses[q]
  /\ changed \subseteq changed' /\ changed' \subseteq changed \cup {r}
  /\ unrecorded \subseteq unrecorded' /\ unrecorded' \subseteq unrecorded \cup {r}
  /\ audit_events \subseteq audit_events'
  /\ \A e \in audit_events' \ audit_events : e.request = r
  /\ auth_events \subseteq auth_events'
  /\ \A e \in auth_events' \ auth_events : e.request = r
  /\ clock' = clock

\* The steps of one request.
LEMMA ActionsOfARequest ==
  ASSUME NEW r \in Requests, Act(r)
  PROVE  \/ \E kind \in Kinds \cup {"login"} :
              Begin(r, kind) /\ (kind = "login" <=> r \in Logins)
         \/ r \in Others /\ SignIn(r)
         \/ RefuseStranger(r)
         \/ \E status \in {403, 409} : r \in Others /\ Refuse(r, status)
         \/ \E actor \in {"readable", "expired"} : r \in Others /\ RefuseInput(r, actor)
         \/ r \in Others /\ CommitChange(r)
         \/ r \in Others /\ CommitRead(r)
         \/ r \in Others /\ FailRead(r)
         \/ r \in Others /\ Serve(r)
         \/ Succeed(r)
         \/ Fail(r)
         \/ \E identity \in Identities, address \in Addresses :
              r \in Logins /\ CountFailures(r, identity, address)
         \/ r \in Logins /\ LimitLogin(r)
         \/ r \in Logins /\ RefuseLogin(r)
         \/ r \in Logins /\ AcceptLogin(r)
         \/ RecordFailure(r)
         \/ FailToRecord(r)
         \/ FailToReadActor(r)
         \/ PassOn(r)
<1>1. CASE r \in Logins /\ Login(r)
  BY <1>1 DEF Login
<1>2. CASE r \in Others /\ Other(r)
  <2>1. \A kind \in Kinds : kind # "login"
    BY DEF Kinds
  <2>2. r \notin Logins
    BY <1>2, AuditAssumption
  <2>3. QED
    BY <1>2, <2>1, <2>2 DEF Other
<1>3. CASE Either(r)
  BY <1>3 DEF Either
<1>4. QED
  BY <1>1, <1>2, <1>3 DEF Act

\* Each step of a request changes only what concerns it.
LEMMA StepsStayApart ==
  ASSUME TypeOK, NEW r \in Requests, Act(r)
  PROVE  Elsewhere(r)
<1> USE DEF Elsewhere, TypeOK
<1>1. ASSUME NEW kind \in Kinds \cup {"login"}, Begin(r, kind) PROVE Elsewhere(r)
  BY <1>1 DEF Begin
<1>2. CASE SignIn(r)
  BY <1>2 DEF SignIn, Move
<1>3. CASE RefuseStranger(r)
  BY <1>3 DEF RefuseStranger, Answer, Move
<1>4. ASSUME NEW status, Refuse(r, status) PROVE Elsewhere(r)
  BY <1>4 DEF Refuse, Answer, Move
<1>5. ASSUME NEW actor, RefuseInput(r, actor) PROVE Elsewhere(r)
  BY <1>5 DEF RefuseInput, Answer, Move
<1>6. CASE CommitChange(r)
  BY <1>6 DEF CommitChange, Go, Move, Stored
<1>7. CASE CommitRead(r)
  BY <1>7 DEF CommitRead, Go, Answer, Move, Stored
<1>8. CASE FailRead(r)
  BY <1>8 DEF FailRead, Answer, Move
<1>9. CASE Serve(r)
  BY <1>9 DEF Serve, Go, Move
<1>10. CASE Succeed(r)
  BY <1>10 DEF Succeed, Move
<1>11. CASE Fail(r)
  BY <1>11 DEF Fail, Go, Move
<1>12. ASSUME NEW identity, NEW address, CountFailures(r, identity, address)
       PROVE  Elsewhere(r)
  BY <1>12 DEF CountFailures, Go, Move
<1>13. CASE LimitLogin(r)
  BY <1>13 DEF LimitLogin, Judge, Go, Answer, Move
<1>14. CASE RefuseLogin(r)
  BY <1>14 DEF RefuseLogin, Judge, Go, Answer, Move
<1>15. CASE AcceptLogin(r)
  BY <1>15 DEF AcceptLogin, Judge, Go, Move
<1>16. CASE RecordFailure(r)
  BY <1>16 DEF RecordFailure, Go, Move, Stored
<1>17. CASE FailToRecord(r)
  BY <1>17 DEF FailToRecord, Go, Move
<1>18. CASE PassOn(r)
  BY <1>18 DEF PassOn, Go, Move
<1>19. CASE FailToReadActor(r)
  BY <1>19 DEF FailToReadActor, Go, Move
<1>20. QED
  BY <1>1, <1>2, <1>3, <1>4, <1>5, <1>6, <1>7, <1>8, <1>9, <1>10, <1>11, <1>12,
     <1>13, <1>14, <1>15, <1>16, <1>17, <1>18, <1>19, ActionsOfARequest

\* What is good of a request stays good when another one steps.
LEMMA GoodElsewhere ==
  ASSUME TypeOK, NEW r \in Requests, NEW q \in Requests \ {r}, Good(q), Elsewhere(r)
  PROVE  Good(q)'
<1>1. requests'[q] = requests[q]
  BY DEF Elsewhere
<1>2. /\ q \in changed' <=> q \in changed
      /\ q \in unrecorded' <=> q \in unrecorded
      /\ clock' = clock
  BY DEF Elsewhere
<1>3. \A e : e.request = q => (e \in audit_events' <=> e \in audit_events)
  BY DEF Elsewhere
<1>4. \A e : e.request = q => (e \in auth_events' <=> e \in auth_events)
  BY DEF Elsewhere
<1>5. \A outcomes : Audited(q, outcomes)' <=> Audited(q, outcomes)
  BY <1>3 DEF Audited
<1>6. \A reasons : Judged(q, reasons)' <=> Judged(q, reasons)
  BY <1>4 DEF Judged
<1>7. q \in Logins => guesses'[q] = guesses[q] /\ (GuessFits(q)' <=> GuessFits(q))
  BY <1>2 DEF Elsewhere, GuessFits
<1>8. Refused(q)' <=> Refused(q)
  BY <1>1 DEF Refused, In
<1>9. Untouched(q)' <=> Untouched(q)
  BY <1>2, <1>3, <1>4 DEF Untouched
<1>10. Kept(q) => Kept(q)'
  BY <1>1, <1>2, <1>5, <1>6 DEF Kept
<1>11. TurnedDown(q) => TurnedDown(q)'
  BY <1>1, <1>2, <1>5, <1>6 DEF TurnedDown
<1>12. \A e : e.request = q => (RowFits(e)' <=> RowFits(e))
  BY <1>1, <1>8 DEF RowFits
<1>13. \A e \in auth_events : e.request \in Logins
  BY DEF TypeOK, AuthRow
<1>14. QED
  BY <1>1, <1>2, <1>3, <1>4, <1>5, <1>6, <1>7, <1>8, <1>9, <1>10, <1>11, <1>12, <1>13
  DEF Good

(***************************************************************************)
(* How the state of a request moves.                                       *)
(***************************************************************************)
\* What a move makes of a request.
LEMMA Moving ==
  ASSUME TypeOK, NEW r \in Requests, requests[r].pc # "waiting", NEW pc \in Phases,
         NEW actor \in {"none", "readable", "expired"}, NEW status \in Statuses,
         Move(r, pc, actor, status)
  PROVE  /\ requests' \in [Requests -> {Waiting} \cup Started]
         /\ requests'[r].pc = pc /\ requests'[r].kind = requests[r].kind
         /\ requests'[r].actor = actor /\ requests'[r].status = status
<1>1. requests[r] \in Started
  BY DEF TypeOK, Waiting
<1>2. PICK new \in Started :
        new = [pc |-> pc, kind |-> requests[r].kind, actor |-> actor, status |-> status]
  BY <1>1 DEF Started
<1>3. requests' = [requests EXCEPT ![r] = new]
  BY <1>2 DEF Move
<1>4. requests' \in [Requests -> {Waiting} \cup Started] /\ requests'[r] = new
  BY <1>3 DEF TypeOK
<1>5. QED
  BY <1>2, <1>4

\* A request that only goes on keeps its actor and status.
LEMMA Going ==
  ASSUME TypeOK, NEW r \in Requests, requests[r].pc # "waiting", NEW pc \in Phases, Go(r, pc)
  PROVE  /\ requests' \in [Requests -> {Waiting} \cup Started]
         /\ requests'[r].pc = pc /\ requests'[r].kind = requests[r].kind
         /\ requests'[r].actor = requests[r].actor
         /\ requests'[r].status = requests[r].status
<1>1. /\ requests[r].actor \in {"none", "readable", "expired"}
      /\ requests[r].status \in Statuses
  BY DEF TypeOK, Waiting, Started
<1>2. QED
  BY <1>1, Moving DEF Go

(***************************************************************************)
(* What a step does to what concerns its own request.                      *)
(***************************************************************************)
Records == <<guesses, changed, audit_events, auth_events, unrecorded, clock>>

\* A step that records nothing: only the state of the request matters.
LEMMA QuietStep ==
  ASSUME IInv, NEW r \in Requests, UNCHANGED Records,
         requests' \in [Requests -> {Waiting} \cup Started],
         requests'[r].pc # "waiting",
         r \in Logins <=> requests'[r].kind = "login",
         requests[r].pc # "waiting" => requests'[r].kind = requests[r].kind,
         requests[r].pc # "done" /\ requests'[r].pc # "counted",
         requests'[r].pc \in {"begun", "working"} => Untouched(r),
         requests'[r].pc = "committed" => Kept(r)',
         requests'[r].pc = "done" /\ requests'[r].status = 200 => Kept(r)',
         requests'[r].pc = "answered" => requests'[r].status >= 400 /\ Untouched(r)
           /\ (r \in Logins => requests'[r].status # 401)
           /\ requests'[r].status # 429,
         Refused(r)' => requests[r].pc = "answered" /\ requests[r].kind = "inspect"
                       /\ requests'[r].status = requests[r].status
                       /\ requests'[r].actor = requests[r].actor
  PROVE  TypeOK' /\ IsFiniteSet(auth_events') /\ Good(r)'
<1>1. TypeOK' /\ IsFiniteSet(auth_events')
  BY DEF IInv, TypeOK, Records
<1>2. Good(r)
  BY DEF IInv
<1>3. \A outcomes : Audited(r, outcomes)' <=> Audited(r, outcomes)
  BY DEF Audited, Records
<1>4. \A reasons : Judged(r, reasons)' <=> Judged(r, reasons)
  BY DEF Judged, Records
<1>5. Untouched(r)' <=> Untouched(r)
  BY DEF Untouched, Records
<1>6. GuessFits(r)' <=> GuessFits(r)
  BY DEF GuessFits, Records
<1>7. \A e \in audit_events : e.request = r =>
        /\ requests[r].pc # "waiting"
        /\ e.outcome = "SUCCESS"
        /\ e.category # "SECURITY" => requests[r].kind \notin OfSecurity
  BY <1>2 DEF Good, RowFits, Refused, In, Untouched
<1>8. \A e \in audit_events : e.request = r => RowFits(e)'
  BY <1>7 DEF RowFits
<1>9. \A S : Untouched(r) => ~Audited(r, S) /\ r \notin changed
  BY DEF Untouched, Audited
<1>10. requests[r].pc = "answered" => ~Audited(r, FailureRows) /\ TurnedDown(r)
  BY <1>2 DEF Good
<1>11. requests'[r].pc = "answered" => TurnedDown(r)'
  BY <1>3, <1>9 DEF TurnedDown, Records
<1>12. Refused(r)' => TurnedDown(r)'
  BY <1>3, <1>4, <1>10 DEF TurnedDown, Records
<1>13. (r \in changed)' <=> r \in changed
  BY DEF Records
<1>14. requests'[r].kind \in {"write", "administer"} =>
         (r \in changed' <=> Audited(r, {"SUCCESS"})')
  <2>1. CASE requests[r].pc = "waiting"
    BY <2>1, <1>2, <1>3, <1>9, <1>13 DEF Good
  <2>2. CASE requests[r].pc # "waiting"
    BY <2>2, <1>2, <1>3, <1>13 DEF Good
  <2>3. QED
    BY <2>1, <2>2
<1>15. audit_events' = audit_events /\ auth_events' = auth_events /\ guesses' = guesses
  BY DEF Records
<1>16. Refused(r)' => requests'[r].kind = "inspect" /\ ~Audited(r, FailureRows)'
  BY <1>3, <1>10 DEF FailureRows
<1>17. QED
  BY <1>1, <1>2, <1>3, <1>5, <1>6, <1>8, <1>9, <1>11, <1>12, <1>14, <1>15, <1>16 DEF Good

\* Where a request in a phase stands.
LEMMA KindsOfRequests ==
  ASSUME IInv, NEW r \in Requests, requests[r].pc # "waiting"
  PROVE  /\ r \in Logins <=> requests[r].kind = "login"
         /\ requests[r].actor \in {"none", "readable", "expired"}
         /\ requests[r].status \in Statuses
BY DEF IInv, Good, TypeOK, Waiting, Started

\* The steps that commit nothing but a guess, if that.
LEMMA QuietActions ==
  ASSUME IInv, NEW r \in Requests,
         \/ \E kind \in Kinds \cup {"login"} :
              Begin(r, kind) /\ (kind = "login" <=> r \in Logins)
         \/ r \in Others /\ SignIn(r)
         \/ RefuseStranger(r)
         \/ \E status \in {403, 409} : r \in Others /\ Refuse(r, status)
         \/ \E actor \in {"readable", "expired"} : r \in Others /\ RefuseInput(r, actor)
         \/ r \in Others /\ FailRead(r)
         \/ r \in Others /\ Serve(r)
         \/ Succeed(r)
         \/ Fail(r)
         \/ PassOn(r)
  PROVE  TypeOK' /\ IsFiniteSet(auth_events') /\ Good(r)'
<1> DEFINE Goal == TypeOK' /\ IsFiniteSet(auth_events') /\ Good(r)'
<1>1. TypeOK /\ Good(r)
  BY DEF IInv
<1>2. {"begun", "working", "committed", "answered", "done", "failed"} \subseteq Phases
  BY DEF Phases
<1>3. {0, 200, 401, 403, 409, 422, 503} \subseteq Statuses
  BY DEF Statuses
<1>4. r \in Others => r \notin Logins
  BY AuditAssumption
<1>5. requests[r].pc \in {"begun", "working"} => Untouched(r)
  BY <1>1 DEF Good
<1>6. requests'[r].pc # "done" \/ requests'[r].status = 200 => ~Refused(r)'
  BY DEF Refused, In
<1>7. ASSUME NEW kind \in Kinds \cup {"login"}, Begin(r, kind), kind = "login" <=> r \in Logins
      PROVE  Goal
  <2>1. PICK new \in Started :
          new = [pc |-> "begun", kind |-> kind, actor |-> "none", status |-> 0]
    <3>1. "begun" \in Phases /\ 0 \in Statuses
      BY <1>2, <1>3
    <3>2. QED
      BY <3>1 DEF Started
  <2>2. requests' = [requests EXCEPT ![r] = new] /\ UNCHANGED Records /\ requests[r].pc = "waiting"
    BY <1>7, <2>1 DEF Begin, Records, In
  <2>3. requests' \in [Requests -> {Waiting} \cup Started] /\ requests'[r] = new
    BY <1>1, <2>2 DEF TypeOK
  <2>4. Untouched(r)
    BY <1>1, <2>2 DEF Good
  <2>5. QED
    BY <1>6, <1>7, <2>1, <2>2, <2>3, <2>4, QuietStep
<1>8. CASE r \in Others /\ SignIn(r)
  <2>1. requests[r].pc = "begun" /\ Move(r, "working", "readable", requests[r].status)
        /\ UNCHANGED Records
    BY <1>8 DEF SignIn, In, Records
  <2>2. QED
    BY <1>1, <1>2, <1>5, <1>6, <2>1, KindsOfRequests, Moving, QuietStep
<1>9. CASE RefuseStranger(r)
  <2>1. PICK status \in {401, 422} :
          /\ requests[r].pc = "begun" /\ Move(r, "answered", "none", status)
          /\ UNCHANGED Records /\ (requests[r].kind = "login" => status # 401)
    BY <1>9 DEF RefuseStranger, Answer, In, Records
  <2>2. QED
    BY <1>1, <1>2, <1>3, <1>5, <1>6, <2>1, KindsOfRequests, Moving, QuietStep
<1>10. ASSUME NEW status \in {403, 409}, r \in Others, Refuse(r, status) PROVE Goal
  <2>1. requests[r].pc = "working" /\ Move(r, "answered", "expired", status) /\ UNCHANGED Records
    BY <1>10 DEF Refuse, Answer, In, Records
  <2>2. QED
    BY <1>1, <1>2, <1>3, <1>5, <1>6, <2>1, KindsOfRequests, Moving, QuietStep
<1>11. ASSUME NEW actor \in {"readable", "expired"}, r \in Others, RefuseInput(r, actor) PROVE Goal
  <2>1. requests[r].pc = "working" /\ Move(r, "answered", actor, 422) /\ UNCHANGED Records
    BY <1>11 DEF RefuseInput, Answer, In, Records
  <2>2. QED
    BY <1>1, <1>2, <1>3, <1>5, <1>6, <2>1, KindsOfRequests, Moving, QuietStep
<1>12. CASE r \in Others /\ FailRead(r)
  <2>1. requests[r].pc = "working" /\ Move(r, "answered", "expired", 503) /\ UNCHANGED Records
    BY <1>12 DEF FailRead, Answer, In, Records
  <2>2. QED
    BY <1>1, <1>2, <1>3, <1>5, <1>6, <2>1, KindsOfRequests, Moving, QuietStep
<1>13. CASE r \in Others /\ Serve(r)
  <2>1. /\ requests[r].pc = "working" /\ Go(r, "committed") /\ UNCHANGED Records
        /\ requests[r].kind \in {"view", "inspect"}
    BY <1>13 DEF Serve, In, Records
  <2>2. /\ requests' \in [Requests -> {Waiting} \cup Started]
        /\ requests'[r].pc = "committed" /\ requests'[r].kind = requests[r].kind
    BY <1>1, <1>2, <2>1, Going
  <2>3. Kept(r)'
    BY <2>1, <2>2 DEF Kept
  <2>4. QED
    BY <1>6, <2>1, <2>2, <2>3, KindsOfRequests, QuietStep
<1>14. CASE Succeed(r)
  <2>1. /\ requests[r].pc = "committed" /\ Move(r, "done", requests[r].actor, 200)
        /\ UNCHANGED Records
    BY <1>14 DEF Succeed, In, Records
  <2>2. /\ requests' \in [Requests -> {Waiting} \cup Started]
        /\ requests'[r].pc = "done" /\ requests'[r].kind = requests[r].kind
        /\ requests'[r].status = 200
    BY <1>1, <1>2, <1>3, <2>1, KindsOfRequests, Moving
  <2>3. Kept(r)'
    BY <1>1, <2>1, <2>2 DEF Good, Kept, Audited, Judged, Records
  <2>4. QED
    BY <1>6, <2>1, <2>2, <2>3, KindsOfRequests, QuietStep
<1>15. CASE Fail(r)
  <2>1. /\ requests[r].pc \in {"begun", "counted", "working", "committed"}
        /\ Go(r, "failed") /\ UNCHANGED Records
    BY <1>15 DEF Fail, Records
  <2>2. QED
    BY <1>1, <1>2, <1>6, <2>1, KindsOfRequests, Going, QuietStep
<1>16. CASE PassOn(r)
  <2>1. /\ requests[r].pc = "answered" /\ requests[r].kind = "inspect"
        /\ Go(r, "done") /\ UNCHANGED Records
    BY <1>16 DEF PassOn, In, Records
  <2>2. /\ requests' \in [Requests -> {Waiting} \cup Started]
        /\ requests'[r].pc = "done" /\ requests'[r].kind = requests[r].kind
        /\ requests'[r].actor = requests[r].actor /\ requests'[r].status = requests[r].status
    BY <1>1, <1>2, <2>1, Going
  <2>3. requests[r].status >= 400
    BY <1>1, <2>1 DEF Good
  <2>4. QED
    BY <2>1, <2>2, <2>3, KindsOfRequests, QuietStep
<1>17. QED
  BY <1>7, <1>8, <1>9, <1>10, <1>11, <1>12, <1>13, <1>14, <1>15, <1>16

\* The commit of a change or of a read and its row.
LEMMA CommittingActions ==
  ASSUME IInv, NEW r \in Requests, r \in Others, CommitChange(r) \/ CommitRead(r)
  PROVE  TypeOK' /\ IsFiniteSet(auth_events') /\ Good(r)'
<1>1. /\ TypeOK /\ Good(r) /\ Untouched(r) /\ r \notin Logins /\ requests[r].pc = "working"
      /\ requests[r].kind # "login" /\ requests[r].kind # "inspect"
  BY AuditAssumption DEF IInv, Good, CommitChange, CommitRead, In
<1>2. "committed" \in Phases /\ "failed" \in Phases /\ "answered" \in Phases /\ 503 \in Statuses
  BY DEF Phases, Statuses
<1>3. PICK category \in {"SECURITY", "OPERATION"} :
        /\ requests[r].kind # "logout" =>
             audit_events' = audit_events \cup
               {[request |-> r, outcome |-> "SUCCESS", category |-> category]}
        /\ requests[r].kind = "logout" => audit_events' = audit_events
        /\ category # "SECURITY" => requests[r].kind \notin OfSecurity
  <2>1. CASE CommitChange(r)
    BY <2>1 DEF CommitChange, Stored, SuccessCategory
  <2>2. CASE CommitRead(r)
    <3>1. /\ requests[r].kind = "read"
          /\ audit_events' = audit_events \cup
               {[request |-> r, outcome |-> "SUCCESS", category |-> "OPERATION"]}
      BY <2>2 DEF CommitRead, Stored
    <3>2. requests[r].kind \notin OfSecurity
      BY <3>1 DEF OfSecurity
    <3>3. QED
      BY <3>1, <3>2
  <2>3. QED
    BY <2>1, <2>2
<1>4. PICK new :
        /\ new \in AuditRow /\ new.request = r /\ new.outcome = "SUCCESS"
        /\ requests[r].kind # "logout" => audit_events' = audit_events \cup {new}
        /\ requests[r].kind = "logout" => audit_events' = audit_events
        /\ new.category # "SECURITY" => requests[r].kind \notin OfSecurity
  <2>1. [request |-> r, outcome |-> "SUCCESS", category |-> category] \in AuditRow
    BY <1>3 DEF AuditRow
  <2>2. QED
    BY <1>3, <2>1
<1>5. /\ requests[r].kind \in {"write", "administer", "logout"} => changed' = changed \cup {r}
      /\ requests[r].kind \notin {"write", "administer", "logout"} =>
           changed' = changed /\ requests[r].kind = "read"
      /\ guesses' = guesses /\ auth_events' = auth_events
      /\ unrecorded' = unrecorded /\ clock' = clock
  BY DEF CommitChange, CommitRead
<1>6. /\ requests' \in [Requests -> {Waiting} \cup Started]
      /\ requests'[r].kind = requests[r].kind
      /\ \/ requests'[r].pc \in {"committed", "failed"}
         \/ /\ requests'[r].pc = "answered" /\ requests'[r].status = 503
            /\ requests[r].kind = "read" /\ requests'[r].actor = "expired"
  <2>1. CASE CommitChange(r)
    BY <2>1, <1>1, <1>2, Going DEF CommitChange
  <2>2. CASE CommitRead(r) /\ Go(r, "committed")
    BY <2>2, <1>1, <1>2, Going
  <2>3. CASE CommitRead(r) /\ Answer(r, 503, "expired")
    BY <2>3, <1>1, <1>2, Moving DEF CommitRead, Answer
  <2>4. QED
    BY <2>1, <2>2, <2>3 DEF CommitRead
<1>7. TypeOK' /\ IsFiniteSet(auth_events')
  <2>1. r \in Others /\ r \in Requests
    OBVIOUS
  <2>2. changed' \subseteq Others /\ audit_events' \subseteq AuditRow
    BY <1>1, <1>4, <1>5, <2>1 DEF TypeOK
  <2>3. QED
    BY <1>1, <1>5, <1>6, <2>2 DEF TypeOK, IInv
<1>8. requests[r].kind # "logout" => Audited(r, {"SUCCESS"})'
  BY <1>4 DEF Audited
<1>9. requests[r].kind = "logout" => ~Audited(r, {"SUCCESS"})'
  BY <1>1, <1>4 DEF Audited, Untouched
<1>10. ~Audited(r, FailureRows)'
  BY <1>1, <1>4 DEF Audited, Untouched, FailureRows
<1>11. ~Refused(r)'
  BY <1>6 DEF Refused, In
<1>12. \A e \in audit_events' : e.request = r => RowFits(e)'
  BY <1>1, <1>4, <1>6 DEF Untouched, RowFits
<1>13. \A e \in auth_events' : e.request # r
  BY <1>1, <1>5 DEF Untouched
<1>14. requests'[r].pc = "committed" => Kept(r)'
  BY <1>1, <1>5, <1>6, <1>8 DEF Kept
<1>15. requests'[r].pc = "answered" => TurnedDown(r)' /\ requests'[r].status >= 400
  BY <1>1, <1>5, <1>6 DEF TurnedDown, Untouched
<1>16. requests'[r].kind \in {"write", "administer"} => r \in changed' /\ Audited(r, {"SUCCESS"})'
  BY <1>5, <1>6, <1>8
<1>17. QED
  BY <1>1, <1>6, <1>7, <1>10, <1>11, <1>12, <1>13, <1>14, <1>15, <1>16 DEF Good

\* The count of the failures.
LEMMA CountingAction ==
  ASSUME IInv, NEW r \in Requests, r \in Logins, NEW identity \in Identities,
         NEW address \in Addresses, CountFailures(r, identity, address)
  PROVE  TypeOK' /\ IsFiniteSet(auth_events') /\ Good(r)'
<1>1. TypeOK /\ Good(r) /\ Untouched(r) /\ requests[r].pc = "begun" /\ requests[r].kind = "login"
  BY DEF IInv, Good, CountFailures, In
<1>2. "counted" \in Phases
  BY DEF Phases
<1>3. /\ requests' \in [Requests -> {Waiting} \cup Started]
      /\ requests'[r].pc = "counted" /\ requests'[r].kind = "login"
  BY <1>1, <1>2, Going DEF CountFailures
<1>4. PICK found \in SUBSET auth_events :
        guesses' = [guesses EXCEPT ![r] =
          [identity |-> identity, address |-> address, at |-> clock,
           attempts |-> Cardinality(found)]]
  BY DEF CountFailures, Failures
<1>5. Cardinality(found) \in Nat
  BY <1>4, FS_Subset, FS_CardinalityType DEF IInv
<1>6. PICK new \in Guess : guesses' = [guesses EXCEPT ![r] = new] /\ new.at = clock
  <2>1. clock \in 0 .. MaxTime
    BY <1>1 DEF TypeOK
  <2>2. \A n \in Nat : [identity |-> identity, address |-> address, at |-> clock,
                       attempts |-> n] \in Guess
    BY <2>1 DEF Guess
  <2>3. QED
    BY <1>4, <1>5, <2>2
<1>7. guesses' \in [Logins -> {NoGuess} \cup Guess] /\ guesses'[r] = new
  BY <1>1, <1>6 DEF TypeOK
<1>8. UNCHANGED <<changed, audit_events, auth_events, unrecorded, clock>>
  BY DEF CountFailures
<1>9. clock \in Nat
  BY <1>1, AuditAssumption DEF TypeOK
<1>10. GuessFits(r)'
  BY <1>6, <1>7, <1>8, <1>9 DEF GuessFits
<1>11. Untouched(r)'
  BY <1>1, <1>8 DEF Untouched
<1>12. TypeOK' /\ IsFiniteSet(auth_events')
  BY <1>1, <1>3, <1>7, <1>8 DEF TypeOK, IInv
<1>13. ~Refused(r)'
  BY <1>3 DEF Refused, In
<1>14. QED
  BY <1>3, <1>10, <1>11, <1>12, <1>13 DEF Good, Untouched

\* The verdict on a login and its row.
LEMMA JudgingActions ==
  ASSUME IInv, NEW r \in Requests, r \in Logins, LimitLogin(r) \/ RefuseLogin(r) \/ AcceptLogin(r)
  PROVE  TypeOK' /\ IsFiniteSet(auth_events') /\ Good(r)'
<1>1. /\ TypeOK /\ Good(r) /\ Untouched(r) /\ requests[r].pc = "counted"
      /\ requests[r].kind = "login" /\ GuessFits(r)
  BY DEF IInv, Good, LimitLogin, RefuseLogin, AcceptLogin, In
<1>2. /\ {"answered", "committed", "failed"} \subseteq Phases
      /\ {401, 429} \subseteq Statuses
  BY DEF Phases, Statuses
<1>3. PICK reason \in {"NONE", "RATE_LIMITED", "REFUSED"}, status \in {401, 429} :
        /\ Judge(r, reason, IF reason = "NONE" THEN Go(r, "committed")
                            ELSE Answer(r, status, "none"))
        /\ reason = "REFUSED" <=> status = 401 /\ reason # "NONE"
        /\ reason = "RATE_LIMITED" <=> status = 429 /\ reason # "NONE"
  <2>1. CASE LimitLogin(r)
    BY <2>1 DEF LimitLogin, Judge
  <2>2. CASE RefuseLogin(r)
    BY <2>2 DEF RefuseLogin, Judge
  <2>3. CASE AcceptLogin(r)
    BY <2>3 DEF AcceptLogin, Judge
  <2>4. QED
    BY <2>1, <2>2, <2>3
<1>4. PICK new \in AuthRow :
        /\ auth_events' = auth_events \cup {new}
        /\ new.request = r /\ new.reason = reason /\ new.identity = guesses[r].identity
        /\ new.address = guesses[r].address /\ new.at = guesses[r].at
  <2>1. /\ guesses[r].identity \in Identities /\ guesses[r].address \in Addresses
        /\ guesses[r].at \in 0 .. MaxTime
    BY <1>1 DEF GuessFits, Guess
  <2>2. [request |-> r, reason |-> reason, identity |-> guesses[r].identity,
         address |-> guesses[r].address, at |-> guesses[r].at] \in AuthRow
    BY <2>1 DEF AuthRow
  <2>3. QED
    BY <1>3, <2>2 DEF Judge
<1>5. /\ guesses' = guesses /\ changed' = changed /\ audit_events' = audit_events
      /\ unrecorded' = unrecorded /\ clock' = clock
  BY <1>3 DEF Judge
<1>6. /\ requests' \in [Requests -> {Waiting} \cup Started]
      /\ requests'[r].kind = "login"
      /\ \/ requests'[r].pc = "failed"
         \/ requests'[r].pc = "committed" /\ reason = "NONE"
         \/ /\ requests'[r].pc = "answered" /\ requests'[r].status = status
            /\ reason # "NONE"
  <2>1. CASE Go(r, "failed")
    BY <2>1, <1>1, <1>2, Going
  <2>2. CASE reason = "NONE" /\ Go(r, "committed")
    BY <2>2, <1>1, <1>2, Going
  <2>3. CASE reason # "NONE" /\ Answer(r, status, "none")
    BY <2>3, <1>1, <1>2, Moving DEF Answer
  <2>4. QED
    BY <1>3, <2>1, <2>2, <2>3 DEF Judge
<1>7. TypeOK'
  <2>1. auth_events' \subseteq AuthRow
    BY <1>1, <1>4, <1>5 DEF TypeOK
  <2>2. QED
    BY <1>1, <1>5, <1>6, <2>1 DEF TypeOK
<1>8. IsFiniteSet(auth_events')
  BY <1>4, FS_AddElement DEF IInv
<1>9. Judged(r, {reason})'
  BY <1>4 DEF Judged
<1>10. ~Audited(r, {"SUCCESS"})' /\ ~Audited(r, FailureRows)'
  BY <1>1, <1>5 DEF Untouched, Audited
<1>11. requests'[r].pc = "committed" => Kept(r)'
  BY <1>6, <1>9 DEF Kept
<1>12. requests'[r].pc = "answered" => TurnedDown(r)' /\ requests'[r].status >= 400
  <2>1. r \notin changed'
    BY <1>1, <1>5 DEF Untouched
  <2>2. /\ reason = "REFUSED" => Judged(r, {"REFUSED"})'
        /\ reason = "RATE_LIMITED" => Judged(r, {"RATE_LIMITED"})'
    BY <1>4 DEF Judged
  <2>3. requests'[r].pc = "answered" => requests'[r].status = status /\ reason # "NONE"
    BY <1>6
  <2>4. requests'[r].pc = "answered" => TurnedDown(r)'
    <3>1. requests'[r].pc = "answered" =>
            /\ requests'[r].status = 401 => reason = "REFUSED"
            /\ requests'[r].status = 429 => reason = "RATE_LIMITED"
      BY <1>3, <2>3
    <3>2. QED
      BY <1>10, <2>1, <2>2, <3>1 DEF TurnedDown
  <2>5. status >= 400
    OBVIOUS
  <2>6. QED
    BY <2>3, <2>4, <2>5
<1>13. ~Refused(r)'
  BY <1>6 DEF Refused, In
<1>14. GuessFits(r)'
  BY <1>1, <1>5 DEF GuessFits
<1>15. \A e \in auth_events' : e.request = r =>
         /\ e.identity = guesses'[r].identity /\ e.address = guesses'[r].address
         /\ e.at = guesses'[r].at
  BY <1>1, <1>4, <1>5 DEF Untouched
<1>16. \A e \in audit_events' : e.request # r
  BY <1>1, <1>5 DEF Untouched
<1>17. QED
  BY <1>6, <1>7, <1>8, <1>10, <1>11, <1>12, <1>13, <1>14, <1>15, <1>16 DEF Good

\* The middleware's row, the failure to store it, or the failure to fill it in.
LEMMA RecordingActions ==
  ASSUME IInv, NEW r \in Requests, RecordFailure(r) \/ FailToRecord(r) \/ FailToReadActor(r)
  PROVE  TypeOK' /\ IsFiniteSet(auth_events') /\ Good(r)'
<1>1. /\ TypeOK /\ Good(r) /\ requests[r].pc = "answered" /\ requests[r].kind # "inspect"
      /\ requests[r].status >= 400 /\ TurnedDown(r) /\ ~Audited(r, FailureRows)
      /\ Go(r, "done")
  BY DEF IInv, Good, RecordFailure, FailToRecord, FailToReadActor, Reported, In
<1>2. /\ requests' \in [Requests -> {Waiting} \cup Started]
      /\ requests'[r].pc = "done" /\ requests'[r].kind = requests[r].kind
      /\ requests'[r].actor = requests[r].actor /\ requests'[r].status = requests[r].status
  BY <1>1, Going DEF Phases
<1>3. /\ guesses' = guesses /\ changed' = changed /\ auth_events' = auth_events /\ clock' = clock
      /\ unrecorded' = unrecorded \/ unrecorded' = unrecorded \cup {r}
  BY DEF RecordFailure, FailToRecord, FailToReadActor
<1>4. \/ audit_events' = audit_events
      \/ \E new \in AuditRow :
           /\ audit_events' = audit_events \cup {new} /\ requests[r].actor # "expired"
           /\ new.request = r /\ new.outcome = FailureOutcome(r)
           /\ new.category = FailureCategory(r)
  <2>1. CASE FailToRecord(r) \/ FailToReadActor(r)
    BY <2>1 DEF FailToRecord, FailToReadActor
  <2>2. CASE RecordFailure(r)
    <3>1. /\ FailureOutcome(r) \in {"FAILED", "DENIED"}
          /\ FailureCategory(r) \in {"SECURITY", "OPERATION"}
      BY DEF FailureOutcome, FailureCategory
    <3>2. Stored(r, FailureOutcome(r), FailureCategory(r)) \in AuditRow
      BY <3>1 DEF Stored, AuditRow
    <3>3. QED
      BY <2>2, <3>2 DEF RecordFailure, Stored
  <2>3. QED
    BY <2>1, <2>2
<1>5. TypeOK' /\ IsFiniteSet(auth_events')
  <2>1. unrecorded' \subseteq Requests /\ audit_events' \subseteq AuditRow
    BY <1>1, <1>3, <1>4 DEF TypeOK
  <2>2. QED
    BY <1>1, <1>2, <1>3, <2>1 DEF TypeOK, IInv
<1>6. FailureOutcome(r) \in FailureRows
  BY DEF FailureOutcome, FailureRows
<1>7. Audited(r, {"SUCCESS"})' <=> Audited(r, {"SUCCESS"})
  BY <1>4, <1>6 DEF Audited, FailureRows
<1>8. requests[r].kind = "inspect" => ~Audited(r, FailureRows)'
  BY <1>1
<1>9. requests[r].actor = "expired" => ~Audited(r, FailureRows)'
  BY <1>1, <1>4 DEF Audited
<1>10. \A reasons : Judged(r, reasons)' <=> Judged(r, reasons)
  BY <1>3 DEF Judged
<1>11. TurnedDown(r)'
  BY <1>1, <1>2, <1>3, <1>7, <1>10 DEF TurnedDown
<1>12. Refused(r)'
  BY <1>1, <1>2 DEF Refused, In
<1>13. ASSUME NEW e \in audit_events', e.request = r PROVE RowFits(e)'
  <2>1. CASE e \in audit_events
    <3>1. RowFits(e) /\ e.outcome = "SUCCESS"
      BY <1>1, <1>13, <2>1 DEF Good, RowFits, Refused, In
    <3>2. QED
      BY <1>2, <1>13, <3>1 DEF RowFits
  <2>2. CASE e \notin audit_events
    <3>1. e.outcome = FailureOutcome(r) /\ e.category = FailureCategory(r)
      BY <1>4, <1>13, <2>2
    <3>2. /\ e.outcome # "SUCCESS"
          /\ e.outcome = "DENIED" <=> requests[r].status \in {401, 403}
          /\ e.category # "SECURITY" =>
               requests[r].status \notin {401, 403} /\ requests[r].kind \notin OfSecurity
      BY <3>1 DEF FailureOutcome, FailureCategory
    <3>3. QED
      BY <1>2, <1>12, <1>13, <3>2 DEF RowFits
  <2>3. QED
    BY <2>1, <2>2
<1>14. /\ r \in changed' <=> r \in changed
       /\ \A e \in auth_events' : e \in auth_events
  BY <1>3
<1>15. GuessFits(r)' <=> GuessFits(r)
  BY <1>3 DEF GuessFits
<1>16. \A e \in auth_events' : e.request = r =>
         /\ GuessFits(r)'
         /\ e.identity = guesses'[r].identity /\ e.address = guesses'[r].address
         /\ e.at = guesses'[r].at
  BY <1>1, <1>3, <1>15 DEF Good
<1>17. requests'[r].kind \in {"write", "administer"} =>
         (r \in changed' <=> Audited(r, {"SUCCESS"})')
  BY <1>1, <1>2, <1>7, <1>14 DEF Good
<1>18. r \in Logins <=> requests'[r].kind = "login"
  BY <1>1, <1>2 DEF Good
<1>19. requests'[r].status # 200
  BY <1>1, <1>2
<1>20. QED
  BY <1>1, <1>2, <1>5, <1>8, <1>9, <1>11, <1>12, <1>13, <1>16, <1>17, <1>18, <1>19 DEF Good

(***************************************************************************)
(* Every step keeps all of it.                                             *)
(***************************************************************************)
LEMMA RequestStep ==
  ASSUME IInv, NEW r \in Requests, Act(r)
  PROVE  IInv'
<1>1. TypeOK' /\ IsFiniteSet(auth_events') /\ Good(r)'
  BY ActionsOfARequest, QuietActions, CommittingActions, CountingAction, JudgingActions,
     RecordingActions
<1>2. Elsewhere(r)
  BY StepsStayApart DEF IInv
<1>3. \A q \in Requests \ {r} : Good(q)'
  BY <1>2, GoodElsewhere DEF IInv
<1>4. QED
  BY <1>1, <1>3 DEF IInv

\* Time goes on, or nothing happens.
LEMMA IdleStep ==
  ASSUME IInv, Tick \/ UNCHANGED vars
  PROVE  IInv'
<1>1. UNCHANGED <<requests, guesses, changed, audit_events, auth_events, unrecorded>>
  BY DEF Tick, vars
<1>2. clock' \in 0 .. MaxTime /\ clock <= clock' /\ clock \in Nat
  BY AuditAssumption DEF Tick, vars, IInv, TypeOK
<1>3. TypeOK' /\ IsFiniteSet(auth_events')
  BY <1>1, <1>2 DEF IInv, TypeOK
<1>4. ASSUME NEW r \in Requests PROVE Good(r)'
  <2>1. Good(r)
    BY DEF IInv
  <2>2. GuessFits(r) => GuessFits(r)'
    <3>1. SUFFICES ASSUME GuessFits(r) PROVE GuessFits(r)'
      OBVIOUS
    <3>2. guesses[r].at \in Nat
      BY <3>1, AuditAssumption DEF GuessFits, Guess
    <3>3. guesses[r].at <= clock'
      BY <1>2, <3>1, <3>2 DEF GuessFits
    <3>4. QED
      BY <1>1, <3>1, <3>3 DEF GuessFits
  <2>3. /\ Untouched(r)' <=> Untouched(r)
        /\ Kept(r)' <=> Kept(r)
        /\ TurnedDown(r)' <=> TurnedDown(r)
        /\ Refused(r)' <=> Refused(r)
        /\ \A S : Audited(r, S)' <=> Audited(r, S)
        /\ \A e : RowFits(e)' <=> RowFits(e)
    BY <1>1 DEF Untouched, Kept, TurnedDown, Refused, In, Audited, Judged, RowFits
  <2>4. QED
    BY <1>1, <2>1, <2>2, <2>3 DEF Good
<1>5. QED
  BY <1>3, <1>4 DEF IInv

\* The invariant holds at first.
LEMMA IInvInit == Init => IInv
<1> SUFFICES ASSUME Init PROVE IInv
  OBVIOUS
<1>1. TypeOK
  BY AuditAssumption DEF Init, TypeOK
<1>2. IsFiniteSet(auth_events)
  BY FS_EmptySet DEF Init
<1>3. ASSUME NEW r \in Requests PROVE Good(r)
  BY DEF Init, Good, Waiting, Untouched, Refused, In
<1>4. QED
  BY <1>1, <1>2, <1>3 DEF IInv

\* The invariant is inductive.
LEMMA IInvStep == IInv /\ [Next]_vars => IInv'
<1> SUFFICES ASSUME IInv, [Next]_vars PROVE IInv'
  OBVIOUS
<1>1. ASSUME NEW r \in Logins, Login(r) PROVE IInv'
  BY <1>1, RequestStep DEF Act, Requests
<1>2. ASSUME NEW r \in Others, Other(r) PROVE IInv'
  BY <1>2, RequestStep DEF Act, Requests
<1>3. ASSUME NEW r \in Requests, Either(r) PROVE IInv'
  BY <1>3, RequestStep DEF Act
<1>4. CASE Tick \/ UNCHANGED vars
  BY <1>4, IdleStep
<1>5. QED
  BY <1>1, <1>2, <1>3, <1>4 DEF Next

\* What is good of every request, in every reachable state.
THEOREM AuditInvariance == Spec => []IInv
BY IInvInit, IInvStep, PTL DEF Spec

\* Requests, guesses and rows stay what they are declared to be.
THEOREM AuditTypeCorrect == Spec => []TypeOK
<1>1. IInv => TypeOK
  BY DEF IInv
<1>2. QED
  BY <1>1, AuditInvariance, PTL

\* A 200 has its change and its row, a refusal has changed nothing, and a login
\* is told of its password only when the failure is stored.
THEOREM AnswersAreTrue == Spec => []AnswersTellTheTruth
<1>1. IInv => AnswersTellTheTruth
  <2> SUFFICES ASSUME IInv, NEW r \in Requests
               PROVE  /\ In(r, "done") /\ requests[r].status = 200 => Kept(r)
                      /\ Refused(r) => TurnedDown(r)
    BY DEF AnswersTellTheTruth, Kept, TurnedDown
  <2>1. QED
    BY DEF IInv, Good, In
<1>2. QED
  BY <1>1, AuditInvariance, PTL

\* A change is committed exactly when its row is, and a failure row is of a refusal
\* that has no SUCCESS row: what the lost answer to a read's commit leaves behind is
\* a user that cannot be read, and with that no second row.
THEOREM RowsAreTrue == Spec => []RowsTellTheTruth
<1>1. IInv => RowsTellTheTruth
  <2> SUFFICES ASSUME IInv PROVE RowsTellTheTruth
    OBVIOUS
  <2>1. \A r \in Others :
          requests[r].pc # "waiting" /\ requests[r].kind \in {"write", "administer"} =>
            (r \in changed <=> Audited(r, {"SUCCESS"}))
    BY DEF IInv, Good, Requests
  <2>2. ASSUME NEW e \in audit_events, e.outcome # "SUCCESS"
        PROVE  /\ Refused(e.request)
               /\ e.outcome = "DENIED" <=> requests[e.request].status \in {401, 403}
               /\ ~Audited(e.request, {"SUCCESS"})
    <3>1. e.request \in Requests
      BY DEF IInv, TypeOK, AuditRow
    <3>2. RowFits(e)
      BY <3>1 DEF IInv, Good
    <3>3. Refused(e.request) /\ e.outcome \in FailureRows
      BY <2>2, <3>2 DEF RowFits, IInv, TypeOK, AuditRow, FailureRows
    <3>4. TurnedDown(e.request) /\ requests[e.request].actor # "expired"
      BY <3>1, <3>3 DEF IInv, Good, Audited
    <3>5. QED
      BY <2>2, <3>2, <3>4 DEF RowFits, TurnedDown
  <2>3. QED
    BY <2>1, <2>2 DEF RowsTellTheTruth
<1>2. QED
  BY <1>1, AuditInvariance, PTL

\* Who sees the operations only sees no denial and nothing of accounts and sessions.
THEOREM DenialsStayHidden == Spec => []OperatorsSeeNoDenials
<1>1. IInv => OperatorsSeeNoDenials
  <2> SUFFICES ASSUME IInv, NEW e \in audit_events, e.category # "SECURITY"
               PROVE  e.outcome # "DENIED" /\ requests[e.request].kind \notin OfSecurity
    BY DEF OperatorsSeeNoDenials, Visible
  <2>1. e.request \in Requests
    BY DEF IInv, TypeOK, AuditRow
  <2>2. RowFits(e)
    BY <2>1 DEF IInv, Good
  <2>3. QED
    BY <2>2 DEF RowFits
<1>2. QED
  BY <1>1, AuditInvariance, PTL

(***************************************************************************)
(* The limit on failed logins.                                             *)
(***************************************************************************)

\* No more requests are in progress than there are workers.
FewInProgress == IsFiniteSet(Requests) /\ Cardinality(InProgress) <= Workers

\* Only Begin puts a request in progress.
LEMMA WorkersBound ==
  ASSUME IInv, FewInProgress, [Next]_vars
  PROVE  FewInProgress'
<1>1. IsFiniteSet(InProgress) /\ InProgress \subseteq Requests /\ Cardinality(InProgress) \in Nat
  BY FS_Subset, FS_CardinalityType DEF FewInProgress, InProgress
<1>2. Workers \in Nat
  BY AuditAssumption
<1>3. ASSUME InProgress' \subseteq InProgress PROVE FewInProgress'
  <2>1. Cardinality(InProgress') <= Cardinality(InProgress) /\ IsFiniteSet(InProgress')
    BY <1>1, <1>3, FS_Subset
  <2>2. Cardinality(InProgress') \in Nat
    BY <2>1, FS_CardinalityType
  <2>3. QED
    BY <1>1, <1>2, <2>1, <2>2 DEF FewInProgress
<1>4. ASSUME NEW r \in Requests, NEW kind, Begin(r, kind) PROVE FewInProgress'
  <2>1. InProgress' \subseteq InProgress \cup {r}
    <3>1. \A q \in Requests \ {r} : requests'[q] = requests[q]
      BY <1>4 DEF Begin, IInv, TypeOK
    <3>2. QED
      BY <3>1 DEF InProgress
  <2>2. Cardinality(InProgress \cup {r}) <= Workers /\ IsFiniteSet(InProgress \cup {r})
    <3>1. Cardinality(InProgress) < Workers
      BY <1>4 DEF Begin
    <3>2. /\ IsFiniteSet(InProgress \cup {r})
          /\ Cardinality(InProgress \cup {r}) = IF r \in InProgress THEN Cardinality(InProgress)
                                              ELSE Cardinality(InProgress) + 1
      BY <1>1, FS_AddElement
    <3>3. QED
      BY <1>1, <1>2, <3>1, <3>2
  <2>3. Cardinality(InProgress') <= Cardinality(InProgress \cup {r}) /\ IsFiniteSet(InProgress')
    BY <2>1, <2>2, FS_Subset
  <2>4. Cardinality(InProgress') \in Nat /\ Cardinality(InProgress \cup {r}) \in Nat
    BY <2>2, <2>3, FS_CardinalityType
  <2>5. QED
    BY <1>2, <2>2, <2>3, <2>4 DEF FewInProgress
<1>5. ASSUME NEW r \in Requests, Act(r), \A kind : ~Begin(r, kind) PROVE InProgress' \subseteq InProgress
  <2>1. \A q \in Requests \ {r} : requests'[q] = requests[q]
    BY <1>5, StepsStayApart DEF Elsewhere, IInv
  <2>2. requests[r].pc \notin Ended
    <3>1. SignIn(r) \/ RefuseStranger(r) => requests[r].pc \notin Ended
      BY DEF SignIn, RefuseStranger, In, Ended
    <3>2. \A status : Refuse(r, status) \/ RefuseInput(r, status) => requests[r].pc \notin Ended
      BY DEF Refuse, RefuseInput, In, Ended
    <3>3. CommitChange(r) \/ CommitRead(r) => requests[r].pc \notin Ended
      BY DEF CommitChange, CommitRead, In, Ended
    <3>4. FailRead(r) \/ Serve(r) => requests[r].pc \notin Ended
      BY DEF FailRead, Serve, In, Ended
    <3>5. Succeed(r) \/ Fail(r) => requests[r].pc \notin Ended
      BY DEF Succeed, Fail, In, Ended
    <3>6. \A identity, address : CountFailures(r, identity, address) => requests[r].pc \notin Ended
      BY DEF CountFailures, In, Ended
    <3>7. LimitLogin(r) \/ RefuseLogin(r) \/ AcceptLogin(r) => requests[r].pc \notin Ended
      BY DEF LimitLogin, RefuseLogin, AcceptLogin, In, Ended
    <3>8. /\ RecordFailure(r) \/ FailToRecord(r) => requests[r].pc \notin Ended
          /\ FailToReadActor(r) \/ PassOn(r) => requests[r].pc \notin Ended
      BY DEF RecordFailure, FailToRecord, FailToReadActor, PassOn, Reported, In, Ended
    <3>9. QED
      BY <1>5, <3>1, <3>2, <3>3, <3>4, <3>5, <3>6, <3>7, <3>8, ActionsOfARequest
  <2>3. QED
    BY <2>1, <2>2 DEF InProgress
<1>6. CASE Tick \/ UNCHANGED vars
  <2>1. InProgress' = InProgress
    BY <1>6 DEF Tick, vars, InProgress
  <2>2. QED
    BY <1>3, <2>1
<1>7. ASSUME NEW r \in Requests, Act(r) PROVE FewInProgress'
  BY <1>3, <1>4, <1>5, <1>7
<1>8. QED
  BY <1>6, <1>7 DEF Next, Act, Requests

Fields == {"identity", "address"}

\* The passwords tried in a window for an identity or from an address.
Group(start, field, value) == {r \in Tried(start) : guesses[r][field] = value}

GroupsStaySmall == \A start \in 0 .. MaxTime, field \in Fields :
                     \A value : Cardinality(Group(start, field, value)) < Limit + Workers

LInv == IInv /\ FewInProgress /\ GroupsStaySmall

\* A group of guesses is a finite set of logins.
LEMMA GroupsAreFinite ==
  ASSUME FewInProgress, NEW start, NEW field, NEW value
  PROVE  /\ Group(start, field, value) \subseteq Logins
         /\ IsFiniteSet(Group(start, field, value))
         /\ Cardinality(Group(start, field, value)) \in Nat
<1>1. Group(start, field, value) \subseteq Logins
  BY DEF Group, Tried, Passed
<1>2. QED
  BY <1>1, FS_Subset, FS_CardinalityType DEF FewInProgress, Requests

\* A login that is let through was let through before, unless it is only now counted.
LEMMA PassedBefore ==
  ASSUME IInv, NEW r \in Requests, Act(r),
         NEW q \in Logins, q # r \/ (\A i, a : ~CountFailures(r, i, a)), q \in Passed'
  PROVE  q \in Passed /\ guesses'[q] = guesses[q]
<1>1. TypeOK /\ Good(q) /\ Elsewhere(r)
  BY StepsStayApart DEF IInv, Requests
<1>2. CASE q # r
  <2>1. guesses'[q] = guesses[q] /\ requests'[q] = requests[q]
    BY <1>1, <1>2 DEF Elsewhere, Requests
  <2>2. Judged(q, {"REFUSED"})' => Judged(q, {"REFUSED"})
    BY <1>1, <1>2 DEF Elsewhere, Judged
  <2>3. QED
    BY <2>1, <2>2 DEF Passed, In
<1>3. CASE q = r
  <2>1. CASE LimitLogin(r) \/ RefuseLogin(r) \/ AcceptLogin(r)
    <3>1. /\ guesses' = guesses /\ requests[r].pc = "counted" /\ Untouched(r)
          /\ requests'[r].pc # "counted"
      <4>1. Good(r) /\ requests[r].pc = "counted"
        BY <1>1, <1>3, <2>1 DEF LimitLogin, RefuseLogin, AcceptLogin, In
      <4>2. requests'[r].pc # "counted"
        BY <1>1, <2>1, <4>1 DEF LimitLogin, RefuseLogin, AcceptLogin, Judge, Answer, Go, Move,
           TypeOK
      <4>3. guesses' = guesses
        BY <2>1 DEF LimitLogin, RefuseLogin, AcceptLogin, Judge
      <4>4. QED
        BY <4>1, <4>2, <4>3 DEF Good
    <3>2. CASE RefuseLogin(r)
      BY <1>3, <3>1, <3>2 DEF RefuseLogin, Passed, In
    <3>3. ~RefuseLogin(r) => ~Judged(r, {"REFUSED"})'
      BY <2>1, <3>1 DEF LimitLogin, AcceptLogin, Judge, Judged, Untouched
    <3>4. QED
      BY <1>3, <3>1, <3>2, <3>3 DEF Passed, In
  <2>2. CASE ~(LimitLogin(r) \/ RefuseLogin(r) \/ AcceptLogin(r))
    <3>1. guesses' = guesses /\ auth_events' = auth_events
      BY <1>3, <2>2, ActionsOfARequest DEF Begin, SignIn, RefuseStranger, Refuse, RefuseInput,
         CommitChange, CommitRead, FailRead, Serve, Succeed, Fail, RecordFailure, FailToRecord,
         FailToReadActor, PassOn, Reported
    <3>2. requests'[r].pc # "counted"
      BY <1>1, <1>3, <2>2, ActionsOfARequest DEF Begin, SignIn, RefuseStranger, Refuse,
         RefuseInput, CommitChange, CommitRead, FailRead, Serve, Succeed, Fail, RecordFailure,
         FailToRecord, FailToReadActor, PassOn, Reported, Answer, Go, Move, TypeOK
    <3>3. QED
      BY <1>3, <3>1, <3>2 DEF Passed, In, Judged
  <2>3. QED
    BY <2>1, <2>2
<1>4. QED
  BY <1>2, <1>3

\* Such a step makes no group larger.
LEMMA GroupsOnlyShrink ==
  ASSUME IInv, FewInProgress, GroupsStaySmall, NEW r \in Requests, Act(r),
         \A i, a : ~CountFailures(r, i, a)
  PROVE  GroupsStaySmall'
<1>1. SUFFICES ASSUME NEW start \in 0 .. MaxTime, NEW field \in Fields, NEW value
               PROVE  Cardinality(Group(start, field, value)') < Limit + Workers
  BY DEF GroupsStaySmall
<1>2. Group(start, field, value)' \subseteq Group(start, field, value)
  BY PassedBefore DEF Group, Tried, Passed
<1>3. /\ Cardinality(Group(start, field, value)') <= Cardinality(Group(start, field, value))
      /\ IsFiniteSet(Group(start, field, value)')
  BY <1>2, GroupsAreFinite, FS_Subset
<1>4. /\ Cardinality(Group(start, field, value)') \in Nat
      /\ Cardinality(Group(start, field, value)) \in Nat
  BY <1>3, GroupsAreFinite, FS_CardinalityType
<1>5. QED
  BY <1>3, <1>4, AuditAssumption DEF GroupsStaySmall

\* The failures that a count finds.
Found(identity, address) ==
  {e \in Failures : Recent(e) /\ (e.identity = identity \/ e.address = address)}

\* Those let through before, whose window has the new one in it and whose failure
\* is stored, are found by the count: one failure each.
LEMMA StoredAreFound ==
  ASSUME IInv, FewInProgress, NEW identity, NEW address, NEW stored \in SUBSET Logins,
         \A q \in stored : \E e \in Found(identity, address) : e.request = q
  PROVE  /\ IsFiniteSet(stored) /\ Cardinality(stored) \in Nat
         /\ Cardinality(Found(identity, address)) \in Nat
         /\ Cardinality(stored) <= Cardinality(Found(identity, address))
<1> DEFINE found == Found(identity, address)
           f == [e \in found |-> e.request]
           named == {f[e] : e \in found}
<1>1. IsFiniteSet(found) /\ Cardinality(found) \in Nat
  BY FS_Subset, FS_CardinalityType DEF IInv, Found, Failures
<1>2. f \in Surjection(found, named)
  BY DEF Surjection
<1>3. stored \subseteq named
  OBVIOUS
<1> HIDE DEF found, f, named
<1>4. IsFiniteSet(named) /\ Cardinality(named) <= Cardinality(found)
  BY <1>1, <1>2, FS_Surjection
<1>5. IsFiniteSet(stored) /\ Cardinality(stored) <= Cardinality(named)
  BY <1>3, <1>4, FS_Subset
<1>6. Cardinality(stored) \in Nat /\ Cardinality(named) \in Nat
  BY <1>4, <1>5, FS_CardinalityType
<1>7. QED
  BY <1>1, <1>4, <1>5, <1>6 DEF found

\* A login that is let through finds fewer than Limit failures in its window, and
\* the others let through in it are in progress.
LEMMA CountedGroupsStaySmall ==
  ASSUME IInv, FewInProgress, FewInProgress', GroupsStaySmall, NEW r \in Logins,
         NEW identity \in Identities, NEW address \in Addresses,
         CountFailures(r, identity, address)
  PROVE  GroupsStaySmall'
<1>1. SUFFICES ASSUME NEW start \in 0 .. MaxTime, NEW field \in Fields, NEW value
               PROVE  Cardinality(Group(start, field, value)') < Limit + Workers
  BY DEF GroupsStaySmall
<1>2. /\ TypeOK /\ Act(r) /\ Untouched(r) /\ auth_events' = auth_events /\ r \in Requests
      /\ requests[r].pc = "begun"
  <2>1. r \in Requests /\ Act(r) /\ requests[r].pc = "begun" /\ auth_events' = auth_events
    BY DEF Requests, Act, Login, CountFailures, In
  <2>2. QED
    BY <2>1 DEF IInv, Good
<1>3. Workers \in Nat /\ Limit \in Nat /\ Window \in Nat /\ start \in Nat /\ clock \in Nat
  BY <1>2, AuditAssumption DEF TypeOK
<1>4. \A q \in Logins \ {r} : q \in Passed' => q \in Passed /\ guesses'[q] = guesses[q]
  BY <1>2, PassedBefore
<1>5. \A q \in Logins \ {r} : q \in Group(start, field, value)' => q \in Group(start, field, value)
  BY <1>4 DEF Group, Tried
<1>6. CASE r \notin Group(start, field, value)'
  <2>1. Group(start, field, value)' \subseteq Group(start, field, value)
    BY <1>5, <1>6 DEF Group, Tried, Passed
  <2>2. /\ Cardinality(Group(start, field, value)') <= Cardinality(Group(start, field, value))
        /\ IsFiniteSet(Group(start, field, value)')
    BY <2>1, GroupsAreFinite, FS_Subset
  <2>3. /\ Cardinality(Group(start, field, value)') \in Nat
        /\ Cardinality(Group(start, field, value)) \in Nat
    BY <2>2, GroupsAreFinite, FS_CardinalityType
  <2>4. QED
    BY <1>3, <2>2, <2>3 DEF GroupsStaySmall
<1>7. CASE r \in Group(start, field, value)'
  <2>1. PICK group : group = Group(start, field, value)'
    OBVIOUS
  <2>2. PICK stored \in SUBSET Logins :
          stored = {q \in Logins : q \in group /\ Judged(q, {"REFUSED"})}
    OBVIOUS
  <2>3. PICK inflight \in SUBSET Requests : inflight = {q \in Requests : requests'[q].pc = "counted"}
    OBVIOUS
  <2>4. group \subseteq stored \cup inflight
    BY <1>2, <2>1, <2>2, <2>3 DEF Group, Tried, Passed, In, Judged, Requests
  <2>5. ~Judged(r, {"REFUSED"}) /\ r \notin stored
    BY <1>2, <2>2 DEF Judged, Untouched
  <2>6. guesses'[r] = [identity |-> identity, address |-> address, at |-> clock,
                       attempts |-> Cardinality(Found(identity, address))]
    BY <1>2 DEF CountFailures, Found, TypeOK
  <2>7. r \in Passed' /\ guesses'[r].at \in start .. start + Window /\ guesses'[r][field] = value
    BY <1>7 DEF Group, Tried
  <2>8. Cardinality(Found(identity, address)) < Limit
    BY <1>2, <2>5, <2>6, <2>7 DEF Passed, Judged
  <2>9. clock <= start + Window /\ start <= clock
    BY <1>3, <2>6, <2>7
  <2>10. \/ field = "identity" /\ value = identity
         \/ field = "address" /\ value = address
    BY <2>6, <2>7 DEF Fields
  <2>11. ASSUME NEW q \in stored
         PROVE  \E e \in Found(identity, address) : e.request = q
    <3>1. PICK e \in auth_events : e.request = q /\ e.reason = "REFUSED"
      BY <2>2 DEF Judged
    <3>2. /\ q \in Requests /\ q # r /\ q \in Logins /\ q \in group
      BY <2>2, <2>5 DEF Requests
    <3>3. /\ GuessFits(q) /\ e.identity = guesses[q].identity /\ e.address = guesses[q].address
          /\ e.at = guesses[q].at
      BY <3>1, <3>2 DEF IInv, Good
    <3>4. guesses[q].at \in start .. start + Window /\ guesses[q][field] = value
      BY <1>5, <2>1, <3>2 DEF Group, Tried
    <3>5. e.identity = identity \/ e.address = address
      BY <2>10, <3>3, <3>4
    <3>6. e.at + Window >= clock
      BY <1>3, <2>9, <3>3, <3>4
    <3>7. QED
      BY <3>1, <3>5, <3>6 DEF Found, Failures, Recent
  <2>12. /\ IsFiniteSet(stored) /\ Cardinality(stored) \in Nat
         /\ Cardinality(Found(identity, address)) \in Nat
         /\ Cardinality(stored) <= Cardinality(Found(identity, address))
    BY <2>11, StoredAreFound
  <2>13. IsFiniteSet(inflight) /\ Cardinality(inflight) \in Nat /\ Cardinality(inflight) <= Workers
    <3>1. inflight \subseteq InProgress'
      BY <2>3 DEF InProgress, Ended
    <3>2. /\ IsFiniteSet(InProgress') /\ Cardinality(InProgress') <= Workers
      BY FS_Subset DEF FewInProgress, InProgress
    <3>3. IsFiniteSet(inflight) /\ Cardinality(inflight) <= Cardinality(InProgress')
      BY <3>1, <3>2, FS_Subset
    <3>4. Cardinality(inflight) \in Nat /\ Cardinality(InProgress') \in Nat
      BY <3>2, <3>3, FS_CardinalityType
    <3>5. QED
      BY <1>3, <3>2, <3>3, <3>4
  <2>14. /\ IsFiniteSet(stored \cup inflight)
         /\ Cardinality(stored \cup inflight)
              = Cardinality(stored) + Cardinality(inflight) - Cardinality(stored \cap inflight)
         /\ Cardinality(stored \cap inflight) \in Nat
    BY <2>12, <2>13, FS_Union, FS_Subset, FS_CardinalityType
  <2>15. /\ IsFiniteSet(group) /\ Cardinality(group) \in Nat
         /\ Cardinality(group) <= Cardinality(stored \cup inflight)
    BY <2>4, <2>14, FS_Subset, FS_CardinalityType
  <2>16. Cardinality(group) < Limit + Workers
    BY <1>3, <2>8, <2>12, <2>13, <2>14, <2>15
  <2>17. QED
    BY <2>1, <2>16
<1>8. QED
  BY <1>6, <1>7

\* The bounds on guesses hold at first.
LEMMA LimitInit == Init => FewInProgress /\ GroupsStaySmall
<1> SUFFICES ASSUME Init PROVE FewInProgress /\ GroupsStaySmall
  OBVIOUS
<1>1. InProgress = {}
  BY DEF Init, InProgress, Waiting, Ended
<1>2. \A start, field, value : Group(start, field, value) = {}
  <2>1. Passed = {}
    BY DEF Init, Passed, Waiting, In, Judged, Requests
  <2>2. QED
    BY <2>1 DEF Group, Tried
<1>3. IsFiniteSet(Requests)
  BY AuditAssumption, FS_Union DEF Requests
<1>4. Cardinality({}) = 0
  BY FS_EmptySet
<1>5. FewInProgress
  BY <1>1, <1>3, <1>4, AuditAssumption DEF FewInProgress
<1>6. GroupsStaySmall
  BY <1>2, <1>4, AuditAssumption DEF GroupsStaySmall
<1>7. QED
  BY <1>5, <1>6

\* The bound on every group of guesses is kept.
LEMMA LimitStep == IInv /\ FewInProgress /\ GroupsStaySmall /\ [Next]_vars => GroupsStaySmall'
<1> SUFFICES ASSUME IInv, FewInProgress, GroupsStaySmall, [Next]_vars PROVE GroupsStaySmall'
  OBVIOUS
<1>1. FewInProgress'
  BY WorkersBound
<1>2. CASE Tick \/ UNCHANGED vars
  <2>1. requests' = requests /\ guesses' = guesses /\ auth_events' = auth_events
    BY <1>2 DEF Tick, vars
  <2>2. \A start, field, value : Group(start, field, value)' = Group(start, field, value)
    BY <2>1 DEF Group, Tried, Passed, In, Judged
  <2>3. QED
    BY <2>2 DEF GroupsStaySmall
<1>3. ASSUME NEW r \in Requests, Act(r) PROVE GroupsStaySmall'
  <2>1. CASE \A i, a : ~CountFailures(r, i, a)
    BY <1>3, <2>1, GroupsOnlyShrink
  <2>2. CASE \E i, a : CountFailures(r, i, a)
    <3>1. requests[r].kind = "login" /\ requests[r].pc = "begun" /\ requests'[r].pc = "counted"
      BY <2>2 DEF CountFailures, In, Go, Move, IInv, TypeOK
    <3>2. r \in Logins
      BY <3>1, KindsOfRequests
    <3>3. \E i \in Identities, a \in Addresses : CountFailures(r, i, a)
      BY <1>3, <3>1, <3>2, ActionsOfARequest, AuditAssumption DEF Begin, SignIn, RefuseStranger,
         Refuse, RefuseInput, CommitChange, CommitRead, FailRead, Serve, Succeed, Fail, LimitLogin,
         RefuseLogin, AcceptLogin, RecordFailure, FailToRecord, FailToReadActor, PassOn, Reported, In,
         Answer, Go, Move, IInv, TypeOK
    <3>4. QED
      BY <1>1, <3>2, <3>3, CountedGroupsStaySmall
  <2>3. QED
    BY <2>1, <2>2
<1>4. QED
  BY <1>2, <1>3 DEF Next, Act, Requests

\* In any window of the limit's length fewer than Limit + Workers passwords are
\* tried for an identity, and as many from an address.
THEOREM GuessesAreLimited == Spec => []GuessesStayNearTheLimit
<1>1. FewInProgress /\ IInv /\ [Next]_vars => FewInProgress'
  BY WorkersBound
<1>2. GroupsStaySmall => GuessesStayNearTheLimit
  <2>1. SUFFICES ASSUME GroupsStaySmall, NEW start \in 0 .. MaxTime
                 PROVE  /\ \A identity \in Identities :
                             Cardinality({r \in Tried(start) : guesses[r].identity = identity})
                               < Limit + Workers
                        /\ \A address \in Addresses :
                             Cardinality({r \in Tried(start) : guesses[r].address = address})
                               < Limit + Workers
    BY DEF GuessesStayNearTheLimit
  <2>2. \A field \in Fields : \A value : Cardinality(Group(start, field, value)) < Limit + Workers
    BY <2>1 DEF GroupsStaySmall
  <2>3. ASSUME NEW identity
        PROVE  Cardinality({r \in Tried(start) : guesses[r].identity = identity}) < Limit + Workers
    <3>1. Cardinality(Group(start, "identity", identity)) < Limit + Workers
      BY <2>2 DEF Fields
    <3>2. QED
      BY <3>1 DEF Group
  <2>4. ASSUME NEW address
        PROVE  Cardinality({r \in Tried(start) : guesses[r].address = address}) < Limit + Workers
    <3>1. Cardinality(Group(start, "address", address)) < Limit + Workers
      BY <2>2 DEF Fields
    <3>2. QED
      BY <3>1 DEF Group
  <2>5. QED
    BY <2>3, <2>4
<1>3. QED
  BY <1>1, <1>2, IInvInit, IInvStep, LimitInit, LimitStep, PTL DEF Spec
================================================================================
