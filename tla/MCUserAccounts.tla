----------------------------- MODULE MCUserAccounts -----------------------------
(* Small instances of UserAccounts for TLC. *)
EXTENDS UserAccounts, TLC

Patch(role, active, password) ==
  [role |-> role, active |-> active, password |-> password, identity |-> FALSE]

Demotion == Patch("staff", Keep, FALSE)
Deactivation == Patch(Keep, "false", FALSE)
Promotion == Patch("admin", Keep, FALSE)
Reset == Patch(Keep, Keep, TRUE)
Replacement == [Reset EXCEPT !.identity = TRUE]

DeactivationAndReplacement == {Deactivation, Replacement}
PromotionAndDeactivation == {Promotion, Deactivation, Demotion}
Resets == {Reset}

\* Request slots and session ids have no order: the first idle slot takes a
\* request, and the first unused id goes to a session.
InOrder ==
  /\ \A g, h \in Handlers :
       g < h /\ handlers[h] = Idle /\ handlers'[h] # Idle => handlers[g] # Idle
  /\ \A x, y \in Tokens : x < y /\ sessions'[y] # Unissued => sessions'[x] # Unissued

\* Bounds: accounts that did not exist at first are created, as administrators,
\* and neither changed nor signed in, no other account is created, the seed
\* command finds its password in place, and who revokes sessions revokes some.
Usual(handler) ==
  CASE handler.pc = "begun" ->
         IF handler.req.target \in FirstAdmins THEN handler.req.op # "CREATE"
         ELSE handler.req.op = "CREATE" /\ handler.req.patch.role = "admin"
    [] handler.pc = "login" -> handler.user \in FirstAdmins
    [] handler.pc = "seeding" -> ~handler.rekeys
    [] handler.pc = "ready" -> handler.req.op = "REVOKE" => handler.listed # {}
    [] OTHER -> TRUE

MCFairSpec == /\ Init /\ [][Next /\ InOrder /\ \A h \in Handlers : Usual(handlers'[h])]_vars
              /\ \A h \in Handlers : SF_vars(Advance(h))

Symmetric == Permutations(Handlers) \cup Permutations(Tokens) \cup Permutations(FirstAdmins)
               \cup Permutations(FirstStaff)
=============================================================================
