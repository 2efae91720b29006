----------------------------- MODULE MCRequestAudit -----------------------------
(* A small instance of RequestAudit for TLC. *)
EXTENDS RequestAudit, TLC

Symmetric == Permutations(Logins)
               \cup Permutations(Identities) \cup Permutations(Addresses)

\* Logins and other requests read nothing of one another: a behaviour has either.
Apart == \/ \A r \in Logins : In(r, "waiting")
         \/ \A r \in Others : In(r, "waiting")

\* Bound: logins that meet a failure of the database or the process.
Struck == {r \in Logins : In(r, "failed") \/ r \in unrecorded}
OneStruck == Cardinality(Struck) <= 1

MCSpec == Init /\ [][Next /\ Apart' /\ OneStruck']_vars
=============================================================================
