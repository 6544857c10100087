-------------------------- MODULE SessionLifecycle ---------------------------
(***************************************************************************)
(* What the refresh tokens of one login amount to, without tokens, rows    *)
(* and statements: a session that a refresh carries on and a logout ends,  *)
(* and that stays ended.  The promise is for a client that uses a token in *)
(* one request at a time; a session whose token two requests used at once  *)
(* is "disputed", and nothing more is promised of it.                      *)
(***************************************************************************)
CONSTANT Logins

VARIABLE session   \* [Logins -> session state]

Init == session = [f \in Logins |-> "none"]

Becomes(f, from, to) ==
  session[f] \in from /\ session' = [session EXCEPT ![f] = to]

\* login_user: the user has a refresh token
Begin(f)   == Becomes(f, {"none"}, "active")

\* /auth/refresh: the old token is revoked, the new one is not stored yet
Renew(f)   == Becomes(f, {"active"}, "renewing")
Renewed(f) == Becomes(f, {"renewing"}, "active")

\* /auth/logout, or a refresh that dies half-way
End(f)     == Becomes(f, {"active", "renewing"}, "ended")

\* Two requests use one of its tokens at once
Dispute(f) == Becomes(f, {"active", "renewing", "ended"}, "disputed")

Next ==
  \E f \in Logins : Begin(f) \/ Renew(f) \/ Renewed(f) \/ End(f) \/ Dispute(f)

Spec == Init /\ [][Next]_session
=============================================================================
