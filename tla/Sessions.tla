------------------------------ MODULE Sessions ------------------------------
(***************************************************************************)
(* Registration, login, refresh-token rotation and logout                  *)
(* (app/services/auth_service.py) over the users and refresh_tokens        *)
(* tables.  Each SQL statement commits by itself; a handler awaits between *)
(* them, and any token ever issued may be presented again at any time.     *)
(*                                                                         *)
(* req[q].pc is the statement handler q will send next.  A request refused *)
(* by a check changes nothing, so it is no step.  Passwords, JWTs and      *)
(* is_active (no endpoint clears it) never decide between the outcomes     *)
(* modelled here.  Each token carries, beside its columns, the token it    *)
(* was rotated from and the login it descends from.                        *)
(***************************************************************************)
EXTENDS Naturals, FiniteSets

CONSTANTS
  Emails,      \* addresses that register
  UserIds,     \* ids uuid7() may give a user
  Tokens,      \* tokens token_urlsafe() may return
  Requests,    \* handlers that may be in flight at once
  None,
  MaxFaults    \* bound: handlers that die between two statements

VARIABLES
  users,       \* [UserIds -> Emails \cup {None}]: users.email, None: no row
  tokens,      \* [Tokens -> row]; user None: not issued
  req,         \* [Requests -> handler state]
  faults,
  contended    \* history: tokens used by another request between a
               \* rotation's SELECT and its UPDATE

vars == <<users, tokens, req, faults, contended>>

ASSUME NoneAssumption == None \notin Emails \cup UserIds \cup Tokens
ASSUME FaultsAssumption == MaxFaults \in Nat

NoToken  == [user |-> None, revoked |-> FALSE, expired |-> FALSE,
             parent |-> None, login |-> None]
TokenRow == [user : UserIds \cup {None}, revoked : BOOLEAN, expired : BOOLEAN,
             parent : Tokens \cup {None}, login : Tokens \cup {None}]
NoRequest  == [pc |-> "idle", email |-> None, user |-> None, token |-> None]
RequestRow == [pc : {"idle", "insert", "revoke", "issue"},
               email : Emails \cup {None}, user : UserIds \cup {None},
               token : Tokens \cup {None}]

Registered(e) == \E u \in UserIds : users[u] = e
Issued        == {t \in Tokens : tokens[t].user # None}
Live(t)       == t \in Issued /\ ~ tokens[t].revoked
Finish(q)     == req' = [req EXCEPT ![q] = NoRequest]
Rotating(t)   == {q \in Requests : req[q].pc = "revoke" /\ req[q].token = t}

Init ==
  /\ users = [u \in UserIds |-> None]
  /\ tokens = [t \in Tokens |-> NoToken]
  /\ req = [q \in Requests |-> NoRequest]
  /\ faults = 0
  /\ contended = {}

-----------------------------------------------------------------------------
\* register_user: SELECT id FROM users WHERE email = $1 found nothing
StartRegister(q, e) ==
  /\ req[q].pc = "idle"
  /\ ~ Registered(e)
  /\ req' = [req EXCEPT ![q] = [NoRequest EXCEPT !.pc = "insert", !.email = e]]
  /\ UNCHANGED <<users, tokens, faults, contended>>

\* Mutant: users.email is not UNIQUE
InsertAnyUser(q) ==
  /\ req[q].pc = "insert"
  /\ \E u \in UserIds : /\ users[u] = None
                        /\ users' = [users EXCEPT ![u] = req[q].email]
  /\ Finish(q)
  /\ UNCHANGED <<tokens, faults, contended>>

\* ... INSERT INTO users; a duplicate address fails on the UNIQUE column, and
\* asyncpg's exception, no ValueError, is answered with a 500
InsertUser(q) ==
  /\ req[q].pc = "insert"
  /\ IF Registered(req[q].email)
       THEN UNCHANGED users
       ELSE \E u \in UserIds : /\ users[u] = None
                               /\ users' = [users EXCEPT ![u] = req[q].email]
  /\ Finish(q)
  /\ UNCHANGED <<tokens, faults, contended>>

\* Bound: a request that will issue a token starts only while one is left
TokenLeft ==
  Cardinality({q \in Requests : req[q].pc \in {"revoke", "issue"}})
    < Cardinality(Tokens \ Issued)

\* login_user: the row is found and the password matches
StartLogin(q, u) ==
  /\ req[q].pc = "idle"
  /\ users[u] # None
  /\ TokenLeft
  /\ req' = [req EXCEPT ![q] = [NoRequest EXCEPT !.pc = "issue", !.user = u]]
  /\ UNCHANGED <<users, tokens, faults, contended>>

\* Mutant: is_revoked is not checked
RotateRevoked(q, t) ==
  /\ req[q].pc = "idle"
  /\ t \in Issued
  /\ ~ tokens[t].expired
  /\ TokenLeft
  /\ contended' = IF Rotating(t) # {} THEN contended \cup {t} ELSE contended
  /\ req' = [req EXCEPT ![q] = [NoRequest EXCEPT !.pc = "revoke", !.token = t,
                                                 !.user = tokens[t].user]]
  /\ UNCHANGED <<users, tokens, faults>>

\* Mutant: the new pair is issued without revoking the old token
RotateKeepsOld(q, t) ==
  /\ req[q].pc = "idle"
  /\ Live(t)
  /\ ~ tokens[t].expired
  /\ TokenLeft
  /\ req' = [req EXCEPT ![q] = [NoRequest EXCEPT !.pc = "issue", !.token = t,
                                                 !.user = tokens[t].user]]
  /\ UNCHANGED <<users, tokens, faults, contended>>

\* Mutant: the new pair goes to some other user
RotateForAnyone(q, t) ==
  /\ req[q].pc = "idle"
  /\ Live(t)
  /\ ~ tokens[t].expired
  /\ TokenLeft
  /\ \E u \in UserIds :
       /\ users[u] # None
       /\ req' = [req EXCEPT ![q] = [NoRequest EXCEPT !.pc = "revoke", !.token = t,
                                                      !.user = u]]
  /\ UNCHANGED <<users, tokens, faults, contended>>

\* rotate_refresh_token: the SELECT and its checks
StartRotate(q, t) ==
  /\ req[q].pc = "idle"
  /\ t \in Issued
  /\ ~ tokens[t].revoked
  /\ ~ tokens[t].expired
  /\ TokenLeft
  /\ contended' = IF Rotating(t) # {} THEN contended \cup {t} ELSE contended
  /\ req' = [req EXCEPT ![q] = [NoRequest EXCEPT !.pc = "revoke", !.token = t,
                                                 !.user = tokens[t].user]]
  /\ UNCHANGED <<users, tokens, faults>>

\* Mutant: the UPDATE also asks for expires_at > NOW()
RevokeUnexpired(q) ==
  /\ req[q].pc = "revoke"
  /\ tokens' = [tokens EXCEPT ![req[q].token].revoked =
                   @ \/ ~ tokens[req[q].token].expired]
  /\ req' = [req EXCEPT ![q].pc = "issue"]
  /\ UNCHANGED <<users, faults, contended>>

\* ... UPDATE refresh_tokens SET is_revoked = TRUE WHERE id = $1, unconditionally
Revoke(q) ==
  /\ req[q].pc = "revoke"
  /\ tokens' = [tokens EXCEPT ![req[q].token].revoked = TRUE]
  /\ req' = [req EXCEPT ![q].pc = "issue"]
  /\ UNCHANGED <<users, faults, contended>>

\* Mutant: two columns of the INSERT are swapped
IssueSwapped(q, t) ==
  /\ req[q].pc = "issue"
  /\ t \notin Issued
  /\ tokens' = [tokens EXCEPT ![t] =
       [user |-> t, revoked |-> FALSE, expired |-> FALSE,
        parent |-> req[q].token, login |-> req[q].user]]
  /\ Finish(q)
  /\ UNCHANGED <<users, faults, contended>>

\* create_refresh_token, on a connection of its own: INSERT INTO refresh_tokens
IssueToken(q, t) ==
  /\ req[q].pc = "issue"
  /\ t \notin Issued
  /\ LET parent == req[q].token IN
       tokens' = [tokens EXCEPT ![t] =
         [user |-> req[q].user, revoked |-> FALSE, expired |-> FALSE,
          parent |-> parent,
          login |-> IF parent = None THEN t ELSE tokens[parent].login]]
  /\ Finish(q)
  /\ UNCHANGED <<users, faults, contended>>

\* revoke_refresh_token: one UPDATE by token_hash, of a live or a dead token
Logout(t) ==
  /\ t \in Issued
  /\ tokens' = [tokens EXCEPT ![t].revoked = TRUE]
  /\ contended' = IF Rotating(t) # {} THEN contended \cup {t} ELSE contended
  /\ UNCHANGED <<users, req, faults>>

\* expires_at passes
Expire(t) ==
  /\ t \in Issued
  /\ ~ tokens[t].expired
  /\ tokens' = [tokens EXCEPT ![t].expired = TRUE]
  /\ UNCHANGED <<users, req, faults, contended>>

\* The process or its connection dies before the handler's next statement
AbortRequest(q) ==
  /\ req[q].pc # "idle"
  /\ faults < MaxFaults
  /\ faults' = faults + 1
  /\ Finish(q)
  /\ UNCHANGED <<users, tokens, contended>>

Next ==
  \/ \E q \in Requests :
       \/ \E e \in Emails : StartRegister(q, e)
       \/ InsertUser(q)
       \/ \E u \in UserIds : StartLogin(q, u)
       \/ \E t \in Tokens : StartRotate(q, t)
       \/ Revoke(q)
       \/ \E t \in Tokens : IssueToken(q, t)
       \/ AbortRequest(q)
  \/ \E t \in Tokens : Logout(t)
  \/ \E t \in Tokens : Expire(t)

Spec == Init /\ [][Next]_vars

-----------------------------------------------------------------------------
\* Every variable keeps its type.
TypeOK ==
  /\ users \in [UserIds -> Emails \cup {None}]
  /\ tokens \in [Tokens -> TokenRow]
  /\ req \in [Requests -> RequestRow]
  /\ faults \in 0..MaxFaults
  /\ contended \in SUBSET Tokens

\* Registrations of one address that all found it free leave one account: the
\* check in register_user does not see the others, the UNIQUE column does.
UniqueEmail ==
  \A u, v \in UserIds : users[u] # None /\ users[u] = users[v] => u = v

\* What stands for a login's session: its live tokens, and the rotations that
\* have revoked one and not yet issued the next.
Issuing(f) == {q \in Requests : /\ req[q].pc = "issue"
                                /\ req[q].token # None
                                /\ tokens[req[q].token].login = f}
LiveOf(f)  == {t \in Tokens : Live(t) /\ tokens[t].login = f}
Undisturbed(f) == \A t \in contended : tokens[t].login # f

\* Rotation keeps a login at one session: while no two requests use one token
\* at once, the login has at most one live refresh token, and none while a
\* rotation is between its two statements.
OneSessionPerLogin ==
  \A f \in Issued : Undisturbed(f) =>
    /\ \A s, t \in LiveOf(f) : s = t
    /\ \A p, q \in Issuing(f) : p = q
    /\ LiveOf(f) = {} \/ Issuing(f) = {}

\* The session of each login as SessionLifecycle has it
SessionOf ==
  [f \in Tokens |-> IF tokens[f].login # f THEN "none"
                    ELSE IF ~ Undisturbed(f) THEN "disputed"
                    ELSE IF LiveOf(f) # {} THEN "active"
                    ELSE IF Issuing(f) # {} THEN "renewing"
                    ELSE "ended"]

Lifecycle == INSTANCE SessionLifecycle WITH Logins <- Tokens, session <- SessionOf

\* Every statement of every handler is a step SessionLifecycle allows: above
\* all, none brings a session back that a logout or a crash has ended.
SessionSafety == Lifecycle!Spec

\* rotate_refresh_token revokes before it issues: the token a rotation started
\* from is revoked by the time its successor exists, even if rotations race.
ParentRevoked ==
  \A t \in Issued : tokens[t].parent # None => tokens[tokens[t].parent].revoked

\* A token belongs to the user its whole chain of rotations started from.
SessionKeepsItsUser ==
  \A t \in Issued : tokens[t].login \in Issued
                    /\ tokens[tokens[t].login].user = tokens[t].user

\* A token that was rotated or logged out with no other request using it at
\* the time has at most one successor: used again later, it is refused.
NoReuse ==
  \A s, t \in Issued :
    tokens[s].parent # None /\ tokens[s].parent = tokens[t].parent /\ s # t
      => tokens[s].parent \in contended

\* README 3.1: /auth/refresh "atomically revokes the existing refresh token and
\* issues a new pair": one refresh token, one new pair.
OnePairPerToken ==
  \A s, t \in Issued :
    tokens[s].parent # None /\ tokens[s].parent = tokens[t].parent => s = t
=============================================================================
