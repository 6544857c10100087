--------------------------- MODULE SessionsProofs ----------------------------
(***************************************************************************)
(* Registration, login, rotation and logout for any number of addresses,   *)
(* users, tokens, handlers and faults: accounts are unique, a token keeps  *)
(* to its chain, and as long as no two requests use one token at once, a   *)
(* login has one session.                                                  *)
(***************************************************************************)
EXTENDS Sessions, TLAPS

\* What a handler knows stays true of the rows it has not locked: the token it
\* rotates is issued, and revoked once it is past its UPDATE.
HandlerInv(q) ==
  /\ req[q].pc = "insert" => req[q].email # None
  /\ req[q].pc \in {"revoke", "issue"} => req[q].user # None
  /\ req[q].pc = "revoke" => req[q].token # None
  /\ req[q].pc \in {"revoke", "issue"} /\ req[q].token # None =>
       /\ req[q].token \in Issued
       /\ tokens[req[q].token].user = req[q].user
  /\ req[q].pc = "issue" /\ req[q].token # None => tokens[req[q].token].revoked

\* A token hangs on its parent and on the first token of its chain, which are
\* the same user's; a parent is revoked.  What is not issued has no login.
ChainInv(t) ==
  /\ t \notin Issued => tokens[t].login = None
  /\ t \in Issued =>
       /\ tokens[t].login \in Issued
       /\ tokens[tokens[t].login].login = tokens[t].login
       /\ tokens[tokens[t].login].user = tokens[t].user
  /\ t \in Issued /\ tokens[t].parent # None =>
       /\ tokens[t].parent \in Issued
       /\ tokens[tokens[t].parent].revoked

Children(t) == {s \in Issued : tokens[s].parent = t}
Issuers(t)  == {q \in Requests : req[q].pc = "issue" /\ req[q].token = t}

\* A token that no two requests used at once is rotated by one handler at most,
\* by none once it is revoked, and then has one successor or one to come.
UseInv(t) ==
  t \notin contended =>
    /\ \A p, q \in Rotating(t) : p = q
    /\ tokens[t].revoked => Rotating(t) = {}
    /\ \A r, s \in Children(t) : r = s
    /\ \A p, q \in Issuers(t) : p = q
    /\ Children(t) = {} \/ Issuers(t) = {}

\* The session of login f.
LoginInv(f) ==
  Undisturbed(f) =>
    /\ \A s, t \in LiveOf(f) : s = t
    /\ \A p, q \in Issuing(f) : p = q
    /\ LiveOf(f) = {} \/ Issuing(f) = {}

\* The inductive invariant.
SessionInv ==
  /\ TypeOK
  /\ UniqueEmail
  /\ contended \subseteq Issued
  /\ \A q \in Requests : HandlerInv(q)
  /\ \A t \in Tokens : ChainInv(t) /\ UseInv(t)
  /\ \A f \in Issued : LoginInv(f)

-----------------------------------------------------------------------------
\* Rows and handlers have the fields their types say.
LEMMA RowTypes ==
  ASSUME TypeOK
  PROVE  /\ \A t \in Tokens : /\ tokens[t] \in TokenRow
                              /\ tokens[t].revoked \in BOOLEAN
                              /\ tokens[t].user \in UserIds \cup {None}
                              /\ tokens[t].parent \in Tokens \cup {None}
                              /\ tokens[t].login \in Tokens \cup {None}
         /\ \A q \in Requests : /\ req[q] \in RequestRow
                                /\ req[q].user \in UserIds \cup {None}
                                /\ req[q].token \in Tokens \cup {None}
BY DEF TypeOK, TokenRow, RequestRow

LEMMA NoRequestType == NoRequest \in RequestRow
BY DEF NoRequest, RequestRow

LEMMA InitSession == Init => SessionInv
<1> SUFFICES ASSUME Init PROVE SessionInv
  OBVIOUS
<1>1. TypeOK
  BY NoRequestType, FaultsAssumption DEF Init, TypeOK, NoToken, TokenRow
<1>2. Issued = {} /\ \A q \in Requests : req[q].pc = "idle"
  BY DEF Init, Issued, NoToken, NoRequest
<1>3. UniqueEmail /\ contended \subseteq Issued
  BY DEF Init, UniqueEmail
<1>4. \A q \in Requests : HandlerInv(q)
  BY <1>2 DEF HandlerInv
<1>5. \A t \in Tokens : ChainInv(t) /\ UseInv(t)
  BY <1>2 DEF ChainInv, UseInv, Init, NoToken, Rotating, Children, Issuers
<1> QED
  BY <1>1, <1>2, <1>3, <1>4, <1>5 DEF SessionInv

-----------------------------------------------------------------------------
\* A handler that neither rotates nor carries on a chain leaves the tokens and
\* their sessions as they are.
LEMMA BystanderKept ==
  ASSUME SessionInv, NEW q \in Requests, UNCHANGED <<tokens, contended>>,
         TypeOK', UniqueEmail', HandlerInv(q)',
         \A p \in Requests \ {q} : req'[p] = req[p],
         \/ req'[q].pc \in {"idle", "insert"}
         \/ req'[q].pc = "issue" /\ req'[q].token = None
  PROVE  SessionInv'
<1>1. contended' \subseteq Issued'
  BY DEF SessionInv, Issued
<1>2. \A p \in Requests : HandlerInv(p)'
  BY DEF SessionInv, HandlerInv, Issued
<1>3. ASSUME NEW t \in Tokens PROVE ChainInv(t)' /\ UseInv(t)'
  <2>1. ChainInv(t)'
    BY DEF SessionInv, ChainInv, Issued
  <2>2. t # None
    BY NoneAssumption
  <2>3. /\ Rotating(t)' \subseteq Rotating(t) /\ Issuers(t)' \subseteq Issuers(t)
        /\ Children(t)' = Children(t)
    BY <2>2 DEF Rotating, Issuers, Children, Issued
  <2> QED
    BY <2>1, <2>3 DEF SessionInv, UseInv
<1>4. ASSUME NEW f \in Issued' PROVE LoginInv(f)'
  <2>1. f \in Issued /\ Undisturbed(f)' = Undisturbed(f) /\ LiveOf(f)' = LiveOf(f)
    BY <1>4 DEF Issued, Undisturbed, LiveOf, Live
  <2>2. Issuing(f)' \subseteq Issuing(f)
    BY DEF Issuing
  <2>3. LoginInv(f)
    BY <2>1 DEF SessionInv
  <2> QED
    BY <2>1, <2>2, <2>3 DEF LoginInv
<1> QED
  BY <1>1, <1>2, <1>3, <1>4 DEF SessionInv

LEMMA StartRegisterInv ==
  ASSUME SessionInv, NEW q \in Requests, NEW e \in Emails, StartRegister(q, e)
  PROVE  SessionInv'
<1> DEFINE new == [NoRequest EXCEPT !.pc = "insert", !.email = e]
<1>1. new \in RequestRow /\ new.pc = "insert" /\ new.email = e
  BY DEF NoRequest, RequestRow
<1>2. req' = [req EXCEPT ![q] = new] /\ UNCHANGED <<users, tokens, faults, contended>>
  BY DEF StartRegister
<1>3. TypeOK' /\ UniqueEmail' /\ req'[q] = new
  BY <1>1, <1>2 DEF SessionInv, TypeOK, UniqueEmail
<1>4. \A p \in Requests \ {q} : req'[p] = req[p]
  BY <1>2 DEF SessionInv, TypeOK
<1>5. HandlerInv(q)'
  BY <1>1, <1>3, NoneAssumption DEF HandlerInv
<1> QED
  BY <1>1, <1>2, <1>3, <1>4, <1>5, BystanderKept

LEMMA StartLoginInv ==
  ASSUME SessionInv, NEW q \in Requests, NEW u \in UserIds, StartLogin(q, u)
  PROVE  SessionInv'
<1> DEFINE new == [NoRequest EXCEPT !.pc = "issue", !.user = u]
<1>1. new \in RequestRow /\ new.pc = "issue" /\ new.user = u /\ new.token = None
  BY DEF NoRequest, RequestRow
<1>2. req' = [req EXCEPT ![q] = new] /\ UNCHANGED <<users, tokens, faults, contended>>
  BY DEF StartLogin
<1>3. TypeOK' /\ UniqueEmail' /\ req'[q] = new
  BY <1>1, <1>2 DEF SessionInv, TypeOK, UniqueEmail
<1>4. \A p \in Requests \ {q} : req'[p] = req[p]
  BY <1>2 DEF SessionInv, TypeOK
<1>5. HandlerInv(q)'
  BY <1>1, <1>3, NoneAssumption DEF HandlerInv
<1> QED
  BY <1>1, <1>2, <1>3, <1>4, <1>5, BystanderKept

\* The handler has ended, whatever it was about.
LEMMA Finished ==
  ASSUME SessionInv, NEW q \in Requests, Finish(q)
  PROVE  /\ req' \in [Requests -> RequestRow] /\ req'[q] = NoRequest
         /\ req'[q].pc = "idle" /\ HandlerInv(q)'
         /\ \A p \in Requests \ {q} : req'[p] = req[p]
<1>1. req' \in [Requests -> RequestRow] /\ req'[q] = NoRequest
  BY NoRequestType DEF SessionInv, TypeOK, Finish
<1>2. \A p \in Requests \ {q} : req'[p] = req[p]
  BY DEF SessionInv, TypeOK, Finish
<1>3. req'[q].pc = "idle"
  BY <1>1 DEF NoRequest
<1> QED
  BY <1>1, <1>2, <1>3 DEF HandlerInv

LEMMA InsertUserInv ==
  ASSUME SessionInv, NEW q \in Requests, InsertUser(q)
  PROVE  SessionInv'
<1>1. /\ req[q].pc = "insert" /\ Finish(q)
      /\ UNCHANGED <<tokens, faults, contended>>
  BY DEF InsertUser
<1>2. req[q].email \in Emails
  BY <1>1 DEF SessionInv, TypeOK, HandlerInv, RequestRow
<1>3. users' \in [UserIds -> Emails \cup {None}] /\ UniqueEmail'
  <2>1. CASE UNCHANGED users
    BY <2>1 DEF SessionInv, TypeOK, UniqueEmail
  <2>2. CASE ~ Registered(req[q].email) /\ ~ UNCHANGED users
    <3>1. PICK u \in UserIds : /\ users[u] = None
                               /\ users' = [users EXCEPT ![u] = req[q].email]
      BY <2>2 DEF InsertUser
    <3>2. \A v \in UserIds : users'[v] = IF v = u THEN req[q].email ELSE users[v]
      BY <3>1 DEF SessionInv, TypeOK
    <3> QED
      BY <1>2, <2>2, <3>1, <3>2 DEF SessionInv, TypeOK, UniqueEmail, Registered
  <2> QED
    BY <2>1, <2>2 DEF InsertUser
<1>4. TypeOK'
  BY <1>1, <1>3, Finished DEF SessionInv, TypeOK
<1> QED
  BY <1>1, <1>3, <1>4, Finished, BystanderKept

LEMMA AbortInv ==
  ASSUME SessionInv, NEW q \in Requests, AbortRequest(q)
  PROVE  SessionInv'
<1>1. /\ Finish(q) /\ faults < MaxFaults /\ faults' = faults + 1
      /\ UNCHANGED <<users, tokens, contended>>
  BY DEF AbortRequest
<1>2. faults' \in 0..MaxFaults
  BY <1>1, FaultsAssumption DEF SessionInv, TypeOK
<1>3. TypeOK' /\ UniqueEmail'
  BY <1>1, <1>2, Finished DEF SessionInv, TypeOK, UniqueEmail
<1> QED
  BY <1>1, <1>3, Finished, BystanderKept

-----------------------------------------------------------------------------
\* StartRotate joins the rotations of t, and marks t contended unless it is
\* the only one.
LEMMA StartRotateEffect ==
  ASSUME SessionInv, NEW q \in Requests, NEW t \in Tokens, StartRotate(q, t)
  PROVE  /\ TypeOK' /\ UniqueEmail' /\ contended' \subseteq Issued'
         /\ HandlerInv(q)'
         /\ \A p \in Requests \ {q} : req'[p] = req[p]
         /\ req[q].pc = "idle" /\ req'[q].pc = "revoke" /\ req'[q].token = t
         /\ tokens' = tokens /\ t \in Issued /\ ~ tokens[t].revoked
         /\ contended' = IF Rotating(t) = {} THEN contended ELSE contended \cup {t}
<1> DEFINE new == [NoRequest EXCEPT !.pc = "revoke", !.token = t,
                                    !.user = tokens[t].user]
<1>1. /\ req[q].pc = "idle" /\ t \in Issued /\ ~ tokens[t].revoked
      /\ req' = [req EXCEPT ![q] = new]
      /\ contended' = IF Rotating(t) = {} THEN contended ELSE contended \cup {t}
      /\ UNCHANGED <<users, tokens, faults>>
  BY DEF StartRotate
<1>2. TypeOK
  BY DEF SessionInv
<1>3. tokens[t].user \in UserIds /\ tokens[t].user # None
  BY <1>1, <1>2, RowTypes DEF Issued
<1>4. /\ new \in RequestRow /\ new.pc = "revoke" /\ new.token = t
      /\ new.user = tokens[t].user
  BY <1>3 DEF NoRequest, RequestRow
<1>5. req'[q] = new /\ req' \in [Requests -> RequestRow]
      /\ \A p \in Requests \ {q} : req'[p] = req[p]
  BY <1>1, <1>2, <1>4 DEF TypeOK
<1>6. contended' \subseteq Issued' /\ contended' \in SUBSET Tokens
  BY <1>1, <1>2 DEF SessionInv, TypeOK, Issued
<1>7. TypeOK' /\ UniqueEmail'
  BY <1>1, <1>2, <1>5, <1>6 DEF SessionInv, TypeOK, UniqueEmail
<1>8. HandlerInv(q)'
  BY <1>1, <1>3, <1>4, <1>5, NoneAssumption DEF HandlerInv, Issued
<1> QED
  BY <1>1, <1>4, <1>5, <1>6, <1>7, <1>8

LEMMA StartRotateInv ==
  ASSUME SessionInv, NEW q \in Requests, NEW t \in Tokens, StartRotate(q, t)
  PROVE  SessionInv'
<1> USE StartRotateEffect
<1>1. \A p \in Requests : HandlerInv(p)'
  BY DEF SessionInv, HandlerInv, Issued
<1>2. ASSUME NEW s \in Tokens PROVE ChainInv(s)' /\ UseInv(s)'
  <2>1. ChainInv(s)'
    BY DEF SessionInv, ChainInv, Issued
  <2>2. Issuers(s)' \subseteq Issuers(s) /\ Children(s)' = Children(s)
    BY DEF Issuers, Children, Issued
  <2>3. CASE s # t
    <3>1. Rotating(s)' \subseteq Rotating(s)
      BY <2>3 DEF Rotating
    <3> QED
      BY <2>1, <2>2, <3>1 DEF SessionInv, UseInv
  <2>4. CASE s = t
    <3>1. SUFFICES ASSUME t \notin contended' PROVE UseInv(t)'
      BY <2>1, <2>4 DEF UseInv
    <3>2. Rotating(t) = {} /\ t \notin contended
      BY <3>1
    <3>3. Rotating(t)' \subseteq {q}
      BY <3>2 DEF Rotating
    <3> QED
      BY <2>2, <2>4, <3>2, <3>3 DEF SessionInv, UseInv
  <2> QED
    BY <2>3, <2>4
<1>3. ASSUME NEW f \in Issued' PROVE LoginInv(f)'
  <2>1. f \in Issued /\ (Undisturbed(f)' => Undisturbed(f)) /\ LiveOf(f)' = LiveOf(f)
    BY <1>3 DEF Issued, Undisturbed, LiveOf, Live
  <2>2. Issuing(f)' \subseteq Issuing(f)
    BY DEF Issuing
  <2> QED
    BY <2>1, <2>2 DEF SessionInv, LoginInv
<1> QED
  BY <1>1, <1>2, <1>3 DEF SessionInv

-----------------------------------------------------------------------------
\* No statement but the INSERT touches what ties the tokens together: an
\* UPDATE of is_revoked, or the clock, leaves the chains, and can only take
\* live tokens away.
RowsKept ==
  /\ \A t \in Tokens : /\ tokens'[t].user = tokens[t].user
                       /\ tokens'[t].parent = tokens[t].parent
                       /\ tokens'[t].login = tokens[t].login
                       /\ tokens[t].revoked => tokens'[t].revoked

LEMMA ChainsKept ==
  ASSUME SessionInv, RowsKept, TypeOK'
  PROVE  /\ Issued' = Issued
         /\ \A t \in Tokens : ChainInv(t)' /\ Children(t)' = Children(t)
         /\ \A f \in Tokens : LiveOf(f)' \subseteq LiveOf(f)
         /\ \A p \in Requests : req'[p] = req[p] => HandlerInv(p)'
<1>1. Issued' = Issued
  BY DEF RowsKept, Issued
<1>2. TypeOK /\ \A t \in Tokens : ChainInv(t)
  BY DEF SessionInv
<1>3. ASSUME NEW t \in Tokens PROVE ChainInv(t)'
  <2>1. t \in Issued => tokens[t].login \in Tokens
    BY <1>2 DEF ChainInv, Issued
  <2>2. t \in Issued /\ tokens[t].parent # None => tokens[t].parent \in Tokens
    BY <1>2 DEF ChainInv, Issued
  <2> QED
    BY <1>1, <1>2, <2>1, <2>2 DEF RowsKept, ChainInv
<1>4. \A t \in Tokens : Children(t)' = Children(t)
  BY <1>1 DEF RowsKept, Children, Issued
<1>5. \A f \in Tokens : LiveOf(f)' \subseteq LiveOf(f)
  BY <1>1 DEF RowsKept, LiveOf, Live
<1>6. ASSUME NEW p \in Requests, req'[p] = req[p] PROVE HandlerInv(p)'
  <2>1. HandlerInv(p)
    BY DEF SessionInv
  <2>2. \A t \in Issued : t \in Tokens
    BY DEF Issued
  <2> QED
    BY <1>1, <1>6, <2>1, <2>2 DEF RowsKept, HandlerInv
<1> QED
  BY <1>1, <1>3, <1>4, <1>5, <1>6

\* ... of handlers that wait and sets of tokens that stay, the rest follows.
LEMMA QuietUpdate ==
  ASSUME SessionInv, RowsKept, TypeOK', UNCHANGED <<users, req>>,
         contended \subseteq contended', contended' \subseteq Issued,
         \A t \in Tokens : tokens'[t].revoked # tokens[t].revoked
                             => Rotating(t) = {} \/ t \in contended'
  PROVE  SessionInv' /\ \A f \in Tokens : Issuing(f)' = Issuing(f)
<1> USE ChainsKept
<1>1. UniqueEmail' /\ contended' \subseteq Issued' /\ \A p \in Requests : HandlerInv(p)'
  BY DEF SessionInv, UniqueEmail
<1>2. ASSUME NEW t \in Tokens PROVE UseInv(t)'
  <2>1. Issuers(t)' = Issuers(t) /\ Rotating(t)' = Rotating(t)
    BY DEF Issuers, Rotating
  <2> QED
    BY <2>1 DEF SessionInv, UseInv
<1>3. \A f \in Tokens : Issuing(f)' = Issuing(f)
  <2>1. \A q \in Requests : req[q].pc = "issue" /\ req[q].token # None
                              => req[q].token \in Tokens
    BY RowTypes DEF SessionInv
  <2> QED
    BY <2>1 DEF RowsKept, Issuing
<1>4. ASSUME NEW f \in Issued' PROVE LoginInv(f)'
  <2>1. f \in Issued /\ f \in Tokens
    BY <1>4 DEF Issued
  <2>2. Undisturbed(f)' => Undisturbed(f)
    BY DEF RowsKept, Undisturbed, SessionInv, TypeOK
  <2> QED
    BY <1>3, <2>1, <2>2 DEF SessionInv, LoginInv
<1> QED
  BY <1>1, <1>2, <1>3, <1>4 DEF SessionInv

LEMMA LogoutEffect ==
  ASSUME SessionInv, NEW t \in Tokens, Logout(t)
  PROVE  /\ RowsKept /\ TypeOK' /\ UNCHANGED <<users, req>> /\ t \in Issued
         /\ tokens'[t].revoked
         /\ \A s \in Tokens \ {t} : tokens'[s] = tokens[s]
         /\ contended' = IF Rotating(t) = {} THEN contended ELSE contended \cup {t}
         /\ contended' \subseteq Issued
<1>1. /\ t \in Issued /\ tokens' = [tokens EXCEPT ![t].revoked = TRUE]
      /\ UNCHANGED <<users, req, faults>>
      /\ contended' = IF Rotating(t) = {} THEN contended ELSE contended \cup {t}
  BY DEF Logout
<1>2. TypeOK /\ contended \subseteq Issued /\ Issued \subseteq Tokens
  BY DEF SessionInv, Issued
<1>3. tokens[t] \in TokenRow
  BY <1>2, RowTypes
<1>4. /\ [tokens[t] EXCEPT !.revoked = TRUE] \in TokenRow
      /\ tokens'[t] = [tokens[t] EXCEPT !.revoked = TRUE]
      /\ tokens' \in [Tokens -> TokenRow]
      /\ \A s \in Tokens \ {t} : tokens'[s] = tokens[s]
  BY <1>1, <1>2, <1>3 DEF TypeOK, TokenRow
<1>5. /\ tokens'[t].user = tokens[t].user /\ tokens'[t].parent = tokens[t].parent
      /\ tokens'[t].login = tokens[t].login /\ tokens'[t].revoked
  BY <1>3, <1>4 DEF TokenRow
<1>6. RowsKept
  BY <1>4, <1>5 DEF RowsKept
<1>7. TypeOK'
  BY <1>1, <1>2, <1>4 DEF TypeOK
<1> QED
  BY <1>1, <1>2, <1>4, <1>5, <1>6, <1>7

LEMMA LogoutInv ==
  ASSUME SessionInv, NEW t \in Tokens, Logout(t)
  PROVE  SessionInv' /\ \A f \in Tokens : Issuing(f)' = Issuing(f)
<1>1. \A s \in Tokens : tokens'[s].revoked # tokens[s].revoked
                          => Rotating(s) = {} \/ s \in contended'
  BY LogoutEffect
<1> QED
  BY <1>1, LogoutEffect, QuietUpdate

LEMMA ExpireInv ==
  ASSUME SessionInv, NEW t \in Tokens, Expire(t)
  PROVE  SessionInv' /\ SessionOf' = SessionOf
<1>1. /\ t \in Issued /\ tokens' = [tokens EXCEPT ![t].expired = TRUE]
      /\ UNCHANGED <<users, req, faults, contended>>
  BY DEF Expire
<1>2. TypeOK /\ contended \subseteq Issued
  BY DEF SessionInv
<1>3. tokens[t] \in TokenRow
  BY <1>2, RowTypes
<1>4. /\ [tokens[t] EXCEPT !.expired = TRUE] \in TokenRow
      /\ tokens'[t] = [tokens[t] EXCEPT !.expired = TRUE]
      /\ tokens' \in [Tokens -> TokenRow]
      /\ \A s \in Tokens \ {t} : tokens'[s] = tokens[s]
  BY <1>1, <1>2, <1>3 DEF TypeOK, TokenRow
<1>5. /\ tokens'[t].user = tokens[t].user /\ tokens'[t].parent = tokens[t].parent
      /\ tokens'[t].login = tokens[t].login /\ tokens'[t].revoked = tokens[t].revoked
  BY <1>3, <1>4 DEF TokenRow
<1>6. RowsKept /\ \A s \in Tokens : tokens'[s].revoked = tokens[s].revoked
  BY <1>4, <1>5 DEF RowsKept
<1>7. TypeOK'
  BY <1>1, <1>2, <1>4 DEF TypeOK
<1>8. SessionInv' /\ \A f \in Tokens : Issuing(f)' = Issuing(f)
  BY <1>1, <1>2, <1>6, <1>7, QuietUpdate
<1>9. \A f \in Tokens : LiveOf(f)' = LiveOf(f) /\ Undisturbed(f)' = Undisturbed(f)
  BY <1>1, <1>2, <1>6, <1>7, ChainsKept DEF LiveOf, Live, RowsKept, Undisturbed, TypeOK
<1>10. SessionOf' = SessionOf
  BY <1>6, <1>8, <1>9 DEF SessionOf, RowsKept
<1> QED
  BY <1>8, <1>10

-----------------------------------------------------------------------------
\* Revoke kills the token of q, of which q becomes an issuer.
LEMMA RevokeEffect ==
  ASSUME SessionInv, NEW q \in Requests, Revoke(q),
         NEW t, t = req[q].token
  PROVE  /\ RowsKept /\ TypeOK' /\ UNCHANGED <<users, contended>>
         /\ t \in Issued /\ tokens'[t].revoked /\ t # None
         /\ \A s \in Tokens \ {t} : tokens'[s] = tokens[s]
         /\ req[q].pc = "revoke" /\ req'[q].pc = "issue"
         /\ req'[q].token = t /\ req'[q].user = req[q].user
         /\ \A p \in Requests \ {q} : req'[p] = req[p]
         /\ t \notin contended =>
              /\ ~ tokens[t].revoked /\ Rotating(t) = {q}
              /\ Children(t) = {} /\ Issuers(t) = {}
<1>1. /\ req[q].pc = "revoke" /\ tokens' = [tokens EXCEPT ![t].revoked = TRUE]
      /\ req' = [req EXCEPT ![q].pc = "issue"]
      /\ UNCHANGED <<users, faults, contended>>
  BY DEF Revoke
<1>2. TypeOK /\ HandlerInv(q) /\ Issued \subseteq Tokens
  BY DEF SessionInv, Issued
<1>3. t \in Issued /\ t \in Tokens /\ t # None
  BY <1>1, <1>2 DEF HandlerInv
<1>4. tokens[t] \in TokenRow /\ req[q] \in RequestRow
  BY <1>2, <1>3, RowTypes
<1>5. /\ [tokens[t] EXCEPT !.revoked = TRUE] \in TokenRow
      /\ tokens'[t] = [tokens[t] EXCEPT !.revoked = TRUE]
      /\ tokens' \in [Tokens -> TokenRow]
      /\ \A s \in Tokens \ {t} : tokens'[s] = tokens[s]
  BY <1>1, <1>2, <1>3, <1>4 DEF TypeOK, TokenRow
<1>6. /\ tokens'[t].user = tokens[t].user /\ tokens'[t].parent = tokens[t].parent
      /\ tokens'[t].login = tokens[t].login /\ tokens'[t].revoked
  BY <1>4, <1>5 DEF TokenRow
<1>7. RowsKept
  BY <1>5, <1>6 DEF RowsKept
<1>8. /\ [req[q] EXCEPT !.pc = "issue"] \in RequestRow
      /\ req'[q] = [req[q] EXCEPT !.pc = "issue"]
      /\ req' \in [Requests -> RequestRow]
      /\ \A p \in Requests \ {q} : req'[p] = req[p]
  BY <1>1, <1>2, <1>4 DEF TypeOK, RequestRow
<1>9. req'[q].pc = "issue" /\ req'[q].token = t /\ req'[q].user = req[q].user
  BY <1>4, <1>8 DEF RequestRow
<1>10. TypeOK'
  BY <1>1, <1>2, <1>5, <1>8 DEF TypeOK
<1>11. ASSUME t \notin contended
       PROVE  /\ ~ tokens[t].revoked /\ Rotating(t) = {q}
              /\ Children(t) = {} /\ Issuers(t) = {}
  <2>1. UseInv(t) /\ q \in Rotating(t)
    BY <1>1, <1>3 DEF SessionInv, Rotating
  <2>2. ~ tokens[t].revoked /\ Rotating(t) = {q}
    BY <1>11, <2>1 DEF UseInv
  <2>3. Children(t) = {}
    BY <1>2, <1>3, <2>2 DEF SessionInv, ChainInv, Children
  <2>4. Issuers(t) = {}
    BY <1>3, <2>2 DEF SessionInv, HandlerInv, Issuers
  <2> QED
    BY <2>2, <2>3, <2>4
<1> QED
  BY <1>1, <1>3, <1>5, <1>6, <1>7, <1>8, <1>9, <1>10, <1>11

\* ... and of the logins, the token's own goes from active to renewing if it
\* is undisturbed.
LEMMA RevokeSession ==
  ASSUME SessionInv, NEW q \in Requests, Revoke(q), NEW t, t = req[q].token,
         NEW f \in Tokens, Undisturbed(f)
  PROVE  /\ Undisturbed(f)'
         /\ tokens[t].login # f => LiveOf(f)' = LiveOf(f) /\ Issuing(f)' = Issuing(f)
         /\ tokens[t].login = f => /\ LiveOf(f) = {t} /\ Issuing(f) = {}
                                   /\ LiveOf(f)' = {} /\ Issuing(f)' = {q}
<1> USE RevokeEffect
<1>1. TypeOK /\ Issued \subseteq Tokens /\ t \in Tokens /\ Issued' = Issued
  BY ChainsKept DEF SessionInv, Issued
<1>2. Undisturbed(f)'
  BY <1>1 DEF Undisturbed, RowsKept, TypeOK
<1>3. \A p \in Requests : req[p].pc = "issue" /\ req[p].token # None
                            => req[p].token \in Tokens
  BY <1>1, RowTypes
<1>4. ASSUME tokens[t].login # f
      PROVE  LiveOf(f)' = LiveOf(f) /\ Issuing(f)' = Issuing(f)
  <2>1. tokens'[t].login # f
    BY <1>1, <1>4 DEF RowsKept
  <2>2. LiveOf(f)' = LiveOf(f)
    BY <1>1, <1>4, <2>1 DEF LiveOf, Live
  <2>3. Issuing(f)' = Issuing(f)
    BY <1>1, <1>3, <1>4, <2>1 DEF Issuing, RowsKept
  <2> QED
    BY <2>2, <2>3
<1>5. ASSUME tokens[t].login = f
      PROVE  /\ LiveOf(f) = {t} /\ Issuing(f) = {}
             /\ LiveOf(f)' = {} /\ Issuing(f)' = {q}
  <2>1. t \notin contended
    BY <1>5 DEF Undisturbed
  <2>2. f \in Issued /\ LoginInv(f)
    BY <1>1, <1>5 DEF SessionInv, ChainInv
  <2>3. t \in LiveOf(f)
    BY <1>1, <1>5, <2>1 DEF LiveOf, Live
  <2>4. LiveOf(f) = {t} /\ Issuing(f) = {}
    BY <2>2, <2>3 DEF LoginInv
  <2>5. LiveOf(f)' = {}
    <3>1. LiveOf(f)' \subseteq {t}
      BY <2>4, ChainsKept
    <3> QED
      BY <3>1 DEF LiveOf, Live
  <2>6. tokens'[t].login = f
    BY <1>1, <1>5 DEF RowsKept
  <2>7. Issuing(f)' = {q}
    BY <1>1, <1>3, <2>4, <2>6 DEF Issuing, RowsKept
  <2> QED
    BY <2>4, <2>5, <2>7
<1> QED
  BY <1>2, <1>4, <1>5

LEMMA RevokeInv ==
  ASSUME SessionInv, NEW q \in Requests, Revoke(q)
  PROVE  SessionInv'
<1>0. PICK t : t = req[q].token
  OBVIOUS
<1>1. /\ RowsKept /\ TypeOK' /\ UNCHANGED <<users, contended>>
      /\ t \in Issued /\ tokens'[t].revoked /\ t # None
      /\ req[q].pc = "revoke" /\ req'[q].pc = "issue"
      /\ req'[q].token = t /\ req'[q].user = req[q].user
      /\ \A p \in Requests \ {q} : req'[p] = req[p]
  BY <1>0, RevokeEffect
<1>2. /\ \A s \in Tokens \ {t} : tokens'[s] = tokens[s]
      /\ t \notin contended =>
           /\ Rotating(t) = {q} /\ Children(t) = {} /\ Issuers(t) = {}
  BY <1>0, RevokeEffect
<1>3. Issued' = Issued /\ Issued \subseteq Tokens
  BY <1>1, ChainsKept DEF Issued
<1>4. UniqueEmail' /\ contended' \subseteq Issued'
  BY <1>1, <1>3 DEF SessionInv, UniqueEmail
<1>5. ASSUME NEW p \in Requests PROVE HandlerInv(p)'
  <2>1. CASE p # q
    BY <1>1, <2>1, ChainsKept
  <2>2. CASE p = q
    <3>1. HandlerInv(q)
      BY DEF SessionInv
    <3>2. tokens'[t].user = tokens[t].user
      BY <1>1, <1>3 DEF RowsKept
    <3> QED
      BY <1>0, <1>1, <1>3, <2>2, <3>1, <3>2 DEF HandlerInv
  <2> QED
    BY <2>1, <2>2
<1>6. ASSUME NEW s \in Tokens PROVE ChainInv(s)' /\ UseInv(s)'
  <2>1. ChainInv(s)' /\ Children(s)' = Children(s)
    BY <1>1, ChainsKept
  <2>2. UseInv(s)
    BY DEF SessionInv
  <2>3. CASE s # t
    <3>1. Rotating(s)' = Rotating(s) /\ Issuers(s)' = Issuers(s)
      BY <1>0, <1>1, <2>3 DEF Rotating, Issuers
    <3> QED
      BY <1>1, <1>2, <2>1, <2>2, <2>3, <3>1 DEF UseInv
  <2>4. CASE s = t
    <3>1. SUFFICES ASSUME t \notin contended PROVE UseInv(t)'
      BY <1>1, <2>1, <2>4 DEF UseInv
    <3>2. Rotating(t)' = {}
      BY <1>0, <1>1, <1>2, <3>1 DEF Rotating
    <3>3. Issuers(t)' = {q}
      BY <1>0, <1>1, <1>2, <3>1 DEF Issuers
    <3> QED
      BY <1>2, <2>1, <2>4, <3>1, <3>2, <3>3 DEF UseInv
  <2> QED
    BY <2>3, <2>4
<1>7. ASSUME NEW f \in Issued' PROVE LoginInv(f)'
  <2>1. f \in Issued /\ f \in Tokens /\ LoginInv(f)
    BY <1>3, <1>7 DEF SessionInv
  <2>2. Undisturbed(f)' => Undisturbed(f)
    BY <1>1, <1>3 DEF Undisturbed, RowsKept, SessionInv
  <2> QED
    BY <1>0, <2>1, <2>2, RevokeSession DEF LoginInv
<1> QED
  BY <1>1, <1>4, <1>5, <1>6, <1>7 DEF SessionInv

-----------------------------------------------------------------------------
\* IssueToken adds one row that nothing refers to yet.
LEMMA IssueEffect ==
  ASSUME SessionInv, NEW q \in Requests, NEW t \in Tokens, IssueToken(q, t),
         NEW p, p = req[q].token
  PROVE  /\ TypeOK' /\ UNCHANGED <<users, contended>>
         /\ t \notin Issued /\ Issued' = Issued \cup {t} /\ t # None
         /\ \A s \in Tokens \ {t} : tokens'[s] = tokens[s]
         /\ tokens'[t].user = req[q].user /\ ~ tokens'[t].revoked
         /\ tokens'[t].parent = p
         /\ tokens'[t].login = IF p = None THEN t ELSE tokens[p].login
         /\ req[q].pc = "issue" /\ Finish(q)
         /\ p # None => /\ p \in Issued /\ tokens[p].revoked
                        /\ tokens[p].user = req[q].user
                        /\ tokens[p].login \in Issued
<1> DEFINE row == [user |-> req[q].user, revoked |-> FALSE, expired |-> FALSE,
                   parent |-> p, login |-> IF p = None THEN t ELSE tokens[p].login]
<1>1. /\ req[q].pc = "issue" /\ t \notin Issued /\ Finish(q)
      /\ tokens' = [tokens EXCEPT ![t] = row]
      /\ UNCHANGED <<users, faults, contended>>
  BY DEF IssueToken
<1>2. TypeOK /\ HandlerInv(q) /\ t # None /\ Issued \subseteq Tokens
  BY NoneAssumption DEF SessionInv, Issued
<1>3. p # None => /\ p \in Issued /\ tokens[p].revoked
                  /\ tokens[p].user = req[q].user
  BY <1>1, <1>2 DEF HandlerInv
<1>4. p # None => tokens[p].login \in Issued
  BY <1>2, <1>3 DEF SessionInv, ChainInv
<1>5. req[q].user \in UserIds /\ req[q].user # None /\ p \in Tokens \cup {None}
  BY <1>1, <1>2, RowTypes DEF HandlerInv
<1>6. row \in TokenRow
  BY <1>2, <1>4, <1>5 DEF TokenRow
<1>7. /\ tokens'[t] = row /\ tokens' \in [Tokens -> TokenRow]
      /\ \A s \in Tokens \ {t} : tokens'[s] = tokens[s]
  BY <1>1, <1>2, <1>6 DEF TypeOK
<1>8. Issued' = Issued \cup {t}
  BY <1>5, <1>7 DEF Issued
<1>9. TypeOK'
  BY <1>1, <1>2, <1>7, Finished DEF TypeOK
<1> QED
  BY <1>1, <1>2, <1>3, <1>4, <1>7, <1>8, <1>9

\* A token that is not issued is nobody's login.
LEMMA NotYetALogin ==
  ASSUME SessionInv, NEW t \in Tokens, t \notin Issued
  PROVE  LiveOf(t) = {} /\ Issuing(t) = {}
<1>1. \A s \in Issued : s \in Tokens /\ tokens[s].login # t
  BY DEF SessionInv, ChainInv, Issued
<1>2. LiveOf(t) = {}
  BY <1>1 DEF LiveOf, Live
<1>3. Issuing(t) = {}
  BY <1>1 DEF Issuing, SessionInv, HandlerInv
<1> QED
  BY <1>2, <1>3

\* ... and of the logins, it begins its own, or ends the renewal of its
\* parent's.
LEMMA IssueSession ==
  ASSUME SessionInv, NEW q \in Requests, NEW t \in Tokens, IssueToken(q, t),
         NEW f \in Tokens, Undisturbed(f)
  PROVE  /\ Undisturbed(f)'
         /\ tokens'[t].login # f => LiveOf(f)' = LiveOf(f) /\ Issuing(f)' = Issuing(f)
         /\ tokens'[t].login = f => /\ LiveOf(f)' = {t} /\ Issuing(f)' = {}
                                    /\ f # t => LiveOf(f) = {} /\ Issuing(f) = {q}
<1>0. PICK p : p = req[q].token
  OBVIOUS
<1>1. /\ UNCHANGED <<users, contended>>
      /\ t \notin Issued /\ Issued' = Issued \cup {t} /\ t # None
      /\ \A s \in Tokens \ {t} : tokens'[s] = tokens[s]
      /\ ~ tokens'[t].revoked
      /\ tokens'[t].login = IF p = None THEN t ELSE tokens[p].login
      /\ req[q].pc = "issue" /\ Finish(q)
      /\ p # None => p \in Issued /\ tokens[p].login \in Issued
  BY <1>0, IssueEffect
<1>2. /\ Issued \subseteq Tokens /\ contended \subseteq Issued
      /\ req'[q].pc = "idle" /\ \A r \in Requests \ {q} : req'[r] = req[r]
  BY <1>1, Finished DEF SessionInv, Issued
<1>3. \A r \in Requests : req[r].pc = "issue" /\ req[r].token # None
                            => req[r].token \in Issued
  BY DEF SessionInv, HandlerInv
<1>4. Undisturbed(f)'
  BY <1>1, <1>2 DEF Undisturbed
<1>5. LiveOf(f)' = IF tokens'[t].login = f THEN LiveOf(f) \cup {t} ELSE LiveOf(f)
  BY <1>1, <1>2 DEF LiveOf, Live
<1>6. Issuing(f)' = Issuing(f) \ {q}
  BY <1>1, <1>2, <1>3 DEF Issuing
<1>7. ASSUME tokens'[t].login # f
      PROVE  LiveOf(f)' = LiveOf(f) /\ Issuing(f)' = Issuing(f)
  <2>1. q \notin Issuing(f)
    BY <1>0, <1>1, <1>7 DEF Issuing
  <2> QED
    BY <1>5, <1>6, <1>7, <2>1
<1>8. ASSUME tokens'[t].login = f, f = t
      PROVE  LiveOf(f)' = {t} /\ Issuing(f)' = {}
  BY <1>1, <1>5, <1>6, <1>8, NotYetALogin
<1>9. ASSUME tokens'[t].login = f, f # t
      PROVE  /\ LiveOf(f)' = {t} /\ Issuing(f)' = {}
             /\ LiveOf(f) = {} /\ Issuing(f) = {q}
  <2>1. p # None /\ tokens[p].login = f /\ f \in Issued
    BY <1>1, <1>9
  <2>2. q \in Issuing(f)
    BY <1>0, <1>1, <2>1 DEF Issuing
  <2>3. LoginInv(f)
    BY <2>1 DEF SessionInv
  <2>4. LiveOf(f) = {} /\ Issuing(f) = {q}
    BY <2>2, <2>3 DEF LoginInv
  <2> QED
    BY <1>5, <1>6, <1>9, <2>4
<1> QED
  BY <1>4, <1>7, <1>8, <1>9

LEMMA IssueInv ==
  ASSUME SessionInv, NEW q \in Requests, NEW t \in Tokens, IssueToken(q, t)
  PROVE  SessionInv'
<1>0. PICK p : p = req[q].token
  OBVIOUS
<1>1. /\ TypeOK' /\ UNCHANGED <<users, contended>>
      /\ t \notin Issued /\ Issued' = Issued \cup {t} /\ t # None
      /\ \A s \in Tokens \ {t} : tokens'[s] = tokens[s]
      /\ tokens'[t].user = req[q].user /\ ~ tokens'[t].revoked
      /\ tokens'[t].parent = p
      /\ tokens'[t].login = IF p = None THEN t ELSE tokens[p].login
      /\ req[q].pc = "issue" /\ Finish(q)
  BY <1>0, IssueEffect
<1>2. p # None => /\ p \in Issued /\ tokens[p].revoked
                  /\ tokens[p].user = req[q].user
                  /\ tokens[p].login \in Issued
  BY <1>0, IssueEffect
<1>3. /\ Issued \subseteq Tokens /\ contended \subseteq Issued
      /\ req'[q].pc = "idle" /\ \A r \in Requests \ {q} : req'[r] = req[r]
      /\ HandlerInv(q)'
  BY <1>1, Finished DEF SessionInv, Issued
<1>4. UniqueEmail' /\ contended' \subseteq Issued'
  BY <1>1, <1>3 DEF SessionInv, UniqueEmail
<1>5. ASSUME NEW r \in Requests PROVE HandlerInv(r)'
  <2>1. CASE r # q
    <3>1. HandlerInv(r)
      BY DEF SessionInv
    <3> QED
      BY <1>1, <1>3, <2>1, <3>1 DEF HandlerInv
  <2> QED
    BY <1>3, <2>1
<1>6. ASSUME NEW s \in Tokens PROVE ChainInv(s)'
  <2>1. ChainInv(s)
    BY DEF SessionInv
  <2>2. CASE s # t
    BY <1>1, <1>3, <2>1, <2>2 DEF ChainInv
  <2>3. CASE s = t /\ p = None
    BY <1>1, <2>3 DEF ChainInv
  <2>4. CASE s = t /\ p # None
    <3>1. ChainInv(p) /\ p # t /\ tokens[p].login # t /\ p \in Tokens
      BY <1>1, <1>2, <1>3, <2>4 DEF SessionInv
    <3> QED
      BY <1>1, <1>2, <1>3, <2>4, <3>1 DEF ChainInv
  <2> QED
    BY <2>2, <2>3, <2>4
<1>7. ASSUME NEW s \in Tokens PROVE UseInv(s)'
  <2>1. UseInv(s) /\ s # None
    BY NoneAssumption DEF SessionInv
  <2>2. Rotating(s)' = Rotating(s)
    BY <1>1, <1>3 DEF Rotating
  <2>3. /\ Issuers(s)' = Issuers(s) \ {q}
        /\ Children(s)' = IF p = s THEN Children(s) \cup {t} ELSE Children(s)
    BY <1>1, <1>3 DEF Issuers, Children
  <2>4. CASE p = s
    <3>1. q \in Issuers(s)
      BY <1>0, <1>1, <2>4 DEF Issuers
    <3> QED
      BY <1>1, <1>2, <2>1, <2>2, <2>3, <2>4, <3>1 DEF UseInv
  <2>5. CASE p # s /\ s # t
    BY <1>1, <2>1, <2>2, <2>3, <2>5 DEF UseInv
  <2>6. CASE p # s /\ s = t
    BY <1>1, <2>1, <2>2, <2>3, <2>6 DEF UseInv
  <2> QED
    BY <2>4, <2>5, <2>6
<1>8. ASSUME NEW f \in Issued' PROVE LoginInv(f)'
  <2>1. f \in Tokens
    BY <1>8 DEF Issued
  <2>2. SUFFICES ASSUME Undisturbed(f)' PROVE LoginInv(f)'
    BY DEF LoginInv
  <2>3. Undisturbed(f)
    BY <1>1, <1>3, <2>2 DEF Undisturbed
  <2>4. CASE tokens'[t].login = f
    BY <2>1, <2>3, <2>4, IssueSession DEF LoginInv
  <2>5. CASE tokens'[t].login # f
    <3>1. CASE f = t
      BY <1>1, <2>1, <2>3, <2>5, <3>1, IssueSession, NotYetALogin DEF LoginInv
    <3>2. CASE f # t
      <4>1. LoginInv(f)
        BY <1>1, <1>8, <3>2 DEF SessionInv
      <4> QED
        BY <2>1, <2>3, <2>5, <4>1, IssueSession DEF LoginInv
    <3> QED
      BY <3>1, <3>2
  <2> QED
    BY <2>4, <2>5
<1> QED
  BY <1>1, <1>4, <1>5, <1>6, <1>7, <1>8 DEF SessionInv

-----------------------------------------------------------------------------
LEMMA SessionStutter ==
  ASSUME SessionInv, UNCHANGED vars
  PROVE  SessionInv' /\ SessionOf' = SessionOf
<1> USE DEF vars
<1>1. TypeOK' /\ UniqueEmail' /\ Issued' = Issued
  BY DEF SessionInv, TypeOK, UniqueEmail, Issued
<1>2. \A q \in Requests : HandlerInv(q)'
  BY <1>1 DEF SessionInv, HandlerInv
<1>3. ASSUME NEW t \in Tokens PROVE ChainInv(t)' /\ UseInv(t)'
  <2>1. /\ Rotating(t)' = Rotating(t) /\ Issuers(t)' = Issuers(t)
        /\ Children(t)' = Children(t)
    BY <1>1 DEF Rotating, Issuers, Children
  <2> QED
    BY <1>1, <2>1 DEF SessionInv, ChainInv, UseInv
<1>4. \A f \in Tokens : /\ Undisturbed(f)' = Undisturbed(f)
                        /\ LiveOf(f)' = LiveOf(f) /\ Issuing(f)' = Issuing(f)
  BY <1>1 DEF Undisturbed, LiveOf, Live, Issuing
<1>5. \A f \in Issued' : LoginInv(f)'
  BY <1>1, <1>4 DEF SessionInv, LoginInv, Issued
<1>6. SessionOf' = SessionOf
  BY <1>4 DEF SessionOf
<1> QED
  BY <1>1, <1>2, <1>3, <1>5, <1>6 DEF SessionInv

LEMMA SessionNext ==
  ASSUME SessionInv, [Next]_vars
  PROVE  SessionInv'
<1>1. ASSUME NEW q \in Requests, NEW e \in Emails, StartRegister(q, e)
      PROVE  SessionInv'
  BY <1>1, StartRegisterInv
<1>2. ASSUME NEW q \in Requests, InsertUser(q) PROVE SessionInv'
  BY <1>2, InsertUserInv
<1>3. ASSUME NEW q \in Requests, NEW u \in UserIds, StartLogin(q, u)
      PROVE  SessionInv'
  BY <1>3, StartLoginInv
<1>4. ASSUME NEW q \in Requests, NEW t \in Tokens, StartRotate(q, t)
      PROVE  SessionInv'
  BY <1>4, StartRotateInv
<1>5. ASSUME NEW q \in Requests, Revoke(q) PROVE SessionInv'
  BY <1>5, RevokeInv
<1>6. ASSUME NEW q \in Requests, NEW t \in Tokens, IssueToken(q, t)
      PROVE  SessionInv'
  BY <1>6, IssueInv
<1>7. ASSUME NEW q \in Requests, AbortRequest(q) PROVE SessionInv'
  BY <1>7, AbortInv
<1>8. ASSUME NEW t \in Tokens, Logout(t) PROVE SessionInv'
  BY <1>8, LogoutInv
<1>9. ASSUME NEW t \in Tokens, Expire(t) PROVE SessionInv'
  BY <1>9, ExpireInv
<1>10. CASE UNCHANGED vars
  BY <1>10, SessionStutter
<1> QED
  BY <1>1, <1>2, <1>3, <1>4, <1>5, <1>6, <1>7, <1>8, <1>9, <1>10 DEF Next

\* The inductive invariant holds in every reachable state, whatever the
\* handlers, their order and the faults.
THEOREM SessionInvariant == Spec => []SessionInv
<1>1. Init => SessionInv
  BY InitSession
<1>2. SessionInv /\ [Next]_vars => SessionInv'
  BY SessionNext
<1> QED
  BY <1>1, <1>2, PTL DEF Spec

\* Every variable of the sessions keeps its type.
THEOREM SessionTypes == Spec => []TypeOK
<1>1. SessionInv => TypeOK
  BY DEF SessionInv
<1> QED
  BY <1>1, SessionInvariant, PTL

\* Racing registrations of an address leave at most one account.
THEOREM AccountsUnique == Spec => []UniqueEmail
<1>1. SessionInv => UniqueEmail
  BY DEF SessionInv
<1> QED
  BY <1>1, SessionInvariant, PTL

\* A token that has been rotated is revoked by the time its successor is
\* stored, even if rotations of it race.
THEOREM ParentIsRevoked == Spec => []ParentRevoked
<1>1. SessionInv => ParentRevoked
  BY DEF SessionInv, ChainInv, ParentRevoked, Issued
<1> QED
  BY <1>1, SessionInvariant, PTL

\* Every token of a chain is its first token's user's.
THEOREM ChainKeepsUser == Spec => []SessionKeepsItsUser
<1>1. SessionInv => SessionKeepsItsUser
  BY DEF SessionInv, ChainInv, SessionKeepsItsUser, Issued
<1> QED
  BY <1>1, SessionInvariant, PTL

\* A token used by one request at a time has one successor.
THEOREM TokenUsedOnce == Spec => []NoReuse
<1>1. ASSUME SessionInv PROVE NoReuse
  <2> SUFFICES ASSUME NEW s \in Issued, NEW t \in Issued,
                      tokens[s].parent # None, tokens[s].parent = tokens[t].parent,
                      tokens[s].parent \notin contended
               PROVE  s = t
    BY DEF NoReuse
  <2>1. tokens[s].parent \in Tokens
    BY <1>1 DEF SessionInv, ChainInv, Issued
  <2>2. UseInv(tokens[s].parent)
    BY <1>1, <2>1 DEF SessionInv
  <2>3. s \in Children(tokens[s].parent) /\ t \in Children(tokens[s].parent)
    BY DEF Children
  <2> QED
    BY <2>2, <2>3 DEF UseInv
<1> QED
  BY <1>1, SessionInvariant, PTL

\* As long as no two requests use one token of a login at once, the login has
\* at most one live token, and none while a rotation is half-way.
THEOREM LoginHasOneSession == Spec => []OneSessionPerLogin
<1>1. SessionInv => OneSessionPerLogin
  BY DEF SessionInv, LoginInv, OneSessionPerLogin
<1> QED
  BY <1>1, SessionInvariant, PTL

-----------------------------------------------------------------------------
\* The session of a login, now and next.
LEMMA SessionValue ==
  ASSUME NEW f \in Tokens
  PROVE  /\ tokens[f].login # f => SessionOf[f] = "none"
         /\ tokens[f].login = f =>
              SessionOf[f] = IF ~ Undisturbed(f) THEN "disputed"
                             ELSE IF LiveOf(f) # {} THEN "active"
                             ELSE IF Issuing(f) # {} THEN "renewing"
                             ELSE "ended"
         /\ tokens'[f].login # f => SessionOf'[f] = "none"
         /\ tokens'[f].login = f =>
              SessionOf'[f] = IF ~ Undisturbed(f)' THEN "disputed"
                              ELSE IF LiveOf(f)' # {} THEN "active"
                              ELSE IF Issuing(f)' # {} THEN "renewing"
                              ELSE "ended"
BY DEF SessionOf

LEMMA SessionKept ==
  ASSUME NEW f \in Tokens, tokens'[f].login = f <=> tokens[f].login = f,
         Undisturbed(f)' <=> Undisturbed(f),
         Undisturbed(f) => LiveOf(f)' = LiveOf(f) /\ Issuing(f)' = Issuing(f)
  PROVE  SessionOf'[f] = SessionOf[f]
BY SessionValue

\* A step that moves one session, as SessionLifecycle has it move, is a step
\* of SessionLifecycle.
LEMMA OneSessionMoves ==
  ASSUME NEW f \in Tokens, \A g \in Tokens \ {f} : SessionOf'[g] = SessionOf[g],
         \/ SessionOf'[f] = SessionOf[f]
         \/ SessionOf[f] = "none" /\ SessionOf'[f] = "active"
         \/ SessionOf[f] = "active" /\ SessionOf'[f] = "renewing"
         \/ SessionOf[f] = "renewing" /\ SessionOf'[f] = "active"
         \/ SessionOf[f] \in {"active", "renewing"} /\ SessionOf'[f] = "ended"
         \/ /\ SessionOf[f] \in {"active", "renewing", "ended"}
            /\ SessionOf'[f] = "disputed"
  PROVE  [Lifecycle!Next]_SessionOf
<1>1. /\ SessionOf = [g \in Tokens |-> SessionOf[g]]
      /\ SessionOf' = [g \in Tokens |-> SessionOf'[g]]
  BY DEF SessionOf
<1>2. \A x : SessionOf'[f] = x => SessionOf' = [SessionOf EXCEPT ![f] = x]
  BY <1>1
<1>3. SessionOf'[f] = SessionOf[f] => SessionOf' = SessionOf
  BY <1>1
<1> QED
  BY <1>2, <1>3 DEF Lifecycle!Next, Lifecycle!Begin, Lifecycle!Renew,
       Lifecycle!Renewed, Lifecycle!End, Lifecycle!Dispute, Lifecycle!Becomes

LEMMA SessionInit == Init => Lifecycle!Init
BY NoneAssumption DEF Init, NoToken, SessionOf, Lifecycle!Init

\* A handler that does not carry on a chain is nothing to the sessions.
LEMMA BystanderStep ==
  ASSUME SessionInv, NEW q \in Requests, UNCHANGED <<tokens, contended>>,
         \A p \in Requests \ {q} : req'[p] = req[p],
         req[q].pc # "issue" \/ req[q].token = None,
         req'[q].pc # "issue" \/ req'[q].token = None
  PROVE  SessionOf' = SessionOf
<1>1. \A f \in Tokens : /\ Undisturbed(f)' = Undisturbed(f)
                        /\ LiveOf(f)' = LiveOf(f) /\ Issuing(f)' = Issuing(f)
  BY DEF Undisturbed, LiveOf, Live, Issued, Issuing
<1> QED
  BY <1>1 DEF SessionOf

LEMMA StartRegisterStep ==
  ASSUME SessionInv, NEW q \in Requests, NEW e \in Emails, StartRegister(q, e)
  PROVE  SessionOf' = SessionOf
<1>1. /\ req[q].pc = "idle" /\ UNCHANGED <<tokens, contended>>
      /\ req' = [req EXCEPT ![q] = [NoRequest EXCEPT !.pc = "insert", !.email = e]]
  BY DEF StartRegister
<1>2. req'[q].pc = "insert" /\ \A p \in Requests \ {q} : req'[p] = req[p]
  BY <1>1 DEF SessionInv, TypeOK, NoRequest
<1> QED
  BY <1>1, <1>2, BystanderStep

LEMMA InsertUserStep ==
  ASSUME SessionInv, NEW q \in Requests, InsertUser(q)
  PROVE  SessionOf' = SessionOf
<1>1. req[q].pc = "insert" /\ Finish(q) /\ UNCHANGED <<tokens, contended>>
  BY DEF InsertUser
<1> QED
  BY <1>1, Finished, BystanderStep

LEMMA StartLoginStep ==
  ASSUME SessionInv, NEW q \in Requests, NEW u \in UserIds, StartLogin(q, u)
  PROVE  SessionOf' = SessionOf
<1>1. /\ req[q].pc = "idle" /\ UNCHANGED <<tokens, contended>>
      /\ req' = [req EXCEPT ![q] = [NoRequest EXCEPT !.pc = "issue", !.user = u]]
  BY DEF StartLogin
<1>2. req'[q].token = None /\ \A p \in Requests \ {q} : req'[p] = req[p]
  BY <1>1 DEF SessionInv, TypeOK, NoRequest
<1> QED
  BY <1>1, <1>2, BystanderStep

\* A second request on a token disputes its login.
LEMMA Disputes ==
  ASSUME SessionInv, RowsKept, NEW t \in Tokens, t \in Issued,
         contended' = contended \cup {t},
         \A f \in Tokens \ {tokens[t].login} :
           LiveOf(f)' = LiveOf(f) /\ Issuing(f)' = Issuing(f)
  PROVE  [Lifecycle!Next]_SessionOf
<1>1. PICK f \in Tokens : f = tokens[t].login
  BY DEF SessionInv, ChainInv, Issued
<1>2. tokens[f].login = f /\ contended \subseteq Tokens
  BY <1>1 DEF SessionInv, ChainInv, TypeOK
<1>3. ASSUME NEW g \in Tokens \ {f} PROVE SessionOf'[g] = SessionOf[g]
  <2>1. Undisturbed(g)' = Undisturbed(g)
    BY <1>1, <1>2 DEF Undisturbed, RowsKept
  <2> QED
    BY <1>1, <2>1, SessionKept DEF RowsKept
<1>4. tokens'[f].login = f /\ ~ Undisturbed(f)'
  BY <1>1, <1>2 DEF RowsKept, Undisturbed
<1>5. SessionOf'[f] = "disputed"
  BY <1>4, SessionValue
<1>6. SessionOf[f] \in {"active", "renewing", "ended", "disputed"}
  BY <1>2, SessionValue
<1> QED
  BY <1>3, <1>5, <1>6, OneSessionMoves

LEMMA StartRotateStep ==
  ASSUME SessionInv, NEW q \in Requests, NEW t \in Tokens, StartRotate(q, t)
  PROVE  [Lifecycle!Next]_SessionOf
<1> USE StartRotateEffect
<1>1. \A f \in Tokens : LiveOf(f)' = LiveOf(f) /\ Issuing(f)' = Issuing(f)
  BY DEF LiveOf, Live, Issued, Issuing
<1>2. CASE Rotating(t) = {}
  <2>1. \A f \in Tokens : Undisturbed(f)' = Undisturbed(f)
    BY <1>2 DEF Undisturbed
  <2> QED
    BY <1>1, <2>1 DEF SessionOf
<1>3. CASE Rotating(t) # {}
  <2>1. RowsKept
    BY DEF RowsKept
  <2> QED
    BY <1>1, <1>3, <2>1, Disputes
<1> QED
  BY <1>2, <1>3

LEMMA LogoutStep ==
  ASSUME SessionInv, NEW t \in Tokens, Logout(t)
  PROVE  [Lifecycle!Next]_SessionOf
<1> USE LogoutEffect
<1>1. PICK f \in Tokens : f = tokens[t].login
  BY DEF SessionInv, ChainInv, Issued
<1>2. tokens[f].login = f /\ contended \subseteq Tokens /\ f \in Issued
  BY <1>1 DEF SessionInv, ChainInv, TypeOK
<1>3. \A g \in Tokens : Issuing(g)' = Issuing(g)
  BY LogoutInv
<1>4. \A g \in Tokens \ {f} : LiveOf(g)' = LiveOf(g)
  BY <1>1, ChainsKept DEF LiveOf, Live, RowsKept
<1>5. CASE Rotating(t) # {}
  BY <1>1, <1>3, <1>4, <1>5, Disputes
<1>6. CASE Rotating(t) = {}
  <2>1. \A g \in Tokens : Undisturbed(g)' = Undisturbed(g)
    BY <1>2, <1>6 DEF Undisturbed, RowsKept
  <2>2. \A g \in Tokens \ {f} : SessionOf'[g] = SessionOf[g]
    BY <1>3, <1>4, <2>1, SessionKept DEF RowsKept
  <2>3. CASE ~ Undisturbed(f) \/ tokens[t].revoked
    <3>1. tokens[t].revoked => LiveOf(f)' = LiveOf(f)
      BY ChainsKept DEF LiveOf, Live, RowsKept
    <3>2. SessionOf'[f] = SessionOf[f]
      BY <1>3, <2>1, <2>3, <3>1, SessionKept DEF RowsKept
    <3> QED
      BY <2>2, <3>2, OneSessionMoves
  <2>4. CASE Undisturbed(f) /\ ~ tokens[t].revoked
    <3>1. t \in LiveOf(f)
      BY <1>1, <2>4 DEF LiveOf, Live
    <3>2. LiveOf(f) = {t} /\ Issuing(f) = {}
      BY <1>2, <2>4, <3>1 DEF SessionInv, LoginInv
    <3>3. LiveOf(f)' = {}
      <4>1. LiveOf(f)' \subseteq {t}
        BY <3>2, ChainsKept
      <4> QED
        BY <4>1 DEF LiveOf, Live
    <3>4. SessionOf[f] = "active"
      BY <1>2, <2>4, <3>2, SessionValue
    <3>5. SessionOf'[f] = "ended"
      BY <1>2, <1>3, <2>1, <2>4, <3>2, <3>3, SessionValue DEF RowsKept
    <3> QED
      BY <2>2, <3>4, <3>5, OneSessionMoves
  <2> QED
    BY <2>3, <2>4
<1> QED
  BY <1>5, <1>6

LEMMA RevokeStep ==
  ASSUME SessionInv, NEW q \in Requests, Revoke(q)
  PROVE  [Lifecycle!Next]_SessionOf
<1>1. PICK t : t = req[q].token
  OBVIOUS
<1>2. t \in Issued /\ t \in Tokens /\ RowsKept /\ TypeOK' /\ contended' = contended
  BY <1>1, RevokeEffect DEF Issued
<1>3. PICK f \in Tokens : f = tokens[t].login
  BY <1>2 DEF SessionInv, ChainInv, Issued
<1>4. tokens[f].login = f /\ tokens'[f].login = f /\ contended \subseteq Tokens
  BY <1>2, <1>3 DEF SessionInv, ChainInv, TypeOK, RowsKept
<1>5. \A g \in Tokens : Undisturbed(g)' = Undisturbed(g)
  BY <1>2, <1>4 DEF Undisturbed, RowsKept
<1>6. \A g \in Tokens \ {f} : SessionOf'[g] = SessionOf[g]
  BY <1>1, <1>2, <1>3, <1>5, RevokeSession, SessionKept DEF RowsKept
<1>7. CASE Undisturbed(f)
  <2>1. /\ LiveOf(f) = {t} /\ Issuing(f) = {}
        /\ LiveOf(f)' = {} /\ Issuing(f)' = {q}
    BY <1>1, <1>3, <1>7, RevokeSession
  <2>2. SessionOf[f] = "active"
    BY <1>4, <1>7, <2>1, SessionValue
  <2>3. SessionOf'[f] = "renewing"
    BY <1>4, <1>5, <1>7, <2>1, SessionValue
  <2> QED
    BY <1>6, <2>2, <2>3, OneSessionMoves
<1>8. CASE ~ Undisturbed(f)
  <2>1. SessionOf'[f] = SessionOf[f]
    BY <1>4, <1>5, <1>8, SessionValue
  <2> QED
    BY <1>6, <2>1, OneSessionMoves
<1> QED
  BY <1>7, <1>8

LEMMA IssueStep ==
  ASSUME SessionInv, NEW q \in Requests, NEW t \in Tokens, IssueToken(q, t)
  PROVE  [Lifecycle!Next]_SessionOf
<1>1. PICK p : p = req[q].token
  OBVIOUS
<1>2. /\ UNCHANGED contended /\ t \notin Issued /\ t # None
      /\ \A s \in Tokens \ {t} : tokens'[s] = tokens[s]
      /\ tokens'[t].login = IF p = None THEN t ELSE tokens[p].login
      /\ p # None => p \in Issued /\ tokens[p].login \in Issued
  BY <1>1, IssueEffect
<1>3. PICK f \in Tokens : f = tokens'[t].login
  BY <1>2 DEF Issued
<1>4. tokens[t].login # t /\ contended \subseteq Issued /\ contended \subseteq Tokens
  BY <1>2 DEF SessionInv, ChainInv, TypeOK
<1>5. \A g \in Tokens : Undisturbed(g)' = Undisturbed(g)
  BY <1>2, <1>4 DEF Undisturbed
<1>6. \A g \in Tokens \ {f} : SessionOf'[g] = SessionOf[g]
  <2>1. \A g \in Tokens \ {f} : tokens'[g].login = g <=> tokens[g].login = g
    BY <1>2, <1>3, <1>4
  <2> QED
    BY <1>3, <1>5, <2>1, IssueSession, SessionKept
<1>7. tokens'[f].login = f
  <2>1. CASE f = t
    BY <1>3, <2>1
  <2>2. CASE f # t
    <3>1. p \in Tokens /\ p \in Issued /\ f = tokens[p].login
      BY <1>2, <1>3, <2>2 DEF Issued
    <3>2. tokens[f].login = f
      BY <3>1 DEF SessionInv, ChainInv
    <3> QED
      BY <1>2, <2>2, <3>2
  <2> QED
    BY <2>1, <2>2
<1>8. CASE f = t
  <2>1. Undisturbed(t)
    BY <1>2, <1>4 DEF Undisturbed, SessionInv, ChainInv, Issued
  <2>2. LiveOf(t)' = {t}
    BY <1>3, <1>8, <2>1, IssueSession
  <2>3. SessionOf[t] = "none" /\ SessionOf'[t] = "active"
    BY <1>4, <1>5, <1>7, <1>8, <2>1, <2>2, SessionValue
  <2> QED
    BY <1>6, <1>8, <2>3, OneSessionMoves
<1>9. CASE f # t /\ Undisturbed(f)
  <2>1. /\ LiveOf(f)' = {t} /\ Issuing(f)' = {}
        /\ LiveOf(f) = {} /\ Issuing(f) = {q}
    BY <1>3, <1>9, IssueSession
  <2>2. tokens[f].login = f
    BY <1>2, <1>7, <1>9
  <2>3. SessionOf[f] = "renewing" /\ SessionOf'[f] = "active"
    BY <1>5, <1>7, <1>9, <2>1, <2>2, SessionValue
  <2> QED
    BY <1>6, <2>3, OneSessionMoves
<1>10. CASE f # t /\ ~ Undisturbed(f)
  <2>1. SessionOf'[f] = SessionOf[f]
    BY <1>2, <1>5, <1>7, <1>10, SessionValue
  <2> QED
    BY <1>6, <2>1, OneSessionMoves
<1> QED
  BY <1>8, <1>9, <1>10

LEMMA AbortStep ==
  ASSUME SessionInv, NEW q \in Requests, AbortRequest(q)
  PROVE  [Lifecycle!Next]_SessionOf
<1>1. Finish(q) /\ UNCHANGED <<tokens, contended>>
  BY DEF AbortRequest
<1>2. req'[q].pc = "idle" /\ \A p \in Requests \ {q} : req'[p] = req[p]
  BY <1>1, Finished
<1>3. CASE req[q].pc # "issue" \/ req[q].token = None
  <2>1. SessionOf' = SessionOf
    BY <1>1, <1>2, <1>3, BystanderStep
  <2> QED
    BY <2>1
<1>4. CASE req[q].pc = "issue" /\ req[q].token # None
  <2>1. PICK t \in Tokens : t = req[q].token /\ t \in Issued
    BY <1>4 DEF SessionInv, HandlerInv, Issued
  <2>2. PICK f \in Tokens : f = tokens[t].login /\ f \in Issued
    BY <2>1 DEF SessionInv, ChainInv, Issued
  <2>3. tokens[f].login = f
    BY <2>1, <2>2 DEF SessionInv, ChainInv
  <2>4. \A g \in Tokens : /\ Undisturbed(g)' = Undisturbed(g)
                          /\ LiveOf(g)' = LiveOf(g)
                          /\ Issuing(g)' = Issuing(g) \ {q}
    BY <1>1, <1>2 DEF Undisturbed, LiveOf, Live, Issued, Issuing
  <2>5. \A g \in Tokens \ {f} : q \notin Issuing(g)
    BY <2>1, <2>2 DEF Issuing
  <2>6. \A g \in Tokens \ {f} : SessionOf'[g] = SessionOf[g]
    <3>1. \A g \in Tokens \ {f} : Issuing(g)' = Issuing(g)
      BY <2>4, <2>5
    <3> QED
      BY <1>1, <2>4, <3>1, SessionKept
  <2>7. CASE Undisturbed(f)
    <3>1. q \in Issuing(f)
      BY <1>4, <2>1, <2>2 DEF Issuing
    <3>2. LiveOf(f) = {} /\ Issuing(f) = {q}
      BY <2>2, <2>7, <3>1 DEF SessionInv, LoginInv
    <3>3. SessionOf[f] = "renewing"
      BY <2>3, <2>7, <3>2, SessionValue
    <3>4. SessionOf'[f] = "ended"
      BY <1>1, <2>3, <2>4, <2>7, <3>2, SessionValue
    <3> QED
      BY <2>6, <3>3, <3>4, OneSessionMoves
  <2>8. CASE ~ Undisturbed(f)
    <3>1. SessionOf'[f] = SessionOf[f]
      BY <1>1, <2>3, <2>4, <2>8, SessionValue
    <3> QED
      BY <2>6, <3>1, OneSessionMoves
  <2> QED
    BY <2>7, <2>8
<1> QED
  BY <1>3, <1>4

LEMMA SessionStep ==
  ASSUME SessionInv, [Next]_vars
  PROVE  [Lifecycle!Next]_SessionOf
<1>1. ASSUME NEW q \in Requests, NEW e \in Emails, StartRegister(q, e)
      PROVE  SessionOf' = SessionOf
  BY <1>1, StartRegisterStep
<1>2. ASSUME NEW q \in Requests, InsertUser(q) PROVE SessionOf' = SessionOf
  BY <1>2, InsertUserStep
<1>3. ASSUME NEW q \in Requests, NEW u \in UserIds, StartLogin(q, u)
      PROVE  SessionOf' = SessionOf
  BY <1>3, StartLoginStep
<1>4. ASSUME NEW q \in Requests, NEW t \in Tokens, StartRotate(q, t)
      PROVE  [Lifecycle!Next]_SessionOf
  BY <1>4, StartRotateStep
<1>5. ASSUME NEW q \in Requests, Revoke(q) PROVE [Lifecycle!Next]_SessionOf
  BY <1>5, RevokeStep
<1>6. ASSUME NEW q \in Requests, NEW t \in Tokens, IssueToken(q, t)
      PROVE  [Lifecycle!Next]_SessionOf
  BY <1>6, IssueStep
<1>7. ASSUME NEW q \in Requests, AbortRequest(q) PROVE [Lifecycle!Next]_SessionOf
  BY <1>7, AbortStep
<1>8. ASSUME NEW t \in Tokens, Logout(t) PROVE [Lifecycle!Next]_SessionOf
  BY <1>8, LogoutStep
<1>9. ASSUME NEW t \in Tokens, Expire(t) PROVE SessionOf' = SessionOf
  BY <1>9, ExpireInv
<1>10. CASE UNCHANGED vars
  BY <1>10, SessionStutter
<1> QED
  BY <1>1, <1>2, <1>3, <1>4, <1>5, <1>6, <1>7, <1>8, <1>9, <1>10 DEF Next

\* Every statement of every handler is a step of the session of one login, or
\* none: what a logout or a fault has ended never comes back.
THEOREM SessionsImplementLifecycle == Spec => SessionSafety
<1>1. Init => Lifecycle!Init
  BY SessionInit
<1>2. SessionInv /\ [Next]_vars => [Lifecycle!Next]_SessionOf
  BY SessionStep
<1> QED
  BY <1>1, <1>2, SessionInvariant, PTL DEF Spec, SessionSafety, Lifecycle!Spec
=============================================================================
