------------------------------ MODULE ApiServer ------------------------------
(***************************************************************************)
(* One process of the API: its lifespan (app/main.py), the connection pool *)
(* (app/database.py) and what becomes of a request between RoleMiddleware  *)
(* (app/api/middlewares/role.py), the dependencies (app/api/deps.py), the  *)
(* endpoint and the exception handlers.  What the endpoints' statements do *)
(* to the tables is the business of the other modules; here each is a      *)
(* connection acquired, used and given back.                               *)
(*                                                                         *)
(* asyncpg's pool serves acquire() first come, first served, and without a *)
(* timeout; a statement ends within command_timeout, one way or the other. *)
(* uvicorn lets the requests in flight end before it runs the lifespan's   *)
(* second half.                                                            *)
(***************************************************************************)
EXTENDS Naturals, FiniteSetsExt, Sequences, SequencesExt

CONSTANTS
  Requests,    \* bound: requests in flight at once
  Traffic,     \* bound: the [route, caller] a request may be
  MaxPool,     \* DB_POOL_MAX_SIZE
  MaxUses,     \* bound: connections an endpoint acquires one after the other
  MaxFaults    \* bound: times the database goes down

VARIABLES
  phase,       \* of the process
  pool,        \* the asyncpg pool: "none", "open" or "closed"
  stored,      \* app.state.db_pool holds it
  db,          \* the database: "up" or "down"
  faults,
  req,         \* [Requests -> request]
  waiting,     \* Seq(Requests): callers of acquire(), in order
  seen         \* history: [Requests -> states of db since the request began]

vars == <<phase, pool, stored, db, faults, req, waiting, seen>>
process == <<phase, pool, stored, db, faults>>

-----------------------------------------------------------------------------
\* "auth" stands for login, register, refresh and logout, "data" for every
\* endpoint behind get_current_user and get_db_pool, "unknown" for a path or
\* method no router has
Routes  == {"health", "auth", "me", "data", "unknown"}
Public  == {"health", "auth"}

\* Whom the bearer token names: nobody if it is missing or jwt.decode, its type
\* or its role fails; else the users row it leads to
Callers == {"nobody", "active", "deactivated", "missing"}

Answers == {"none", "served", "healthy", "degraded", "401", "403", "422", "500",
            "no route"}

ASSUME TrafficAssumption == Traffic \subseteq [route : Routes, caller : Callers]
ASSUME BoundsAssumption == /\ MaxPool \in Nat \ {0}
                           /\ MaxUses \in Nat \ {0}
                           /\ MaxFaults \in Nat

\* pc: "auth" is the middleware's SELECT, "routed" its call_next, "use" the
\* endpoint's statements; user: where request.state.user comes from
Request == [pc : {"idle", "auth", "routed", "use", "answered"},
            route : Routes, caller : Callers, user : {"none", "row", "token"},
            held : Nat, left : 0..MaxUses, answer : Answers]
Idle == [pc |-> "idle", route |-> "health", caller |-> "nobody", user |-> "none",
         held |-> 0, left |-> 0, answer |-> "none"]

InUse == MapThenSumSet(LAMBDA r : req[r].held, Requests)

Init ==
  /\ phase = "starting"
  /\ pool = "none"
  /\ stored = FALSE
  /\ db \in {"up", "down"}
  /\ faults = 0
  /\ req = [r \in Requests |-> Idle]
  /\ waiting = <<>>
  /\ seen = [r \in Requests |-> {}]

-----------------------------------------------------------------------------
(* The process *)

\* lifespan: create_db_pool opens DB_POOL_MIN_SIZE connections
CreatePool ==
  /\ phase = "starting"
  /\ db = "up"
  /\ phase' = "verifying"
  /\ pool' = "open"
  /\ UNCHANGED <<stored, db, faults, req, waiting, seen>>

\* ... init_db finds the schema or creates it
InitDb ==
  /\ phase = "verifying"
  /\ db = "up"
  /\ phase' = "running"
  /\ stored' = TRUE
  /\ UNCHANGED <<pool, db, faults, req, waiting, seen>>

\* ... or either raises, for whatever reason: the process serves without a pool
StartWithoutPool ==
  /\ phase \in {"starting", "verifying"}
  /\ phase' = "running"
  /\ stored' = FALSE
  /\ UNCHANGED <<pool, db, faults, req, waiting, seen>>

\* SIGTERM: uvicorn accepts no more requests
Stop ==
  /\ phase = "running"
  /\ phase' = "stopping"
  /\ UNCHANGED <<pool, stored, db, faults, req, waiting, seen>>

\* The lifespan after its yield, once the requests have ended: close_db_pool, if
\* app.state has the pool; pool.close() waits until all connections are back
Shutdown ==
  /\ phase = "stopping"
  /\ \A r \in Requests : req[r].pc = "idle"
  /\ stored => InUse = 0
  /\ phase' = "stopped"
  /\ pool' = IF stored THEN "closed" ELSE pool
  /\ UNCHANGED <<stored, db, faults, req, waiting, seen>>

\* The database, or the way to it, fails and comes back
DbChanges ==
  /\ IF db = "up"
       THEN faults < MaxFaults /\ db' = "down" /\ faults' = faults + 1
       ELSE db' = "up" /\ UNCHANGED faults
  /\ seen' = [r \in Requests |->
                IF req[r].pc = "idle" THEN seen[r] ELSE seen[r] \cup {db'}]
  /\ UNCHANGED <<phase, pool, stored, req, waiting>>

-----------------------------------------------------------------------------
(* A request *)

To(r, pc)          == [req EXCEPT ![r].pc = pc]
Answered(r, what)  == [req EXCEPT ![r].pc = "answered", ![r].answer = what,
                                  ![r].held = 0]
Queue(r)           == waiting' = Append(waiting, r)

\* RoleMiddleware.dispatch up to its SELECT: public paths pass, a token that is
\* no good is refused (with 403 for its role), and without a pool it is believed
Receive(r, route, caller) ==
  /\ phase = "running"
  /\ req[r].pc = "idle"
  /\ seen' = [seen EXCEPT ![r] = {db}]
  /\ LET new(pc, user, answer) ==
           req' = [req EXCEPT ![r] = [@ EXCEPT !.pc = pc, !.route = route,
                     !.caller = caller, !.user = user, !.answer = answer]]
     IN \/ /\ route \in Public
           /\ new("routed", "none", "none")
           /\ UNCHANGED waiting
        \/ /\ route \notin Public /\ caller = "nobody"
           /\ \E what \in {"401", "403"} : new("answered", "none", what)
           /\ UNCHANGED waiting
        \/ /\ route \notin Public /\ caller # "nobody" /\ ~ stored
           /\ new("routed", "token", "none")
           /\ UNCHANGED waiting
        \/ /\ route \notin Public /\ caller # "nobody" /\ stored
           /\ new("auth", "none", "none")
           /\ Queue(r)
  /\ UNCHANGED process

\* pool.acquire() returns, to the one who has waited longest
Acquire(r) ==
  /\ waiting # <<>>
  /\ r = Head(waiting)
  /\ InUse < MaxPool
  /\ waiting' = Tail(waiting)
  /\ req' = [req EXCEPT ![r].held = @ + 1]
  /\ UNCHANGED <<process, seen>>

\* r has the connection it asked for, and it is still open
Connected(r) == /\ req[r].held > 0
                /\ ~ Contains(waiting, r)

\* Mutant: is_active is not looked at
AdmitFound(r) ==
  /\ req[r].pc = "auth"
  /\ Connected(r)
  /\ db = "up"
  /\ req' = IF req[r].caller = "missing" THEN Answered(r, "401")
            ELSE [req EXCEPT ![r].pc = "routed", ![r].user = "row", ![r].held = 0]
  /\ UNCHANGED <<process, waiting, seen>>

\* Mutant: call_next runs inside "async with pool.acquire()"
AdmitHolding(r) ==
  /\ req[r].pc = "auth"
  /\ Connected(r)
  /\ db = "up"
  /\ req' = CASE req[r].caller = "missing" -> Answered(r, "401")
              [] req[r].caller = "deactivated" -> Answered(r, "403")
              [] OTHER -> [req EXCEPT ![r].pc = "routed", ![r].user = "row"]
  /\ UNCHANGED <<process, waiting, seen>>

\* The middleware's SELECT: the connection goes back before the request goes on
Admit(r) ==
  /\ req[r].pc = "auth"
  /\ Connected(r)
  /\ db = "up"
  /\ req' = CASE req[r].caller = "missing" -> Answered(r, "401")
              [] req[r].caller = "deactivated" -> Answered(r, "403")
              [] OTHER -> [req EXCEPT ![r].pc = "routed", ![r].user = "row",
                                      ![r].held = 0]
  /\ UNCHANGED <<process, waiting, seen>>

\* The router, and then what can be answered without a connection: a path it
\* does not know, the caller's own profile, get_db_pool's 500, a health check
\* without a pool, a body or a query that does not validate
Answer(r, what) ==
  /\ req[r].pc = "routed"
  /\ \/ what = "no route" /\ req[r].route = "unknown"
     \/ what = "served"   /\ req[r].route = "me"
     \/ what = "500"      /\ req[r].route \in {"auth", "data"} /\ ~ stored
     \/ what = "degraded" /\ req[r].route = "health" /\ ~ stored
     \/ what = "422"      /\ req[r].route \in {"auth", "data"}
  /\ req' = Answered(r, what)
  /\ UNCHANGED <<process, waiting, seen>>

\* The endpoint goes to the pool
CallEndpoint(r, uses) ==
  /\ req[r].pc = "routed"
  /\ req[r].route \in {"health", "auth", "data"}
  /\ stored
  /\ req[r].route = "health" => uses = 1
  /\ req' = [req EXCEPT ![r].pc = "use", ![r].left = uses]
  /\ Queue(r)
  /\ UNCHANGED <<process, seen>>

\* Mutant: one connection too many
UseOnceMore(r) ==
  /\ req[r].pc = "use"
  /\ Connected(r)
  /\ db = "up"
  /\ IF req[r].left >= 0
       THEN /\ req' = [req EXCEPT ![r].left = @ - 1, ![r].held = 0]
            /\ Queue(r)
       ELSE /\ req' = Answered(r, "served")
            /\ UNCHANGED waiting
  /\ UNCHANGED <<process, seen>>

\* The statements under one acquire(): then the connection goes back, and the
\* endpoint acquires the next one or answers
UseConnection(r) ==
  /\ req[r].pc = "use"
  /\ Connected(r)
  /\ db = "up"
  /\ IF req[r].left > 1
       THEN /\ req' = [req EXCEPT ![r].left = @ - 1, ![r].held = 0]
            /\ Queue(r)
       ELSE /\ req' = Answered(r, IF req[r].route = "health" THEN "healthy"
                                                             ELSE "served")
            /\ UNCHANGED waiting
  /\ UNCHANGED <<process, seen>>

\* A connection opened before the last failure may be dead without anyone
\* having noticed
Failing == db = "down" \/ faults > 0

\* Mutant: a statement that raises keeps its connection
FailHolding(r) ==
  /\ req[r].pc \in {"auth", "use"}
  /\ Connected(r)
  /\ Failing
  /\ req' = [req EXCEPT ![r].pc = "answered", ![r].answer = "500"]
  /\ UNCHANGED <<process, waiting, seen>>

\* Mutant: health_check swallows the exception and calls that healthy
FailHealthy(r) ==
  /\ req[r].pc \in {"auth", "use"}
  /\ Connected(r)
  /\ Failing
  /\ req' = Answered(r, IF req[r].route = "health" THEN "healthy" ELSE "500")
  /\ UNCHANGED <<process, waiting, seen>>

\* Connecting, or a statement, raises: "async with" gives the connection back,
\* health_check swallows the exception and the last handler answers the others
FailConnection(r) ==
  /\ req[r].pc \in {"auth", "use"}
  /\ Connected(r)
  /\ Failing
  /\ req' = Answered(r, IF req[r].route = "health" THEN "degraded" ELSE "500")
  /\ UNCHANGED <<process, waiting, seen>>

\* The answer is sent
Send(r) ==
  /\ req[r].pc = "answered"
  /\ req' = [req EXCEPT ![r] = [Idle EXCEPT !.held = req[r].held]]
  /\ seen' = [seen EXCEPT ![r] = {}]
  /\ UNCHANGED <<process, waiting>>

RequestStep(r) ==
  \/ Acquire(r)
  \/ Admit(r)
  \/ \E what \in Answers : Answer(r, what)
  \/ \E uses \in 1..MaxUses : CallEndpoint(r, uses)
  \/ UseConnection(r)
  \/ FailConnection(r)
  \/ Send(r)

Next ==
  \/ CreatePool
  \/ InitDb
  \/ StartWithoutPool
  \/ Stop
  \/ Shutdown
  \/ DbChanges
  \/ \E r \in Requests :
       \/ \E t \in Traffic : Receive(r, t.route, t.caller)
       \/ Acquire(r)
       \/ Admit(r)
       \/ \E what \in Answers : Answer(r, what)
       \/ \E uses \in 1..MaxUses : CallEndpoint(r, uses)
       \/ UseConnection(r)
       \/ FailConnection(r)
       \/ Send(r)

Spec == Init /\ [][Next]_vars

\* The event loop runs every request that can go on; a start ends, and a stop
\* when its requests have.  Nothing makes a database come back.
FairSpec ==
  /\ Spec
  /\ \A r \in Requests : WF_vars(RequestStep(r))
  /\ WF_vars(CreatePool \/ InitDb \/ StartWithoutPool)
  /\ WF_vars(Shutdown)

-----------------------------------------------------------------------------
\* Every variable keeps its type, and nobody waits twice.
TypeOK ==
  /\ phase \in {"starting", "verifying", "running", "stopping", "stopped"}
  /\ pool \in {"none", "open", "closed"}
  /\ stored \in BOOLEAN
  /\ db \in {"up", "down"}
  /\ faults \in 0..MaxFaults
  /\ req \in [Requests -> Request]
  /\ waiting \in Seq(Requests)
  /\ IsInjective(waiting)
  /\ seen \in [Requests -> SUBSET {"up", "down"}]

\* The middleware's connection is back before call_next, and no service calls
\* another inside its "async with": a request that waits for a connection holds
\* none.  acquire() has no timeout, so two that did could wait for ever.
NoHoldAndWait == \A r \in ToSet(waiting) : req[r].held = 0

\* Every request is answered, however many share the pool, whatever fails and
\* although acquire() waits without a limit.
EventuallyAnswered ==
  \A r \in Requests : req[r].pc \in {"auth", "routed", "use"} ~> req[r].pc = "answered"

\* uvicorn waits for the requests in flight before it shuts down: they end.
StopCompletes == phase = "stopping" ~> phase = "stopped"

\* A protected endpoint serves none but active users, by their row.  Without a
\* pool the token is believed, but the services do not run: only /auth/me
\* answers then, from the token itself.
OnlyActiveServed ==
  \A r \in Requests :
    req[r].answer = "served" /\ req[r].route \notin Public =>
      IF stored THEN req[r].user = "row" /\ req[r].caller = "active"
                ELSE req[r].route = "me"

\* health_check says "healthy" only if the database answered while it ran, and
\* "degraded" only if there is no pool or the database has failed.
HealthTruth ==
  \A r \in Requests :
    /\ req[r].answer = "healthy" => stored /\ "up" \in seen[r]
    /\ req[r].answer = "degraded" => ~ stored \/ faults > 0
=============================================================================
