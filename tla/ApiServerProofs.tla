--------------------------- MODULE ApiServerProofs ---------------------------
(***************************************************************************)
(* The API process, for any number of requests, any traffic, any pool and  *)
(* any number of failures of the database: no request holds a connection   *)
(* while it waits for another, protected endpoints serve active users, and *)
(* the health check tells the truth.                                       *)
(***************************************************************************)
EXTENDS ApiServer, TLAPS

Waits(r) == Contains(waiting, r)

\* A request waits and holds connections only where it asks for them.
ConnectionInv(r) ==
  /\ Waits(r) => req[r].held = 0 /\ req[r].pc \in {"auth", "use"}
  /\ req[r].pc \in {"idle", "routed", "answered"} => req[r].held = 0

\* What the middleware has found out about its user by then.
UserInv(r) ==
  /\ req[r].pc # "answered" => req[r].answer = "none"
  /\ req[r].pc = "auth" => stored /\ req[r].caller # "nobody"
  /\ req[r].pc \in {"routed", "use"} /\ req[r].route \notin Public =>
       IF stored THEN req[r].user = "row" /\ req[r].caller = "active"
                 ELSE req[r].user = "token"
  /\ req[r].pc = "use" => stored

\* What has been answered is justified.
AnswerInv(r) ==
  /\ req[r].answer = "served" /\ req[r].route \notin Public =>
       IF stored THEN req[r].user = "row" /\ req[r].caller = "active"
                 ELSE req[r].route = "me"
  /\ req[r].answer = "healthy" => stored /\ "up" \in seen[r]
  /\ req[r].answer = "degraded" => ~ stored \/ faults > 0

\* History knows the database as it is.
SeenInv(r) == req[r].pc # "idle" => db \in seen[r]

RequestInv(r) == ConnectionInv(r) /\ UserInv(r) /\ AnswerInv(r) /\ SeenInv(r)

\* Requests come once it is settled whether there is a pool, and a database that
\* is down under a pool has failed since.
ProcessInv ==
  /\ phase \in {"starting", "verifying"} =>
       ~ stored /\ \A r \in Requests : req[r].pc = "idle"
  /\ stored /\ db = "down" => faults > 0

\* The inductive invariant.
ApiInv == TypeOK /\ ProcessInv /\ \A r \in Requests : RequestInv(r)

-----------------------------------------------------------------------------
\* A queue that someone joins who is not in it.
LEMMA JoinQueue ==
  ASSUME NEW s \in Seq(Requests), IsInjective(s), NEW r \in Requests, ~ Contains(s, r)
  PROVE  /\ Append(s, r) \in Seq(Requests)
         /\ IsInjective(Append(s, r))
         /\ \A x \in Requests : Contains(Append(s, r), x) => Contains(s, x) \/ x = r
BY DEF IsInjective, Contains

\* A queue that its first leaves.
LEMMA LeaveQueue ==
  ASSUME NEW s \in Seq(Requests), IsInjective(s), s # <<>>
  PROVE  /\ Tail(s) \in Seq(Requests)
         /\ IsInjective(Tail(s))
         /\ Contains(s, Head(s))
         /\ ~ Contains(Tail(s), Head(s))
         /\ \A x \in Requests : Contains(Tail(s), x) => Contains(s, x)
BY DEF IsInjective, Contains

-----------------------------------------------------------------------------
\* What a step of one request has to keep: the others are as they were.
LEMMA RequestKept ==
  ASSUME ApiInv, NEW r \in Requests, UNCHANGED process,
         phase \notin {"starting", "verifying"},
         req' \in [Requests -> Request],
         seen' \in [Requests -> SUBSET {"up", "down"}],
         waiting' \in Seq(Requests), IsInjective(waiting)',
         \A x \in Requests \ {r} :
           req'[x] = req[x] /\ seen'[x] = seen[x] /\ (Waits(x)' => Waits(x)),
         RequestInv(r)'
  PROVE  ApiInv'
<1>1. TypeOK'
  BY DEF ApiInv, TypeOK, process
<1>2. ProcessInv'
  BY DEF ApiInv, ProcessInv, process
<1>3. ASSUME NEW x \in Requests \ {r} PROVE RequestInv(x)'
  BY <1>3 DEF ApiInv, RequestInv, ConnectionInv, UserInv, AnswerInv, SeenInv, process
<1> QED
  BY <1>1, <1>2, <1>3 DEF ApiInv

\* Requests come and go on when it is settled whether there is a pool.
LEMMA Settled ==
  ASSUME ApiInv, NEW r \in Requests, req[r].pc # "idle"
  PROVE  phase \notin {"starting", "verifying"}
BY DEF ApiInv, ProcessInv

-----------------------------------------------------------------------------
LEMMA InitInv == Init => ApiInv
<1> SUFFICES ASSUME Init PROVE ApiInv
  OBVIOUS
<1>1. Idle \in Request
  BY BoundsAssumption DEF Idle, Request, Routes, Callers, Answers
<1>2. IsInjective(<<>>) /\ <<>> \in Seq(Requests)
  BY DEF IsInjective
<1>3. TypeOK
  <2>1. faults \in 0..MaxFaults
    BY BoundsAssumption DEF Init
  <2>2. req \in [Requests -> Request]
    BY <1>1 DEF Init
  <2>3. seen \in [Requests -> SUBSET {"up", "down"}]
    BY DEF Init
  <2> QED
    BY <1>2, <2>1, <2>2, <2>3 DEF Init, TypeOK
<1>4. \A r \in Requests : req[r] = Idle /\ ~ Waits(r)
  BY DEF Init, Waits, Contains
<1>5. ProcessInv
  BY <1>4 DEF Init, ProcessInv, Idle
<1>6. \A r \in Requests : RequestInv(r)
  BY <1>4 DEF RequestInv, ConnectionInv, UserInv, AnswerInv, SeenInv, Idle
<1> QED
  BY <1>3, <1>5, <1>6 DEF ApiInv

LEMMA CreatePoolInv == ApiInv /\ CreatePool => ApiInv'
<1> SUFFICES ASSUME ApiInv, CreatePool PROVE ApiInv'
  OBVIOUS
<1> USE DEF CreatePool
<1>1. TypeOK'
  BY DEF ApiInv, TypeOK
<1>2. ProcessInv'
  BY DEF ApiInv, ProcessInv
<1>3. \A r \in Requests : RequestInv(r)'
  BY DEF ApiInv, RequestInv, ConnectionInv, UserInv, AnswerInv, SeenInv, Waits
<1> QED
  BY <1>1, <1>2, <1>3 DEF ApiInv

\* A start that ends, with the pool or without: no request has come yet.
LEMMA StartInv == ApiInv /\ (InitDb \/ StartWithoutPool) => ApiInv'
<1> SUFFICES ASSUME ApiInv, InitDb \/ StartWithoutPool PROVE ApiInv'
  OBVIOUS
<1> USE DEF InitDb, StartWithoutPool
<1>1. TypeOK'
  BY DEF ApiInv, TypeOK
<1>2. ProcessInv'
  BY DEF ApiInv, ProcessInv
<1>3. \A r \in Requests : req[r].pc = "idle"
  BY DEF ApiInv, ProcessInv
<1>4. \A r \in Requests : RequestInv(r)'
  BY <1>3 DEF ApiInv, RequestInv, ConnectionInv, UserInv, AnswerInv, SeenInv, Waits
<1> QED
  BY <1>1, <1>2, <1>4 DEF ApiInv

LEMMA StopInv == ApiInv /\ (Stop \/ Shutdown) => ApiInv'
<1> SUFFICES ASSUME ApiInv, Stop \/ Shutdown PROVE ApiInv'
  OBVIOUS
<1> USE DEF Stop, Shutdown
<1>1. TypeOK'
  BY DEF ApiInv, TypeOK
<1>2. ProcessInv'
  BY DEF ApiInv, ProcessInv
<1>3. \A r \in Requests : RequestInv(r)'
  BY DEF ApiInv, RequestInv, ConnectionInv, UserInv, AnswerInv, SeenInv, Waits
<1> QED
  BY <1>1, <1>2, <1>3 DEF ApiInv

LEMMA DbInv == ApiInv /\ DbChanges => ApiInv'
<1> SUFFICES ASSUME ApiInv, DbChanges PROVE ApiInv'
  OBVIOUS
<1> USE DEF DbChanges
<1>1. TypeOK'
  BY BoundsAssumption DEF ApiInv, TypeOK
<1>2. faults \in Nat /\ faults' \in Nat /\ (faults > 0 => faults' > 0)
  BY BoundsAssumption DEF ApiInv, TypeOK
<1>3. ProcessInv'
  BY <1>2 DEF ApiInv, ProcessInv, TypeOK
<1>4. ASSUME NEW r \in Requests PROVE RequestInv(r)'
  <2>1. seen'[r] = IF req[r].pc = "idle" THEN seen[r] ELSE seen[r] \cup {db'}
    OBVIOUS
  <2> QED
    BY <1>2, <2>1
       DEF ApiInv, RequestInv, ConnectionInv, UserInv, AnswerInv, SeenInv, Waits
<1> QED
  BY <1>1, <1>3, <1>4 DEF ApiInv

-----------------------------------------------------------------------------
LEMMA ReceiveInv ==
  ASSUME ApiInv, NEW r \in Requests, NEW t \in Traffic, Receive(r, t.route, t.caller)
  PROVE  ApiInv'
<1> DEFINE new == req'[r]
<1>1. t.route \in Routes /\ t.caller \in Callers
  BY TrafficAssumption
<1>2. /\ req[r].held = 0 /\ req[r].answer = "none" /\ ~ Waits(r)
      /\ req[r].pc = "idle" /\ phase = "running"
      /\ req[r] \in Request
  BY DEF Receive, ApiInv, TypeOK, RequestInv, ConnectionInv, UserInv
<1>3. PICK pc \in {"routed", "answered", "auth"}, user \in {"none", "token"},
           answer \in {"none", "401", "403"} :
        /\ req' = [req EXCEPT ![r] = [@ EXCEPT !.pc = pc, !.route = t.route,
                     !.caller = t.caller, !.user = user, !.answer = answer]]
        /\ \/ /\ t.route \in Public
              /\ pc = "routed" /\ answer = "none" /\ waiting' = waiting
           \/ pc = "answered" /\ waiting' = waiting
           \/ /\ t.route \notin Public /\ t.caller # "nobody" /\ ~ stored
              /\ pc = "routed" /\ answer = "none" /\ user = "token"
              /\ waiting' = waiting
           \/ /\ t.route \notin Public /\ t.caller # "nobody" /\ stored
              /\ pc = "auth" /\ answer = "none" /\ waiting' = Append(waiting, r)
  BY DEF Receive, Queue
<1>4. /\ new \in Request /\ new.held = 0
      /\ new.pc = pc /\ new.user = user /\ new.answer = answer
      /\ new.route = t.route /\ new.caller = t.caller
      /\ req' \in [Requests -> Request]
      /\ \A x \in Requests \ {r} : req'[x] = req[x]
  <2>1. new = [req[r] EXCEPT !.pc = pc, !.route = t.route,
                 !.caller = t.caller, !.user = user, !.answer = answer]
    BY <1>3 DEF ApiInv, TypeOK
  <2>2. /\ new \in Request /\ new.held = 0
        /\ new.pc = pc /\ new.user = user /\ new.answer = answer
        /\ new.route = t.route /\ new.caller = t.caller
    BY <1>1, <1>2, <2>1 DEF Request, Answers
  <2>3. req' = [req EXCEPT ![r] = new]
    BY <1>3, <2>1 DEF ApiInv, TypeOK
  <2> QED
    BY <2>2, <2>3 DEF ApiInv, TypeOK
<1>5. /\ waiting' \in Seq(Requests) /\ IsInjective(waiting)'
      /\ \A x \in Requests : Waits(x)' => Waits(x) \/ (x = r /\ pc = "auth")
  <2>1. waiting \in Seq(Requests) /\ IsInjective(waiting) /\ ~ Contains(waiting, r)
    BY <1>2 DEF Waits, ApiInv, TypeOK
  <2>2. CASE waiting' = waiting
    BY <2>1, <2>2 DEF Waits
  <2>3. CASE pc = "auth" /\ waiting' = Append(waiting, r)
    <3>1. /\ Append(waiting, r) \in Seq(Requests) /\ IsInjective(Append(waiting, r))
          /\ \A x \in Requests :
               Contains(Append(waiting, r), x) => Contains(waiting, x) \/ x = r
      BY <2>1, JoinQueue
    <3> QED
      BY <2>3, <3>1 DEF Waits
  <2> QED
    BY <1>3, <2>2, <2>3
<1>6. /\ seen' \in [Requests -> SUBSET {"up", "down"}]
      /\ seen'[r] = {db} /\ \A x \in Requests \ {r} : seen'[x] = seen[x]
  BY DEF Receive, ApiInv, TypeOK
<1>7. UNCHANGED process
  BY DEF Receive
<1>8. RequestInv(r)'
  BY <1>2, <1>3, <1>4, <1>5, <1>6, <1>7
     DEF RequestInv, ConnectionInv, UserInv, AnswerInv, SeenInv, process
<1> QED
  BY <1>2, <1>4, <1>5, <1>6, <1>7, <1>8, RequestKept

LEMMA AcquireInv ==
  ASSUME ApiInv, NEW r \in Requests, Acquire(r)
  PROVE  ApiInv'
<1>1. /\ waiting' \in Seq(Requests) /\ IsInjective(waiting)'
      /\ Waits(r) /\ ~ Waits(r)'
      /\ \A x \in Requests : Waits(x)' => Waits(x)
  BY LeaveQueue DEF Acquire, Waits, ApiInv, TypeOK
<1>2. req[r].held = 0 /\ req[r].pc \in {"auth", "use"} /\ req[r] \in Request
  BY <1>1 DEF ApiInv, TypeOK, RequestInv, ConnectionInv
<1>3. req' = [req EXCEPT ![r] = [req[r] EXCEPT !.held = 1]]
  BY <1>2 DEF Acquire, ApiInv, TypeOK
<1>4. /\ req'[r] = [req[r] EXCEPT !.held = 1]
      /\ req'[r] \in Request
      /\ req' \in [Requests -> Request]
      /\ \A x \in Requests \ {r} : req'[x] = req[x]
  BY <1>2, <1>3 DEF ApiInv, TypeOK, Request
<1>5. UNCHANGED <<process, seen>>
  BY DEF Acquire
<1>6. RequestInv(r)'
  BY <1>1, <1>2, <1>4, <1>5
     DEF ApiInv, Request, RequestInv, ConnectionInv, UserInv, AnswerInv, SeenInv, process
<1>7. seen' \in [Requests -> SUBSET {"up", "down"}]
  BY <1>5 DEF ApiInv, TypeOK
<1>8. phase \notin {"starting", "verifying"}
  BY <1>2, Settled
<1> QED
  BY <1>1, <1>4, <1>5, <1>6, <1>7, <1>8, RequestKept

\* A step of one request that leaves the queue, the process and history alone.
LEMMA StepKept ==
  ASSUME ApiInv, NEW r \in Requests, req[r].pc # "idle", NEW new \in Request,
         req' = [req EXCEPT ![r] = new], UNCHANGED <<process, waiting, seen>>,
         RequestInv(r)'
  PROVE  ApiInv'
<1>1. /\ req' \in [Requests -> Request]
      /\ \A x \in Requests \ {r} : req'[x] = req[x]
  BY DEF ApiInv, TypeOK
<1>2. /\ seen' \in [Requests -> SUBSET {"up", "down"}]
      /\ waiting' \in Seq(Requests) /\ IsInjective(waiting)'
      /\ \A x \in Requests : Waits(x)' => Waits(x)
  BY DEF ApiInv, TypeOK, Waits
<1>3. phase \notin {"starting", "verifying"}
  BY Settled
<1> QED
  BY <1>1, <1>2, <1>3, RequestKept

\* A step that answers: what it answers has to be justified.
LEMMA AnswerKept ==
  ASSUME ApiInv, NEW r \in Requests, NEW what \in Answers, what # "none",
         req[r].pc # "idle", ~ Waits(r),
         req' = Answered(r, what), UNCHANGED <<process, waiting, seen>>,
         what = "served" /\ req[r].route \notin Public =>
           IF stored THEN req[r].user = "row" /\ req[r].caller = "active"
                     ELSE req[r].route = "me",
         what = "healthy" => stored /\ "up" \in seen[r],
         what = "degraded" => ~ stored \/ faults > 0
  PROVE  ApiInv'
<1> DEFINE new == [req[r] EXCEPT !.pc = "answered", !.answer = what, !.held = 0]
<1>1. req \in [Requests -> Request] /\ req[r] \in Request
  BY DEF ApiInv, TypeOK
<1>2. /\ new \in Request
      /\ new.pc = "answered" /\ new.answer = what /\ new.held = 0
      /\ new.route = req[r].route /\ new.caller = req[r].caller
      /\ new.user = req[r].user
  BY <1>1 DEF Request
<1>3. req' = [req EXCEPT ![r] = new]
  BY <1>1 DEF Answered
<1>4. req'[r] = new
  BY <1>1, <1>3
<1>5. db \in seen[r] /\ ~ Waits(r)'
  BY DEF ApiInv, RequestInv, SeenInv, Waits
<1>6. RequestInv(r)'
  BY <1>2, <1>4, <1>5
     DEF RequestInv, ConnectionInv, UserInv, AnswerInv, SeenInv, process
<1> QED
  BY <1>2, <1>3, <1>6, StepKept

LEMMA AdmitInv ==
  ASSUME ApiInv, NEW r \in Requests, Admit(r)
  PROVE  ApiInv'
<1>1. /\ req[r].pc = "auth" /\ stored /\ req[r].caller # "nobody" /\ ~ Waits(r)
      /\ req \in [Requests -> Request] /\ req[r] \in Request /\ db \in seen[r]
      /\ UNCHANGED <<process, waiting, seen>>
  BY DEF ApiInv, TypeOK, RequestInv, UserInv, SeenInv, Admit, Connected, Waits
<1>2. CASE req' = Answered(r, "401")
  BY <1>1, <1>2, AnswerKept DEF Answers
<1>3. CASE req' = Answered(r, "403")
  BY <1>1, <1>3, AnswerKept DEF Answers
<1>4. CASE /\ req[r].caller \notin {"missing", "deactivated"}
           /\ req' = [req EXCEPT ![r].pc = "routed", ![r].user = "row",
                                 ![r].held = 0]
  <2> DEFINE new == [req[r] EXCEPT !.pc = "routed", !.user = "row", !.held = 0]
  <2>1. /\ new \in Request
        /\ new.pc = "routed" /\ new.user = "row" /\ new.held = 0
        /\ new.route = req[r].route /\ new.caller = req[r].caller
        /\ new.answer = req[r].answer
    BY <1>1 DEF Request
  <2>2. req' = [req EXCEPT ![r] = new] /\ req'[r] = new
    BY <1>1, <1>4
  <2>3. req[r].caller = "active"
    BY <1>1, <1>4 DEF Request, Callers
  <2>4. req[r].answer = "none" /\ ~ Waits(r)'
    BY <1>1 DEF ApiInv, RequestInv, UserInv, Waits
  <2>5. RequestInv(r)'
    BY <1>1, <2>1, <2>2, <2>3, <2>4
       DEF RequestInv, ConnectionInv, UserInv, AnswerInv, SeenInv, process
  <2> QED
    BY <1>1, <2>1, <2>2, <2>5, StepKept
<1> QED
  BY <1>2, <1>3, <1>4 DEF Admit

LEMMA AnswerInvKept ==
  ASSUME ApiInv, NEW r \in Requests, NEW what \in Answers, Answer(r, what)
  PROVE  ApiInv'
<1>1. /\ req[r].pc = "routed" /\ what # "none" /\ ~ Waits(r)
      /\ req' = Answered(r, what) /\ UNCHANGED <<process, waiting, seen>>
  BY DEF ApiInv, RequestInv, ConnectionInv, Answer
<1>2. what = "served" /\ req[r].route \notin Public =>
        IF stored THEN req[r].user = "row" /\ req[r].caller = "active"
                  ELSE req[r].route = "me"
  BY DEF ApiInv, RequestInv, UserInv, Answer
<1>3. what # "healthy" /\ (what = "degraded" => ~ stored)
  BY DEF Answer
<1> QED
  BY <1>1, <1>2, <1>3, AnswerKept

\* A step that joins the queue for a connection, holding none.
LEMMA QueueKept ==
  ASSUME ApiInv, NEW r \in Requests, req[r].pc # "idle", ~ Waits(r),
         NEW new \in Request, new.held = 0, new.pc = "use",
         req' = [req EXCEPT ![r] = new], Queue(r), UNCHANGED <<process, seen>>,
         UserInv(r)', AnswerInv(r)'
  PROVE  ApiInv'
<1>1. /\ req'[r] = new
      /\ req' \in [Requests -> Request]
      /\ \A x \in Requests \ {r} : req'[x] = req[x]
  BY DEF ApiInv, TypeOK
<1>2. waiting \in Seq(Requests) /\ IsInjective(waiting) /\ ~ Contains(waiting, r)
  BY DEF Waits, ApiInv, TypeOK
<1>3. /\ Append(waiting, r) \in Seq(Requests) /\ IsInjective(Append(waiting, r))
      /\ \A x \in Requests :
           Contains(Append(waiting, r), x) => Contains(waiting, x) \/ x = r
  BY <1>2, JoinQueue
<1>4. /\ waiting' \in Seq(Requests) /\ IsInjective(waiting)'
      /\ \A x \in Requests \ {r} : Waits(x)' => Waits(x)
  BY <1>3 DEF Waits, Queue
<1>5. seen' \in [Requests -> SUBSET {"up", "down"}] /\ db' \in seen'[r]
  BY DEF ApiInv, TypeOK, RequestInv, SeenInv, process
<1>6. RequestInv(r)'
  BY <1>1, <1>5 DEF RequestInv, ConnectionInv, SeenInv
<1>7. phase \notin {"starting", "verifying"}
  BY Settled
<1> QED
  BY <1>1, <1>4, <1>5, <1>6, <1>7, RequestKept

LEMMA CallInv ==
  ASSUME ApiInv, NEW r \in Requests, NEW uses \in 1..MaxUses, CallEndpoint(r, uses)
  PROVE  ApiInv'
<1> DEFINE new == [req[r] EXCEPT !.pc = "use", !.left = uses]
<1>1. /\ req[r].pc = "routed" /\ ~ Waits(r) /\ req[r].held = 0
      /\ req \in [Requests -> Request] /\ req[r] \in Request /\ stored
      /\ Queue(r) /\ UNCHANGED <<process, seen>>
  BY DEF ApiInv, TypeOK, RequestInv, ConnectionInv, CallEndpoint
<1>2. /\ new \in Request /\ new.pc = "use" /\ new.held = 0
      /\ new.route = req[r].route /\ new.caller = req[r].caller
      /\ new.user = req[r].user /\ new.answer = req[r].answer
  <2>1. uses \in 0..MaxUses
    BY BoundsAssumption
  <2> QED
    BY <1>1, <2>1 DEF Request
<1>3. req' = [req EXCEPT ![r] = new] /\ req'[r] = new
  BY <1>1 DEF CallEndpoint
<1>4. UserInv(r)' /\ AnswerInv(r)'
  BY <1>1, <1>2, <1>3 DEF ApiInv, RequestInv, UserInv, AnswerInv, process
<1> QED
  BY <1>1, <1>2, <1>3, <1>4, QueueKept

LEMMA UseInv ==
  ASSUME ApiInv, NEW r \in Requests, UseConnection(r)
  PROVE  ApiInv'
<1>1. /\ req[r].pc = "use" /\ ~ Waits(r) /\ stored /\ db = "up" /\ db \in seen[r]
      /\ req \in [Requests -> Request] /\ req[r] \in Request
      /\ UNCHANGED <<process, seen>>
  BY DEF ApiInv, TypeOK, RequestInv, UserInv, SeenInv, UseConnection, Connected, Waits
<1>2. CASE req[r].left > 1
  <2> DEFINE new == [req[r] EXCEPT !.left = @ - 1, !.held = 0]
  <2>1. req[r].left \in 0..MaxUses /\ req[r].left - 1 \in 0..MaxUses
    BY <1>1, <1>2, BoundsAssumption DEF Request
  <2>2. /\ new \in Request /\ new.pc = "use" /\ new.held = 0
        /\ new.route = req[r].route /\ new.caller = req[r].caller
        /\ new.user = req[r].user /\ new.answer = req[r].answer
    BY <1>1, <2>1 DEF Request
  <2>3. req' = [req EXCEPT ![r] = new] /\ req'[r] = new /\ Queue(r)
    BY <1>1, <1>2 DEF UseConnection
  <2>4. UserInv(r)' /\ AnswerInv(r)'
    BY <1>1, <2>2, <2>3 DEF ApiInv, RequestInv, UserInv, AnswerInv, process
  <2> QED
    BY <1>1, <2>2, <2>3, <2>4, QueueKept
<1>3. CASE ~ (req[r].left > 1)
  <2> DEFINE what == IF req[r].route = "health" THEN "healthy" ELSE "served"
  <2>1. req' = Answered(r, what) /\ waiting' = waiting
    BY <1>3 DEF UseConnection
  <2>2. req[r].route \notin Public => req[r].user = "row" /\ req[r].caller = "active"
    BY <1>1 DEF ApiInv, RequestInv, UserInv
  <2>3. what \in Answers /\ what # "none" /\ what # "degraded"
    BY DEF Answers
  <2> HIDE DEF what
  <2> QED
    BY <1>1, <2>1, <2>2, <2>3, AnswerKept
<1> QED
  BY <1>2, <1>3

LEMMA FailInv ==
  ASSUME ApiInv, NEW r \in Requests, FailConnection(r)
  PROVE  ApiInv'
<1> DEFINE what == IF req[r].route = "health" THEN "degraded" ELSE "500"
<1>1. /\ req[r].pc \in {"auth", "use"} /\ ~ Waits(r) /\ stored
      /\ req' = Answered(r, what) /\ UNCHANGED <<process, waiting, seen>>
  BY DEF ApiInv, RequestInv, UserInv, FailConnection, Connected, Waits
<1>2. faults > 0
  BY <1>1 DEF ApiInv, ProcessInv, FailConnection, Failing
<1>3. what \in Answers /\ what \notin {"none", "healthy", "served"}
  BY DEF Answers
<1> HIDE DEF what
<1> QED
  BY <1>1, <1>2, <1>3, AnswerKept

LEMMA SendInv ==
  ASSUME ApiInv, NEW r \in Requests, Send(r)
  PROVE  ApiInv'
<1>1. /\ req[r].pc = "answered" /\ req[r].held = 0 /\ ~ Waits(r)
      /\ req \in [Requests -> Request]
      /\ UNCHANGED <<process, waiting>>
  BY DEF ApiInv, TypeOK, RequestInv, ConnectionInv, Send
<1>2. /\ Idle \in Request /\ Idle.pc = "idle" /\ Idle.held = 0 /\ Idle.answer = "none"
      /\ [Idle EXCEPT !.held = 0] = Idle
  BY BoundsAssumption DEF Idle, Request, Routes, Callers, Answers
<1>3. req' = [req EXCEPT ![r] = Idle]
  BY <1>1, <1>2 DEF Send
<1>4. /\ req'[r] = Idle /\ req' \in [Requests -> Request]
      /\ \A x \in Requests \ {r} : req'[x] = req[x]
  BY <1>1, <1>2, <1>3
<1>5. /\ seen' \in [Requests -> SUBSET {"up", "down"}]
      /\ \A x \in Requests \ {r} : seen'[x] = seen[x]
  BY DEF ApiInv, TypeOK, Send
<1>6. /\ waiting' \in Seq(Requests) /\ IsInjective(waiting)'
      /\ \A x \in Requests : Waits(x)' => Waits(x)
  BY <1>1 DEF ApiInv, TypeOK, Waits
<1>7. RequestInv(r)'
  BY <1>1, <1>2, <1>4, <1>6
     DEF RequestInv, ConnectionInv, UserInv, AnswerInv, SeenInv
<1>8. phase \notin {"starting", "verifying"}
  BY <1>1, Settled
<1> QED
  BY <1>1, <1>4, <1>5, <1>6, <1>7, <1>8, RequestKept

-----------------------------------------------------------------------------
LEMMA ApiInvInductive == ApiInv /\ [Next]_vars => ApiInv'
<1> SUFFICES ASSUME ApiInv, [Next]_vars PROVE ApiInv'
  OBVIOUS
<1>1. CASE CreatePool
  BY <1>1, CreatePoolInv
<1>2. CASE InitDb \/ StartWithoutPool
  BY <1>2, StartInv
<1>3. CASE Stop \/ Shutdown
  BY <1>3, StopInv
<1>4. CASE DbChanges
  BY <1>4, DbInv
<1>5. ASSUME NEW r \in Requests, NEW t \in Traffic, Receive(r, t.route, t.caller)
      PROVE  ApiInv'
  BY <1>5, ReceiveInv
<1>6. ASSUME NEW r \in Requests, Acquire(r) PROVE ApiInv'
  BY <1>6, AcquireInv
<1>7. ASSUME NEW r \in Requests, Admit(r) PROVE ApiInv'
  BY <1>7, AdmitInv
<1>8. ASSUME NEW r \in Requests, NEW what \in Answers, Answer(r, what) PROVE ApiInv'
  BY <1>8, AnswerInvKept
<1>9. ASSUME NEW r \in Requests, NEW uses \in 1..MaxUses, CallEndpoint(r, uses)
      PROVE  ApiInv'
  BY <1>9, CallInv
<1>10. ASSUME NEW r \in Requests, UseConnection(r) PROVE ApiInv'
  BY <1>10, UseInv
<1>11. ASSUME NEW r \in Requests, FailConnection(r) PROVE ApiInv'
  BY <1>11, FailInv
<1>12. ASSUME NEW r \in Requests, Send(r) PROVE ApiInv'
  BY <1>12, SendInv
<1>13. CASE UNCHANGED vars
  <2>1. TypeOK'
    BY <1>13 DEF ApiInv, TypeOK, vars
  <2>2. ProcessInv'
    BY <1>13 DEF ApiInv, ProcessInv, vars
  <2>3. \A r \in Requests : RequestInv(r)'
    BY <1>13 DEF ApiInv, RequestInv, ConnectionInv, UserInv, AnswerInv, SeenInv,
                 Waits, vars
  <2> QED
    BY <2>1, <2>2, <2>3 DEF ApiInv
<1> QED
  BY <1>1, <1>2, <1>3, <1>4, <1>5, <1>6, <1>7, <1>8, <1>9, <1>10, <1>11, <1>12, <1>13
     DEF Next

\* The inductive invariant holds in every reachable state of the process.
THEOREM ApiInvariant == Spec => []ApiInv
BY InitInv, ApiInvInductive, PTL DEF Spec

\* Type correctness of the API process.
THEOREM ApiTypeCorrect == Spec => []TypeOK
<1>1. ApiInv => TypeOK
  BY DEF ApiInv
<1> QED
  BY <1>1, ApiInvariant, PTL

\* RoleMiddleware and the services give a connection back before they ask for
\* the next: a pool, of whatever size, is never waited for with one in hand.
THEOREM NobodyHoldsAndWaits == Spec => []NoHoldAndWait
<1>1. ASSUME ApiInv, NEW r \in ToSet(waiting) PROVE req[r].held = 0
  <2>1. r \in Requests /\ Waits(r)
    BY <1>1 DEF ToSet, Waits, Contains, ApiInv, TypeOK
  <2> QED
    BY <1>1, <2>1 DEF ApiInv, RequestInv, ConnectionInv
<1>2. ApiInv => NoHoldAndWait
  BY <1>1 DEF NoHoldAndWait
<1> QED
  BY <1>2, ApiInvariant, PTL

\* RoleMiddleware: protected endpoints serve active users by their row, and none
\* but /auth/me answers on the word of a token.
THEOREM ActiveUsersServed == Spec => []OnlyActiveServed
<1>1. ApiInv => OnlyActiveServed
  BY DEF ApiInv, RequestInv, AnswerInv, OnlyActiveServed
<1> QED
  BY <1>1, ApiInvariant, PTL

\* health_check: "healthy" and "degraded" both have their reason, however often
\* the database goes and comes while the check waits for a connection.
THEOREM HealthIsTrue == Spec => []HealthTruth
<1>1. ApiInv => HealthTruth
  BY DEF ApiInv, RequestInv, AnswerInv, HealthTruth
<1> QED
  BY <1>1, ApiInvariant, PTL
=============================================================================
