# A verification of the Smart Ticket Support System

TLA+ modules of the ticket service in `src/`, TLC configurations that check them
on small instances, and proofs for every size. Line numbers refer to `src/`.

## 1. The system

Three kinds of process share one PostgreSQL database and nothing else:

* **API processes** (FastAPI, `app/api`, `app/services`): many requests at once,
  interleaving at every `await`. A handler takes a pooled connection for one or
  two statements and gives it back between them. `lifespan` opens the pool at
  the start and closes it at the end.
* **Celery workers** (`app/tasks`): the triage of one ticket, or one check of
  the due reminders. The prefork pool runs several tasks at once; both kinds
  wait in one queue.
* **Celery Beat** enqueues a reminder check every 30 seconds, whatever became
  of the last one (`app/celery_app.py:27-32`).

No service opens a transaction: asyncpg commits every statement by itself. The
statement is therefore the atomic step of every module here, and what lies
between two statements of one handler is where other processes act and where a
crash leaves things half done.

| Component | State | Operations | Interacts with |
| --- | --- | --- | --- |
| `TicketService` | `tickets`, `ticket_notes` | create, get, list, update, create_note, list_notes | dispatches triage; cancels reminders |
| `ReminderService` | `reminders`, `notifications` | create, list, process_due_reminders, list_notifications | reads tickets' status and assignee |
| reminder check task | rows of one SELECT, in memory | check_due_reminders_task | runs `process_due_reminders` |
| triage task | attempt and retry count (in the Celery message) | triage, retry, flag | asks the LLM; writes tickets |
| LLM adapters | none | triage | HTTP to Ollama |
| `AuthService` | `users`, `refresh_tokens` | register, login, rotate, revoke | every endpoint through the JWT |
| `RoleMiddleware`, deps | none (`request.state`) | admit a request | reads users on a pooled connection |
| listings | none | count, page, derive hasNext | reads tables that others write |
| lifespan, pool | `app.state.db_pool`, connections in use, callers of `acquire()` | start, stop, health | every request |
| Celery queue, workers, Beat | messages, busy processes, countdowns | send, take, retry, tick | both tasks |
| rate limit, request id, logging, config | library or none | | not modelled |

What is hard here, and what each part must get right:

* **Reminders.** A check works from rows it fetched, and marks by id alone; an
  update of the ticket or another check may run between any two of its
  statements. Right means: no reminder of a resolved ticket fires (as far as
  that is true), none stays pending, none is announced without bound, and the
  users told are users who had the ticket.
* **Update and cancel** are two statements; a crash or a reopening in between.
* **Access** is checked on an earlier read than the write it protects.
* **Sessions.** Rotation reads, revokes and issues in three statements.
* **Triage.** Retries, failures after the write, lost messages and dying
  workers; the ticket may be patched while the model thinks.
* **Workers.** One queue and one set of processes for checks that come every 30
  seconds and attempts that take minutes and come back after a countdown. Right
  means: every task is in one place, and neither kind starves the other.
* **The pool.** Every request takes a connection in the middleware and others in
  its endpoint, `acquire()` has no timeout, statements fail and the database may
  be away at the start. Right means: every request is answered, truthfully, and
  a process that is told to stop stops.
* **Listings** count and fetch in two statements while rows come and move.

`PROJECT.json` lists the hazards at their lines with the properties aimed at
each, and those that no property covers yet.

## 2. The modules

| Module | Models |
| --- | --- |
| `TicketDB` | the shared tables and every statement that writes them |
| `TicketService` | request handlers on tickets, notes and reminders |
| `ReminderService` | overlapping reminder checks |
| `TicketDesk` | both against one database; invariants, action and liveness properties |
| `ReminderLifecycle` | the abstract promise: scheduled once, settled once and for good, announced only then |
| `Sessions` | registration, login, rotation, logout |
| `SessionLifecycle` | the abstract promise: a login's session, renewed and ended for good, unless a token is used twice at once |
| `Triage` | dispatch, attempts, retries and the manual flag, with `update_ticket` beside them |
| `TriageOutcome` | the abstract promise: waiting, then triaged, or flagged after the last attempt |
| `WorkerPool` | `Triage` composed with the Celery queue, the worker's processes, countdowns and Beat's checks |
| `Listing` | paging through a listing under concurrent writes |
| `ApiServer` | lifespan, connection pool, `RoleMiddleware`, the outline of every endpoint, `health_check` |
| `MCTicketDesk`, `MCSessions`, `MCWorkerPool`, `MCListing`, `MCApiServer` | instances for TLC |
| `TicketDeskProofs`, `LifecycleProofs` | the desk's invariants; its refinement, and that settling is final |
| `SessionsProofs` | the invariants and the refinement of sessions |
| `TriageProofs`, `OutcomeProofs` | the invariants of triage; its refinement |
| `WorkerPoolProofs` | the place of every task; what the pool takes over from triage |
| `ListingProofs` | what a walk shows, meets and misses |
| `ApiServerProofs` | the safety of the API process |

**How state corresponds to code.** `tickets`, `notes`, `reminders` and
`notifications` are the tables, reduced to the columns that decide anything:
status and assignee, reminder status, creator, and `due`, which stands for
`scheduled_for <= NOW()`. `req[q]` is a handler between two statements: `pc`
is the statement it will send next. `run[s]` is the list of rows a check still
holds, with the ticket status and assignee *as they were at the SELECT*. A
request that a check refuses changes nothing and is no step.

In `WorkerPool`, `queue` is the Redis list, `working[w]` the message a process
has taken and `delayed` the tickets whose retry waits for its countdown. In
`ApiServer`, `pool` is the asyncpg pool, `stored` says that `app.state` refers
to it, `waiting` is the order in which `acquire()` was called, and `req[r]` is a
request: `auth` during the middleware's SELECT, `routed` after `call_next`,
`use` while the endpoint has statements left. What the statements do to the
tables is left to the other modules there; `left` counts the connections still
to be acquired, one after the other.

**How actions correspond to code.** One action per statement, together with all
the Python between it and the next one. `create_ticket` is one action, because
its only other statements read `users`, which no request changes in place.
`update_ticket` is `StartUpdate` (get_ticket, the assignee's lookup),
`UpdateTicket` (the UPDATE by id) and `CancelReminders`. `process_due_reminders`
is `StartCheck` (the SELECT), then for each row `CancelRow`, or `FireRow`
and `NotifyRow`; `BetweenRows` keeps a check from starting a row before it has
announced the last. `rotate_refresh_token` is `StartRotate`, `Revoke` and
`IssueToken`. An attempt at triage is `StartAttempt` and one of the ways it can
end; `WorkerPool` takes these actions as they are and adds what they do to the
queue and to the process: `Take` runs `StartAttempt`, `Leave` follows an
attempt's end, `Ripen` ends a countdown. A request to the API is `Receive`
(the middleware), `Acquire`, `Admit` (its SELECT), then `Answer` where no
connection is needed, or `CallEndpoint` and `UseConnection` as often as the
endpoint acquires one, and `Send`. `AbortRequest`, `AbortCheck`, `TaskDies`,
`DispatchFails` and `DbChanges` are the exceptions, crashes and failures;
`MaxFaults` bounds them, nothing else does.

**History variables.** `everAssigned`, `everDone`, `sawActive` and `quiet`
(`TicketDB`), `contended` (`Sessions`), `calls` and `raced` (`Triage`),
`initial`, `written`, `torn` and `held` (`Listing`) and `seen` (`ApiServer`)
record what happened so that invariants can speak of it. No guard reads them.

**Mutants.** Definitions commented "Mutant:" stand next to the definition they
vary: each is a plausible slip in that code, and each makes one property fail.
They show that the property can fail; no specification uses them.

## 3. The runs

| Run | Result | What it shows |
| --- | --- | --- |
| `desk_overlap` | holds | safety with two handlers, two overlapping checks and one fault |
| `desk_live` | holds | every due reminder is settled; the inductive invariant with two reminders |
| `sessions` | holds | accounts and token chains under two interleaved handlers |
| `triage` | holds | two tickets, their updates and Beat's checks on one worker process, with one fault: attempts, flags, the place of every task, progress, and the abstract outcome |
| `listing` | holds | an agent pages through rows that others insert, reassign and move, and that tie in the order |
| `api_live` | holds | two requests of any kind on a pool of one connection, with a failing database, a start and a stop |
| `cancelled_fires` | violated | a reminder that was cancelled when its ticket was closed fires |
| `notified_twice` | violated | overlapping checks announce one reminder twice |
| `never_announced` | violated | a fired reminder that nobody is ever told of |
| `stale_access` | violated | an agent's update lands on a ticket reassigned meanwhile |
| `rotated_twice` | violated | one refresh token yields two pairs |
| `triage_lost` | violated | a ticket with neither summary nor flag |

The six violated properties restate sentences of `src/README.md` (lines 13, 15,
34, 37, 67, 68); PROJECT.json quotes each next to the code that departs from it.
The passing runs say what is true instead. Checks may announce twice, but never
more often than checks overlap (`NotifyBound`). A cancelled reminder may fire,
but not one that came due on a ticket already done (`QuietNeverFires`).
Cancellation may be missed, but only through a fault
(`ResolvedLeavesNonePending`), and the next check then settles the reminder
(`DueReminderSettles`). Rotation may double a session, but only if two requests
use one token at once (`NoReuse`, `OneSessionPerLogin`). Triage may be lost, but
only to a lost message or a dead worker (`OutcomeFair`), not to a queue full of
checks: `ServesTriage` shows that the workers provide the fairness `Triage`
assumes, and `CheckRuns` that attempts do not keep checks out. A walk through
a listing may miss a row, but only if a row came in between a request's two
statements, an old one was changed, or two rows tied (`WalkComplete`).

Three properties say that a detailed module implements an abstract one:
`LifecycleSafety` and `LifecycleFair` (`TicketDesk` and `ReminderLifecycle`),
`SessionSafety` (`Sessions` and `SessionLifecycle`), `OutcomeSafety` and
`OutcomeFair` (`Triage` and `TriageOutcome`). The last is checked where the
queue and the processes are, so that its fairness is the workers' and no
assumption about single tickets.

**Bounds.** *desk_overlap*: two handlers and two checks give every pairwise
overlap of update, reminder, note and check; one ticket, since a statement
touches one ticket and its reminders; one administrator and one agent, and an
address that is the agent's up to case. *desk_live*: two reminders, so that one
UPDATE cancels several and a check has a row left to lose. `StartReminder` and
`TokenLeft` start a request only while an id is left for it: ids are unbounded
in the code. *sessions*: four tokens reach a login, a rotation, a second
rotation and a race. *triage*: two tickets and a check (`MaxChecks = 1`) compete
for one process, which is when someone waits; the replies are one of each kind
the adapter tells apart, one of them accepted, which leaves it to the theorem
`ChoicesAreKept` to say that a second attempt with another answer keeps what the
first one wrote; tickets open with the default
priority, which triage replaces, and with another, which it keeps. *listing*:
three rows on pages of two give a full page, a short last page and a row that
comes in late; three keys, so that rows may tie or not. *api_live*: two
requests and one connection make the second wait; two uses per endpoint are
`get_ticket` followed by a write, the most that matters for who waits for whom;
`MaxPool` and `MaxUses` are arbitrary in the proofs. `MaxFaults = 1`: every property about faults is about having had
one at all. Symmetry is used in safety runs only, over ids that nothing orders.

**Fairness.** `TicketDesk!FairSpec`: a handler that has started runs on unless
it faults; a scheduled time comes; Beat keeps starting checks and a worker takes
the rows of a check it has begun (no task waits for a lock, statements have a
`command_timeout`, and tasks a time limit). `Triage!FairSpec`: `create_ticket`
goes on to the dispatch, workers take queued tasks, and the time limits of
`celery_app.py:25-26` end every attempt. `WorkerPool!WFairSpec` puts that down to
the processes: some idle process takes the oldest message, a busy one ends what
it does, a countdown passes. `ApiServer!FairSpec`: the event loop runs every
request that can go on, which an `acquire()` at the head of the queue can as
soon as a connection is back (asyncpg wakes its callers in order) and a
statement within `command_timeout`; a start and a shutdown end. Nothing makes a
database come back. Nothing is assumed of users, of faults, or of a worker's
luck with the model.

`CHECK_DEADLOCK FALSE` appears in violation runs of the desk, where the ids are
few and the system may run out of work before it misbehaves, and in *api_live*,
where a stopped process does nothing more.

## 4. What is proved

Every safety property of the passing runs is a theorem. What follows names, module
by module, the inductive invariant and why it is needed; each was checked with
TLC on the constants of its module's run before it was proved. The assumptions are
those named beside the constants and no others.

**The desk.** `TicketDeskProofs` and `LifecycleProofs` hold for any sets of users,
tickets, reminders and requests, any patches, any number of faults, and any finite
set of checks that may overlap. Assumed: e-mail addresses are unique, `None` is no
id, `Slots` is finite.

* `DeskInvariant`: `Spec => []IInv`. The invariants alone are not inductive:
  - what `NotifyRow` writes depends on a row read long ago, so `ChecksInv` says
    that a held row *was* true: its assignee has held the ticket, a done status
    means the ticket has been done, and for a quiet reminder the row says done;
  - `HandlersInv` says the same of a handler past its access check;
  - `RemindersInv` and `TicketsInv` tie rows to each other and to history;
  - `QuietInv` adds that a quiet reminder is due and its ticket still done.
  `NotifyBound` is inductive by counting: each announcement consumes the row of
  one check, a check fetches only pending reminders, and a pending reminder has
  no announcement yet.
* From it: `DeskTypeCorrect`, `DeliveriesBounded`, `QuietRemindersStayQuiet`,
  `ResolvingCancels`, `CancelsAreDue`, `RecipientsWereHolders`, `AgentsWereHolders`,
  `FiredRemindersAnnounced`.
* `DeskImplementsLifecycle`: `Spec => LifecycleSafety`. A cancel maps to one
  `Settle` of all the reminders it hits; marking a settled reminder again is a
  stutter; the bound on deliveries is `NotifyBound`.
* `SettledStaysSettled`: `Spec => SettledForGood`, action by action: the only
  statement that writes `pending` inserts under an id that was not in use, and
  notifications are only appended.

Each step of `Next` has one lemma that it preserves `IInv`, with a proof step
per conjunct; facts about the statements are lemmas of their own. TLC checks
`IInv` as an invariant of `desk_live`.

**Triage.** `TriageProofs` holds for any tickets, any replies and patches the
schemas admit, and any number of faults. Its inductive invariant `TriageInv` adds two facts
per ticket: `Counted` ties the calls made to the task's state and its count of
retries, and `Outcome` says that the flag is the last thing a task does. From it:
`TriageTypeCorrect`, `AttemptsAreBounded`, `FlagMeansExhausted`, `NoSilentEnd`
and `FlagIsFinal`: an attempt that writes its result clears the flag
(`app/tasks/triage.py:67`), so the flag lasts only because none is left. The
last two are proved and not among the runs' properties, because `OutcomeSafety`
says both and more.

`ChoicesAreKept` (`Spec => ChoicesSurviveTriage`) needs `Snapshot` besides: as long
as no update has come in between, the category and the priority that an attempt
read before it asked the model are those of the ticket still. Without the history
variable `raced` that is false, which is the hazard at `app/tasks/triage.py:59`.

`OutcomeProofs` proves `TriageImplementsOutcome`: `Spec => OutcomeSafety`, with
`TriageInv` telling that an attempt starts only while one is left, that the flag
is set only after the last, and that no result is written over a flag.

**The worker pool.** `WorkerPoolProofs` holds for any processes, any tickets and
any bound on waiting checks. `PoolRunsTriage` (`WSpec => Spec`) says that the
composition takes only steps of `Triage`, so that `PoolKeepsTriage` takes over
everything proved above. `PoolInvariant` says of each ticket where its one
message or process is. `JobInv` speaks of the set of the ticket's positions in
the queue, because each operation of the queue moves positions: a new message is
appended, `Take` removes the head, and a retry whose countdown is over comes in
at any place (`InsertFacts`). `AllJobsAccounted` (`WSpec => []JobsAccounted`) turns
the sets into cardinalities.

**Sessions.** `SessionsProofs` holds for any addresses, users, tokens, handlers
and faults. `SessionInv` has one part per kind of fact:

- `HandlerInv`: a rotation between two of its statements holds an issued token of
  its user, which is revoked once the UPDATE is done;
- `ChainInv`: a token's parent and the first token of its chain are issued and the
  same user's, and a parent is revoked;
- `UseInv`: a token no two requests used at once has at most one handler rotating
  it, none once it is revoked, and then one successor or one handler about to
  issue it. That is what makes `NoReuse` inductive: the successor of tomorrow is
  today a handler between two statements;
- `LoginInv`: likewise for all the tokens of a login.

From it: `SessionTypes`, `AccountsUnique`, `ParentIsRevoked`, `ChainKeepsUser`,
`TokenUsedOnce`, `LoginHasOneSession`. `SessionsImplementLifecycle`
(`Spec => SessionSafety`) maps the revoking and the issuing half of a rotation to
steps of the session and the crash between them to its end.

**Listings.** `ListingProofs` holds for any finite set of rows (`ItemsAssumption`:
a table is finite), any keys and owners, and any page size.

- `HeldInv`: rows that are the caller's have been noted, and so has what he saw;
- `WalkInv`: while nothing tears the walk, a row of the beginning that is on no
  page yet still matches, and more rows come no later than it than the pages have
  covered. Insertions only raise that number, and where no rows tie it is the
  row's position (`Rank`), so the page that reaches it returns it;
- `ExactInv`: while nobody writes, page `p` is the `p`-th cut of some order of the
  matching rows, not always the same one, and the pages end where the rows do.

From it: `ListingTypes`, `AgentsSeeTheirOwn`, `WalksAreComplete` and
`WalksAreExact`, which shows that the orders, however they leave ties, have equal
keys at equal positions (`SameKeys`), and that a row whose ties lie on one page has
its position on that page in every order (`Bounds`). The arithmetic of LIMIT,
OFFSET and `totalPages` is in `PageCut`, `PageLimit`, `PageContent` and
`PagesEnough`.

**The API process.** `ApiServerProofs` holds for any finite or infinite set of
requests, any traffic, any `MaxPool`, `MaxUses` and number of failures. `ApiInv` says of each request
where it may wait and hold (`ConnectionInv`), what the middleware has found out
about its user (`UserInv`), why it got the answer it got (`AnswerInv`), and that
`seen` knows the present state of the database (`SeenInv`); and of the process
(`ProcessInv`) that no request comes before it is settled whether there is a
pool, and that under a pool a database is down only by a failure since. One
lemma, `RequestKept`, reduces a request's step to its own part of the invariant:
joining and leaving the queue concern nobody else. From it: `ApiTypeCorrect`,
`NobodyHoldsAndWaits`, `ActiveUsersServed`, `HealthIsTrue`.

**Only model-checked:** liveness (`DueReminderSettles`, `LifecycleFair`,
`OutcomeFair`, `CheckRuns`, `ServesTriage`, `EventuallyAnswered`,
`StopCompletes`). Liveness under fairness, and with it `ENABLED`, is beyond the
prover; the safety half of each refinement is proved.

## 5. What is not modelled

* `MockLLMAdapter`'s keyword lists: nothing says what they ought to answer, so a
  model would only repeat them. `Triage` takes any reply an adapter can produce.
* Rate limiting: the counters are slowapi's, in memory and per process; the code
  chooses key and limits and words the 429.
* Passwords, hashing, JWTs: libraries whose failure refuses a request. Logging,
  request ids, envelopes, settings: no state.
* Notes attached to a page of tickets, `list_notes` and `list_reminders`, which
  do not page; the search term is one sort key.
* Deleting or deactivating users: no endpoint does. (`ApiServer` has deactivated
  callers, since the middleware asks.)
* Redelivery by the broker: with the default acknowledgement a message taken by
  a worker is not delivered again.
* How long anything takes. `WorkerPool` knows the order of the queue, not the 30
  seconds, so it says that checks run and not when.

Reading the code turned up the following, which no run settles: it is a matter
of one line each, or of a library's behaviour, rather than of state.

* `app/main.py:95` registers the handler for FastAPI's `HTTPException`. An
  unknown path or method raises Starlette's base class, which FastAPI's own
  handler answers as `{"detail": ...}`, outside the envelope README.md:86 gives
  every response.
* A logout between a rotation's UPDATE and its INSERT revokes what is revoked
  already and leaves the new token live (`app/services/auth_service.py:155-168`).
  `OneSessionPerLogin` counts it as two uses of one token at once.
* `app/main.py:43-50` takes any exception of the start-up for a missing database
  and goes on without a pool, also where the database answers: `StartWithoutPool`
  asks for no reason. If `init_db` raises after `create_db_pool`, the open pool
  is dropped, and the shutdown at line 55 finds nothing to close: `pool` stays
  open. Where it has a pool, `Shutdown` waits for requests and for every
  connection, as uvicorn and `pool.close()` do.
* README.md:15 has due reminders evaluated "every 30 seconds"; they share the
  workers with attempts that may wait for the model up to `LLM_TIMEOUT_SECONDS`.
* `app/api/v1/auth.py:59` limits logins to a literal "10/minute"; the settings
  `RATE_LIMIT_LOGIN_*` (`app/config.py:54-56`) are read by nobody.
* `app/services/ticket_service.py:275-282` compares an agent's own address
  without case and looks the user up with case. Another user may have registered
  the other spelling; the 403 is then passed for someone else's address.
* Two registrations that race for one address end in a 500 for one of them, from
  the `UNIQUE` column, where the check alone would have answered 409
  (`app/services/auth_service.py:87-104`).
* README.md:106 lists `/auth/logout` as authenticated; `PUBLIC_PATHS`
  (`app/api/middlewares/role.py:14-24`) has it among the public paths.
* `RoleMiddleware` is added after `CORSMiddleware` (`app/main.py:88-89`), so its
  refusals leave without CORS headers.

## 6. Plan

1. *(done)* Desk, lifecycle, sessions, triage, listing; the desk's invariants
   and its refinement proved, and those of triage.
2. *(done)* The API process and its pool, at its limit and without a database;
   triage among several tickets, checks and a bounded number of workers; the
   abstract specifications of triage and of sessions; ties in listings. Proved:
   triage implements its outcome, and the safety of the API process.
3. *(done)* Proved: `Sessions` with its refinement; `WorkerPool`, which runs
   `Triage` and loses no task; `ChoicesSurviveTriage`; all of `Listing`.
4. Left: lemmas of the safety kind that carry the liveness properties (what is
   enabled while something waits), as far as they can be said without `ENABLED`.
