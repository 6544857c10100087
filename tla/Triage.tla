------------------------------- MODULE Triage -------------------------------
(***************************************************************************)
(* LLM triage of a new ticket: TicketService.create_ticket dispatches      *)
(* triage_ticket_task (app/tasks/triage.py), a Celery worker asks the      *)
(* adapter (app/services/llm_service.py) and writes what it answers,       *)
(* retrying a failed attempt up to three times before it flags the ticket  *)
(* for manual triage.  Meanwhile update_ticket may set the same columns.   *)
(*                                                                         *)
(* task[t].state is where ticket t's task is: its message "unsent", then   *)
(* "queued" (waiting in Redis, or for a retry's countdown), the worker in  *)
(* "llm" between its SELECT and its UPDATE or in "marking" before it flags *)
(* the ticket, and "ended" or "lost".  Celery acknowledges a message when  *)
(* a worker takes it, so a task that dies is not delivered again.          *)
(***************************************************************************)
EXTENDS Naturals, FiniteSets

CONSTANTS
  Tickets,
  Replies,     \* bound: the answers Ollama may give
  Patches,     \* bound: the [category, priority] a PATCH may carry
  Opening,     \* bound: the priorities a POST may carry
  None,        \* SQL NULL, Python None
  MaxFaults    \* bound: lost dispatches and dying workers

VARIABLES
  tickets,     \* [Tickets -> row]; exists FALSE before the INSERT
  task,        \* [Tickets -> task state]
  faults,
  calls,       \* history: attempts started
  raced        \* history: tickets patched between a SELECT and its UPDATE

vars == <<tickets, task, faults, calls, raced>>

-----------------------------------------------------------------------------
Categories == {"billing", "technical", "account", "other"}
Priorities == {"low", "medium", "high"}
MaxRetries == 3

\* A reply of the model: what the HTTP answer is, and its fields if it is JSON
Reply == [kind : {"http_error", "not_json", "json"},
          category : Categories \cup {"unknown"},
          priority : Priorities \cup {"unknown"}]

ASSUME NoneAssumption == None \notin Categories \cup Priorities
ASSUME RepliesAssumption == Replies \subseteq Reply
ASSUME PatchesAssumption ==
  Patches \subseteq [category : Categories \cup {None},
                     priority : Priorities \cup {None}]
ASSUME OpeningAssumption == Opening \subseteq Priorities
ASSUME FaultsAssumption == MaxFaults \in Nat

\* Mutant: the model's priority is stored as it is
RawPriority(reply) == reply.priority

\* OllamaAdapter.triage: an HTTP error, bad JSON or a category it does not
\* know raises; a priority it does not know becomes medium
Accepted(reply)     == reply.kind = "json" /\ reply.category # "unknown"
ReplyPriority(reply) == IF reply.priority = "unknown" THEN "medium"
                                                      ELSE reply.priority

TicketRow == [exists : BOOLEAN, category : Categories \cup {None},
              priority : Priorities, summarized : BOOLEAN, manual : BOOLEAN]
NoTicket  == [exists |-> FALSE, category |-> None, priority |-> "medium",
              summarized |-> FALSE, manual |-> FALSE]

TaskRow == [state : {"none", "unsent", "queued", "llm", "marking", "ended", "lost"},
            retries : 0..MaxRetries, category : Categories \cup {None},
            priority : Priorities]
NoTask  == [state |-> "none", retries |-> 0, category |-> None,
            priority |-> "medium"]

Init ==
  /\ tickets = [t \in Tickets |-> NoTicket]
  /\ task = [t \in Tickets |-> NoTask]
  /\ faults = 0
  /\ calls = [t \in Tickets |-> 0]
  /\ raced = {}

Move(t, state) == task' = [task EXCEPT ![t].state = state]
Fault          == faults < MaxFaults /\ faults' = faults + 1

-----------------------------------------------------------------------------
\* create_ticket commits the row, its category NULL and its flag FALSE
CreateTicket(t, priority) ==
  /\ ~ tickets[t].exists
  /\ tickets' = [tickets EXCEPT ![t].exists = TRUE, ![t].priority = priority]
  /\ Move(t, "unsent")
  /\ UNCHANGED <<faults, calls, raced>>

\* ... and then sends the task
Dispatch(t) ==
  /\ task[t].state = "unsent"
  /\ Move(t, "queued")
  /\ UNCHANGED <<tickets, faults, calls, raced>>

\* ... or cannot (a warning in the log is all that is left), or dies first
DispatchFails(t) ==
  /\ task[t].state = "unsent"
  /\ Move(t, "lost")
  /\ Fault
  /\ UNCHANGED <<tickets, calls, raced>>

\* _execute_triage: the SELECT, after which the adapter is asked
StartAttempt(t) ==
  /\ task[t].state = "queued"
  /\ task' = [task EXCEPT ![t].state = "llm",
                          ![t].category = tickets[t].category,
                          ![t].priority = tickets[t].priority]
  /\ calls' = [calls EXCEPT ![t] = @ + 1]
  /\ UNCHANGED <<tickets, faults, raced>>

\* Mutant: the model's category always wins
OverwriteCategory(t, reply) ==
  /\ task[t].state = "llm"
  /\ Accepted(reply)
  /\ tickets' = [tickets EXCEPT
       ![t].category = reply.category,
       ![t].priority = IF task[t].priority = "medium" THEN ReplyPriority(reply)
                                                      ELSE task[t].priority,
       ![t].summarized = TRUE,
       ![t].manual = FALSE]
  /\ raced' = raced \ {t}

\* The UPDATE.  A category the SELECT found stays, and so does a priority
\* other than medium; both are written back as they were then.
WriteResult(t, reply) ==
  /\ task[t].state = "llm"
  /\ Accepted(reply)
  /\ tickets' = [tickets EXCEPT
       ![t].category = IF task[t].category = None THEN reply.category
                                                  ELSE task[t].category,
       ![t].priority = IF task[t].priority = "medium" THEN ReplyPriority(reply)
                                                      ELSE task[t].priority,
       ![t].summarized = TRUE,
       ![t].manual = FALSE]
  /\ raced' = raced \ {t}

\* Mutant: one retry too many
RetryOnceMore(t) ==
  task' = IF task[t].retries > MaxRetries
            THEN [task EXCEPT ![t].state = "marking"]
            ELSE [task EXCEPT ![t].state = "queued", ![t].retries = @ + 1]

\* The attempt ends in an exception: retry later, or give up
RetryOrGiveUp(t) ==
  task' = IF task[t].retries >= MaxRetries
            THEN [task EXCEPT ![t].state = "marking"]
            ELSE [task EXCEPT ![t].state = "queued", ![t].retries = @ + 1]

\* The attempt succeeds
FinishAttempt(t, reply) ==
  /\ WriteResult(t, reply)
  /\ Move(t, "ended")
  /\ UNCHANGED <<faults, calls>>

\* The UPDATE commits, but closing the connection or the soft time limit
\* raises after it
FailAfterWrite(t, reply) ==
  /\ WriteResult(t, reply)
  /\ RetryOrGiveUp(t)
  /\ UNCHANGED <<faults, calls>>

\* Mutant: a timeout is not retried
GiveUpOnTimeout(t) ==
  /\ task[t].state = "llm"
  /\ Move(t, "marking")
  /\ raced' = raced \ {t}
  /\ UNCHANGED <<tickets, faults, calls>>

\* The model or the database cannot be reached in time
AttemptTimesOut(t) ==
  /\ task[t].state = "llm"
  /\ RetryOrGiveUp(t)
  /\ raced' = raced \ {t}
  /\ UNCHANGED <<tickets, faults, calls>>

\* The model's reply is refused
ReplyRefused(t, reply) ==
  /\ task[t].state = "llm"
  /\ ~ Accepted(reply)
  /\ RetryOrGiveUp(t)
  /\ raced' = raced \ {t}
  /\ UNCHANGED <<tickets, faults, calls>>

\* _mark_manual_triage_required
MarkManual(t) ==
  /\ task[t].state = "marking"
  /\ tickets' = [tickets EXCEPT ![t].manual = TRUE]
  /\ Move(t, "ended")
  /\ UNCHANGED <<faults, calls, raced>>

\* Its UPDATE raises, self.retry cannot publish, the hard time limit or a
\* crash kills the worker: nobody takes the task up again
TaskDies(t) ==
  /\ task[t].state \in {"llm", "marking"}
  /\ Move(t, "lost")
  /\ Fault
  /\ raced' = raced \ {t}
  /\ UNCHANGED <<tickets, calls>>

\* Mutant: an update clears the flag
PatchClearsFlag(t, patch) ==
  /\ tickets[t].exists
  /\ patch.category # None \/ patch.priority # None
  /\ tickets' = [tickets EXCEPT
       ![t].category = IF patch.category = None THEN @ ELSE patch.category,
       ![t].priority = IF patch.priority = None THEN @ ELSE patch.priority,
       ![t].manual = FALSE]
  /\ raced' = IF task[t].state = "llm" THEN raced \cup {t} ELSE raced
  /\ UNCHANGED <<task, faults, calls>>

\* update_ticket sets the columns its body carries, and never the flag
PatchTicket(t, patch) ==
  /\ tickets[t].exists
  /\ patch.category # None \/ patch.priority # None
  /\ tickets' = [tickets EXCEPT
       ![t].category = IF patch.category = None THEN @ ELSE patch.category,
       ![t].priority = IF patch.priority = None THEN @ ELSE patch.priority]
  /\ raced' = IF task[t].state = "llm" THEN raced \cup {t} ELSE raced
  /\ UNCHANGED <<task, faults, calls>>

TaskStep(t) ==
  \/ Dispatch(t)
  \/ StartAttempt(t)
  \/ \E reply \in Replies :
       FinishAttempt(t, reply) \/ FailAfterWrite(t, reply) \/ ReplyRefused(t, reply)
  \/ AttemptTimesOut(t)
  \/ MarkManual(t)

Next ==
  \E t \in Tickets :
    \/ \E p \in Opening : CreateTicket(t, p)
    \/ Dispatch(t)
    \/ DispatchFails(t)
    \/ StartAttempt(t)
    \/ \E reply \in Replies : FinishAttempt(t, reply)
    \/ \E reply \in Replies : FailAfterWrite(t, reply)
    \/ \E reply \in Replies : ReplyRefused(t, reply)
    \/ AttemptTimesOut(t)
    \/ MarkManual(t)
    \/ TaskDies(t)
    \/ \E patch \in Patches : PatchTicket(t, patch)

Spec == Init /\ [][Next]_vars

\* create_ticket goes on to dispatch, a worker takes every queued task and the
\* attempt ends: the time limits of celery_app.py see to that
FairSpec == Spec /\ \A t \in Tickets : WF_vars(TaskStep(t))

-----------------------------------------------------------------------------
\* Every variable keeps its type.
TypeOK ==
  /\ tickets \in [Tickets -> TicketRow]
  /\ task \in [Tickets -> TaskRow]
  /\ faults \in 0..MaxFaults
  /\ calls \in [Tickets -> Nat]
  /\ raced \in SUBSET Tickets

\* triage_ticket_task: a ticket gets at most four attempts
\* ("attempt %d/4"), each attempt beyond the first accounted for by a retry.
AttemptsBounded ==
  \A t \in Tickets :
    /\ calls[t] <= MaxRetries + 1
    /\ task[t].state \in {"llm", "marking"} => calls[t] = task[t].retries + 1

\* A ticket is flagged only after its last retry failed: never by an attempt
\* with retries left, and never while its task may still triage it.
FlaggedOnlyWhenExhausted ==
  \A t \in Tickets :
    tickets[t].manual => /\ task[t].state = "ended"
                         /\ calls[t] = MaxRetries + 1

\* A task that ended left a summary or the flag: it does not end in silence.
EndedMeansHandled ==
  \A t \in Tickets :
    task[t].state = "ended" => tickets[t].summarized \/ tickets[t].manual

\* _execute_triage keeps a category that is set and a priority other than
\* medium, whoever set them, also an earlier attempt whose UPDATE committed
\* before it failed; unless update_ticket ran while the model was thinking.
ChoicesSurviveTriage ==
  [][\A t \in Tickets \ raced :
       task[t].state = "llm" =>
         LET old == tickets[t]  new == tickets'[t] IN
           t \notin raced' =>
             /\ old.category # None => new.category = old.category
             /\ old.priority # "medium" => new.priority = old.priority]_vars

\* Nothing clears the flag: no update_ticket, and no attempt still under way.
FlagStays == [][\A t \in Tickets : tickets[t].manual => tickets'[t].manual]_vars

\* The state of triage as TriageOutcome has it
OutcomeOf ==
  [t \in Tickets |-> IF ~ tickets[t].exists THEN "absent"
                     ELSE IF tickets[t].manual THEN "flagged"
                     ELSE IF tickets[t].summarized THEN "triaged"
                     ELSE "waiting"]
InState(states) == {t \in Tickets : task[t].state \in states}

Promise == INSTANCE TriageOutcome WITH
  MaxAttempts <- MaxRetries + 1, outcome <- OutcomeOf, attempts <- calls,
  alive <- InState({"unsent", "queued", "llm", "marking"}), lost <- InState({"lost"})

\* Every step of triage is one TriageOutcome allows: an attempt after the last,
\* a flag before it, a result for a flagged ticket or a step of a task that has
\* ended would not be.
OutcomeSafety == Promise!Spec

\* ... and a task that is not lost comes to a result or a flag.
OutcomeFair == Promise!FairSpec

\* README 1: "automatic fallback to manual triage upon failure".
Handled ==
  \A t \in Tickets :
    tickets[t].exists ~> tickets[t].summarized \/ tickets[t].manual
=============================================================================
