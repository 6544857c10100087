----------------------------- MODULE WorkerPool -----------------------------
(***************************************************************************)
(* The Celery side of the system: one Redis queue for triage tickets and   *)
(* reminder checks alike (app/celery_app.py routes neither), the processes *)
(* of one worker, Beat, and the countdown of self.retry                    *)
(* (app/tasks/triage.py).  What a task does to its ticket is module        *)
(* Triage; here its steps take a place in the queue and a process that is  *)
(* busy with nothing else until the attempt ends.                          *)
(***************************************************************************)
EXTENDS Triage, Sequences, SequencesExt

CONSTANTS
  Workers,     \* processes of "celery worker"
  Check,       \* the message of check_due_reminders_task
  MaxChecks    \* bound: checks that wait in the queue

VARIABLES
  queue,       \* Seq(Tickets \cup {Check}): messages no process has taken
  working,     \* [Workers -> Tickets \cup {Check, None}]
  delayed      \* tickets whose retry waits for its countdown

pool  == <<queue, working, delayed>>
wvars == <<vars, pool>>

Jobs == Tickets \cup {Check}

ASSUME JobsAssumption == Check \notin Tickets /\ None \notin Jobs
ASSUME MaxChecksAssumption == MaxChecks \in Nat \ {0}

ChecksWaiting == {i \in DOMAIN queue : queue[i] = Check}

WInit ==
  /\ Init
  /\ queue = <<>>
  /\ working = [w \in Workers |-> None]
  /\ delayed = {}

-----------------------------------------------------------------------------
\* Mutant: the row is sent, not its id
SendRow(t) ==
  /\ Dispatch(t)
  /\ queue' = Append(queue, tickets[t])
  /\ UNCHANGED <<working, delayed>>

\* create_ticket: triage_ticket_task.delay(ticket_id)
Send(t) ==
  /\ Dispatch(t)
  /\ queue' = Append(queue, t)
  /\ UNCHANGED <<working, delayed>>

\* Beat, every 30 seconds and whatever waits already
Tick ==
  /\ Cardinality(ChecksWaiting) < MaxChecks
  /\ queue' = Append(queue, Check)
  /\ UNCHANGED <<vars, working, delayed>>

\* Mutant: the newest message first
TakeNewest(w) ==
  /\ working[w] = None
  /\ queue # <<>>
  /\ LET job == Last(queue) IN
       /\ working' = [working EXCEPT ![w] = job]
       /\ IF job = Check THEN UNCHANGED vars ELSE StartAttempt(job)
  /\ queue' = Front(queue)
  /\ UNCHANGED delayed

\* An idle process takes the oldest message; taking it acknowledges it
Take(w) ==
  /\ working[w] = None
  /\ queue # <<>>
  /\ LET job == Head(queue) IN
       /\ working' = [working EXCEPT ![w] = job]
       /\ IF job = Check THEN UNCHANGED vars ELSE StartAttempt(job)
  /\ queue' = Tail(queue)
  /\ UNCHANGED delayed

\* Mutant: the process sleeps until the retry is due
KeepWaiting(w, t) ==
  /\ working' = IF task'[t].state = "ended"
                  THEN [working EXCEPT ![w] = None] ELSE working
  /\ delayed' = IF task'[t].state = "queued" THEN delayed \cup {t} ELSE delayed
  /\ UNCHANGED queue

\* What the attempt's outcome means for the process: it is free again, the
\* message of a retry waiting for its countdown, unless it goes on to the flag
Leave(w, t) ==
  /\ working' = IF task'[t].state = "marking"
                  THEN working ELSE [working EXCEPT ![w] = None]
  /\ delayed' = IF task'[t].state = "queued" THEN delayed \cup {t} ELSE delayed
  /\ UNCHANGED queue

\* triage_ticket_task: the attempt succeeds or raises
EndAttempt(w, t) ==
  /\ working[w] = t
  /\ \/ AttemptTimesOut(t)
     \/ \E reply \in Replies :
          FinishAttempt(t, reply) \/ FailAfterWrite(t, reply) \/ ReplyRefused(t, reply)
  /\ Leave(w, t)

\* ... and flags the ticket after the last one
EndMarking(w, t) ==
  /\ working[w] = t
  /\ MarkManual(t)
  /\ Leave(w, t)

\* check_due_reminders_task ends, with an exception or without
EndCheck(w) ==
  /\ working[w] = Check
  /\ working' = [working EXCEPT ![w] = None]
  /\ UNCHANGED <<vars, queue, delayed>>

\* The process is killed; celery replaces it, and nobody redelivers its message
ProcessDies(w, t) ==
  /\ working[w] = t
  /\ TaskDies(t)
  /\ working' = [working EXCEPT ![w] = None]
  /\ UNCHANGED <<queue, delayed>>

\* Mutant: a ripe retry is also sent again
RipenTwice(t) ==
  /\ t \in delayed
  /\ delayed' = delayed \ {t}
  /\ queue' = queue \o <<t, t>>
  /\ UNCHANGED <<vars, working>>

\* Mutant: a ripe retry is forgotten
RipenAway(t) ==
  /\ t \in delayed
  /\ delayed' = delayed \ {t}
  /\ UNCHANGED <<vars, working, queue>>

\* The countdown is over: the worker holds the message already, so it may come
\* before or after any that still wait
Ripen(t) ==
  /\ t \in delayed
  /\ delayed' = delayed \ {t}
  /\ \E place \in 1..(Len(queue) + 1) : queue' = InsertAt(queue, place, t)
  /\ UNCHANGED <<vars, working>>

Request(t) ==
  /\ \/ \E p \in Opening : CreateTicket(t, p)
     \/ DispatchFails(t)
     \/ \E patch \in Patches : PatchTicket(t, patch)
  /\ UNCHANGED pool

Work ==
  \/ \E w \in Workers :
       \/ Take(w)
       \/ EndCheck(w)
       \/ \E t \in Tickets : EndAttempt(w, t)
       \/ \E t \in Tickets : EndMarking(w, t)
       \/ \E t \in Tickets : ProcessDies(w, t)
  \/ \E t \in Tickets :
       \/ Send(t)
       \/ Ripen(t)
       \/ Request(t)

WSpec == WInit /\ [][Work \/ Tick]_wvars

WorkerStep(w) ==
  EndCheck(w) \/ \E t \in Tickets : EndAttempt(w, t) \/ EndMarking(w, t)

\* The queue is served as long as a process is free, every process ends what it
\* has taken (task_time_limit), countdowns pass and create_ticket goes on
WFairSpec ==
  /\ WSpec
  /\ WF_wvars(\E w \in Workers : Take(w))
  /\ \A w \in Workers : WF_wvars(WorkerStep(w))
  /\ \A t \in Tickets : WF_wvars(Send(t)) /\ WF_wvars(Ripen(t))

-----------------------------------------------------------------------------
\* The queue, the processes and the countdowns keep their types.
PoolTypeOK ==
  /\ queue \in Seq(Jobs)
  /\ working \in [Workers -> Jobs \cup {None}]
  /\ delayed \in SUBSET Tickets

InQueue(t) == {i \in DOMAIN queue : queue[i] = t}
On(t)      == {w \in Workers : working[w] = t}

\* A ticket's task is in one place: a queued one has one message, in the queue
\* or behind a countdown, and holds no process; a running one has one process
\* and no message.  So retries neither multiply nor get lost in between.
JobsAccounted ==
  \A t \in Tickets :
    CASE task[t].state = "queued" ->
           /\ On(t) = {}
           /\ IF t \in delayed THEN InQueue(t) = {}
                               ELSE Cardinality(InQueue(t)) = 1
      [] task[t].state \in {"llm", "marking"} ->
           Cardinality(On(t)) = 1 /\ InQueue(t) = {} /\ t \notin delayed
      [] OTHER -> On(t) = {} /\ InQueue(t) = {} /\ t \notin delayed

\* A check that Beat has sent is run, behind however many attempts and retries.
CheckRuns == ChecksWaiting # {} ~> \E w \in Workers : working[w] = Check

\* What Triage takes for granted of the workers is what they do: they serve
\* every ticket, though they share their processes with checks that never end
\* coming and with other tickets.
ServesTriage == FairSpec
=============================================================================
