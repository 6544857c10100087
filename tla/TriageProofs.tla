---------------------------- MODULE TriageProofs ----------------------------
(***************************************************************************)
(* Triage for any number of tickets, replies, patches and faults: attempts *)
(* are bounded, the flag is set only by an exhausted task and stays, and   *)
(* no task ends in silence.                                                *)
(***************************************************************************)
EXTENDS Triage, TLAPS

\* How far a task has got decides how many attempts it has made.
Counted(t) ==
  /\ task[t].state \in {"none", "unsent"} => calls[t] = 0 /\ task[t].retries = 0
  /\ task[t].state = "queued" => calls[t] = task[t].retries
  /\ task[t].state \in {"llm", "marking"} => calls[t] = task[t].retries + 1
  /\ task[t].state = "marking" => task[t].retries = MaxRetries
  /\ calls[t] <= MaxRetries + 1

\* The flag is the last thing a task does, a summary or the flag its outcome.
Outcome(t) ==
  /\ task[t].state # "none" => tickets[t].exists
  /\ tickets[t].manual => task[t].state = "ended" /\ calls[t] = MaxRetries + 1
  /\ task[t].state = "ended" => tickets[t].summarized \/ tickets[t].manual

\* The inductive invariant.
TriageInv == TypeOK /\ \A t \in Tickets : Counted(t) /\ Outcome(t)

-----------------------------------------------------------------------------
\* No ticket, no task, no attempt at first.
LEMMA InitTriage == Init => TriageInv
<1> SUFFICES ASSUME Init PROVE TriageInv
  OBVIOUS
<1>1. TypeOK
  BY FaultsAssumption DEF Init, TypeOK, NoTicket, TicketRow, NoTask, TaskRow,
     MaxRetries, Priorities
<1>2. \A t \in Tickets : Counted(t) /\ Outcome(t)
  BY DEF Init, Counted, Outcome, NoTicket, NoTask, MaxRetries
<1> QED
  BY <1>1, <1>2 DEF TriageInv

\* A step that leaves a ticket's row, task and attempts alone keeps it right.
LEMMA OthersKept ==
  ASSUME NEW t, Counted(t), Outcome(t), tickets'[t] = tickets[t],
         task'[t] = task[t], calls'[t] = calls[t]
  PROVE  Counted(t)' /\ Outcome(t)'
BY DEF Counted, Outcome

\* Rows and tasks keep their types when fields are set to values of theirs.
LEMMA RowTypes ==
  ASSUME TypeOK, NEW t \in Tickets
  PROVE  /\ tickets[t] \in TicketRow
         /\ task[t] \in TaskRow
         /\ calls[t] \in Nat
         /\ task[t].retries \in 0..MaxRetries
         /\ task[t].priority \in Priorities
         /\ task[t].category \in Categories \cup {None}
BY DEF TypeOK, TaskRow

\* What a retry or the decision to give up makes of the task.
LEMMA RetryTask ==
  ASSUME TypeOK, NEW t \in Tickets, RetryOrGiveUp(t)
  PROVE  /\ task' \in [Tickets -> TaskRow]
         /\ \A u \in Tickets \ {t} : task'[u] = task[u]
         /\ task[t].retries < MaxRetries =>
              /\ task'[t].state = "queued"
              /\ task'[t].retries = task[t].retries + 1
         /\ task[t].retries >= MaxRetries =>
              /\ task'[t].state = "marking"
              /\ task'[t].retries = task[t].retries
              /\ task[t].retries = MaxRetries
<1>1. task \in [Tickets -> TaskRow]
  BY DEF TypeOK
<1>2. task[t].retries \in 0..MaxRetries
  BY RowTypes
<1>3. CASE task[t].retries >= MaxRetries
  <2>1. task' = [task EXCEPT ![t].state = "marking"]
    BY <1>3 DEF RetryOrGiveUp
  <2> QED
    BY <1>1, <1>2, <1>3, <2>1 DEF TaskRow, MaxRetries
<1>4. CASE ~ (task[t].retries >= MaxRetries)
  <2>1. task' = [task EXCEPT ![t].state = "queued", ![t].retries = @ + 1]
    BY <1>4 DEF RetryOrGiveUp
  <2> QED
    BY <1>1, <1>2, <1>4, <2>1 DEF TaskRow, MaxRetries
<1> QED
  BY <1>3, <1>4

\* What the move of a task to another state makes of it.
LEMMA MovedTask ==
  ASSUME TypeOK, NEW t \in Tickets, Move(t, "unsent") \/ Move(t, "queued")
           \/ Move(t, "ended") \/ Move(t, "lost")
  PROVE  /\ task' \in [Tickets -> TaskRow]
         /\ \A u \in Tickets \ {t} : task'[u] = task[u]
         /\ task'[t].retries = task[t].retries
         /\ task'[t].state \in {"unsent", "queued", "ended", "lost"}
<1>1. task \in [Tickets -> TaskRow]
  BY DEF TypeOK
<1>2. PICK state \in {"unsent", "queued", "ended", "lost"} :
        task' = [task EXCEPT ![t].state = state]
  BY DEF Move
<1> QED
  BY <1>1, <1>2 DEF TaskRow

\* What the UPDATE of an attempt makes of the ticket, in two halves: the
\* category and the priority, then the two flags.
LEMMA WrittenTicket ==
  ASSUME TypeOK, NEW t \in Tickets, NEW reply \in Replies, WriteResult(t, reply)
  PROVE  /\ tickets' \in [Tickets -> TicketRow]
         /\ raced' \in SUBSET Tickets
         /\ \A u \in Tickets \ {t} : tickets'[u] = tickets[u]
         /\ tickets'[t].exists = tickets[t].exists
         /\ tickets'[t].summarized
         /\ ~ tickets'[t].manual
<1>1. tickets \in [Tickets -> TicketRow]
  BY DEF TypeOK
<1>2. reply \in Reply
  BY RepliesAssumption
<1>3. PICK c \in Categories \cup {None}, p \in Priorities :
        tickets' = [tickets EXCEPT ![t].category = c, ![t].priority = p,
                                   ![t].summarized = TRUE, ![t].manual = FALSE]
  <2> DEFINE c == IF task[t].category = None THEN reply.category ELSE task[t].category
             p == IF task[t].priority = "medium" THEN ReplyPriority(reply)
                                                 ELSE task[t].priority
  <2>1. c \in Categories \cup {None}
    BY <1>2, RowTypes DEF WriteResult, Accepted, Reply
  <2>2. p \in Priorities
    BY <1>2, RowTypes DEF ReplyPriority, Reply, Priorities
  <2>3. tickets' = [tickets EXCEPT ![t].category = c, ![t].priority = p,
                                   ![t].summarized = TRUE, ![t].manual = FALSE]
    BY DEF WriteResult
  <2> HIDE DEF c, p
  <2> QED
    BY <2>1, <2>2, <2>3
<1> DEFINE half == [tickets EXCEPT ![t].category = c, ![t].priority = p]
<1>4. /\ half \in [Tickets -> TicketRow]
      /\ \A u \in Tickets \ {t} : half[u] = tickets[u]
      /\ half[t].exists = tickets[t].exists
  BY <1>1 DEF TicketRow
<1>5. tickets' = [half EXCEPT ![t].summarized = TRUE, ![t].manual = FALSE]
  BY <1>3
<1> HIDE DEF half
<1>6. /\ tickets' \in [Tickets -> TicketRow]
      /\ \A u \in Tickets \ {t} : tickets'[u] = half[u]
      /\ tickets'[t].exists = half[t].exists
      /\ tickets'[t].summarized
      /\ ~ tickets'[t].manual
  BY <1>4, <1>5 DEF TicketRow
<1>7. raced' \in SUBSET Tickets
  BY DEF WriteResult, TypeOK
<1> QED
  BY <1>4, <1>6, <1>7

-----------------------------------------------------------------------------
\* create_ticket: a fresh row and a task that has not been sent.
LEMMA CreateStep ==
  ASSUME TriageInv, NEW t \in Tickets, NEW p \in Priorities, CreateTicket(t, p)
  PROVE  TriageInv'
<1> USE DEF TriageInv
<1>1. /\ ~ tickets[t].exists
      /\ tickets' = [tickets EXCEPT ![t].exists = TRUE, ![t].priority = p]
      /\ Move(t, "unsent")
      /\ UNCHANGED <<faults, calls, raced>>
  BY DEF CreateTicket
<1>2. /\ task' \in [Tickets -> TaskRow]
      /\ \A u \in Tickets \ {t} : task'[u] = task[u]
      /\ task'[t].retries = task[t].retries
      /\ task'[t].state = "unsent"
  BY <1>1, MovedTask DEF Move, TypeOK, TaskRow
<1>3. /\ tickets' \in [Tickets -> TicketRow]
      /\ \A u \in Tickets \ {t} : tickets'[u] = tickets[u]
      /\ tickets'[t].exists
      /\ tickets'[t].manual = tickets[t].manual
  <2>1. tickets \in [Tickets -> TicketRow]
    BY DEF TypeOK
  <2> QED
    BY <1>1, <2>1 DEF TicketRow
<1>4. TypeOK'
  BY <1>1, <1>2, <1>3 DEF TypeOK
<1>5. task[t].state = "none"
  BY <1>1 DEF Outcome
<1>6. Counted(t)' /\ Outcome(t)'
  BY <1>1, <1>2, <1>3, <1>5 DEF Counted, Outcome, MaxRetries
<1> QED
  BY <1>1, <1>2, <1>3, <1>4, <1>6, OthersKept

\* The dispatch, whether it succeeds or not.
LEMMA DispatchStep ==
  ASSUME TriageInv, NEW t \in Tickets, Dispatch(t) \/ DispatchFails(t)
  PROVE  TriageInv'
<1> USE DEF TriageInv
<1>1. /\ task[t].state = "unsent"
      /\ Move(t, "queued") \/ Move(t, "lost")
      /\ UNCHANGED <<tickets, calls, raced>>
      /\ faults' \in 0..MaxFaults
  BY FaultsAssumption DEF Dispatch, DispatchFails, Fault, TypeOK
<1>2. /\ task' \in [Tickets -> TaskRow]
      /\ \A u \in Tickets \ {t} : task'[u] = task[u]
      /\ task'[t].retries = task[t].retries
      /\ task'[t].state \in {"queued", "lost"}
  BY <1>1, MovedTask DEF Move, TypeOK, TaskRow
<1>3. TypeOK'
  BY <1>1, <1>2 DEF TypeOK
<1>4. Counted(t)' /\ Outcome(t)'
  BY <1>1, <1>2 DEF Counted, Outcome, MaxRetries
<1> QED
  BY <1>1, <1>2, <1>3, <1>4, OthersKept

\* An attempt begins: one call more.
LEMMA StartStep ==
  ASSUME TriageInv, NEW t \in Tickets, StartAttempt(t)
  PROVE  TriageInv'
<1> USE DEF TriageInv
<1>1. /\ task[t].state = "queued"
      /\ task' = [task EXCEPT ![t].state = "llm", ![t].category = tickets[t].category,
                              ![t].priority = tickets[t].priority]
      /\ calls' = [calls EXCEPT ![t] = @ + 1]
      /\ UNCHANGED <<tickets, faults, raced>>
  BY DEF StartAttempt
<1>2. /\ task' \in [Tickets -> TaskRow]
      /\ \A u \in Tickets \ {t} : task'[u] = task[u]
      /\ task'[t].retries = task[t].retries
      /\ task'[t].state = "llm"
  <2>1. task \in [Tickets -> TaskRow] /\ task[t] \in TaskRow /\ tickets[t] \in TicketRow
    BY DEF TypeOK
  <2>2. PICK row : row = [task[t] EXCEPT !.state = "llm",
                                         !.category = tickets[t].category,
                                         !.priority = tickets[t].priority]
    OBVIOUS
  <2>3. tickets[t].category \in Categories \cup {None} /\ tickets[t].priority \in Priorities
    BY <2>1 DEF TicketRow
  <2>4. row \in TaskRow /\ row.retries = task[t].retries /\ row.state = "llm"
    BY <2>1, <2>2, <2>3 DEF TaskRow
  <2>5. task' = [task EXCEPT ![t] = row]
    BY <1>1, <2>1, <2>2
  <2> QED
    BY <2>1, <2>4, <2>5
<1>3. /\ calls' \in [Tickets -> Nat]
      /\ calls'[t] = calls[t] + 1
      /\ \A u \in Tickets \ {t} : calls'[u] = calls[u]
  BY <1>1 DEF TypeOK
<1>4. TypeOK'
  BY <1>1, <1>2, <1>3 DEF TypeOK
<1>5. Counted(t)' /\ Outcome(t)'
  BY <1>1, <1>2, <1>3, RowTypes DEF Counted, Outcome, MaxRetries
<1> QED
  BY <1>1, <1>2, <1>3, <1>4, <1>5, OthersKept

\* An attempt succeeds.
LEMMA FinishStep ==
  ASSUME TriageInv, NEW t \in Tickets, NEW reply \in Replies, FinishAttempt(t, reply)
  PROVE  TriageInv'
<1> USE DEF TriageInv
<1>1. /\ task[t].state = "llm"
      /\ WriteResult(t, reply)
      /\ Move(t, "ended")
      /\ UNCHANGED <<faults, calls>>
  BY DEF FinishAttempt, WriteResult
<1>2. /\ task' \in [Tickets -> TaskRow]
      /\ \A u \in Tickets \ {t} : task'[u] = task[u]
      /\ task'[t].state = "ended"
  BY <1>1, MovedTask DEF Move, TypeOK, TaskRow
<1>3. /\ tickets' \in [Tickets -> TicketRow]
      /\ raced' \in SUBSET Tickets
      /\ \A u \in Tickets \ {t} : tickets'[u] = tickets[u]
      /\ tickets'[t].exists = tickets[t].exists
      /\ tickets'[t].summarized
      /\ ~ tickets'[t].manual
  BY <1>1, WrittenTicket
<1>4. TypeOK'
  BY <1>1, <1>2, <1>3 DEF TypeOK
<1>5. Counted(t)' /\ Outcome(t)'
  BY <1>1, <1>2, <1>3 DEF Counted, Outcome
<1> QED
  BY <1>1, <1>2, <1>3, <1>4, <1>5, OthersKept

\* An attempt fails: before the UPDATE, after it, or on the model's reply.
LEMMA RetryStep ==
  ASSUME TriageInv, NEW t \in Tickets,
         \/ AttemptTimesOut(t)
         \/ \E reply \in Replies : FailAfterWrite(t, reply) \/ ReplyRefused(t, reply)
  PROVE  TriageInv'
<1> USE DEF TriageInv
<1>1. /\ task[t].state = "llm"
      /\ RetryOrGiveUp(t)
      /\ UNCHANGED <<faults, calls>>
  BY DEF AttemptTimesOut, FailAfterWrite, ReplyRefused, WriteResult
<1>2. /\ tickets' \in [Tickets -> TicketRow]
      /\ raced' \in SUBSET Tickets
      /\ \A u \in Tickets \ {t} : tickets'[u] = tickets[u]
      /\ tickets'[t].exists = tickets[t].exists
      /\ ~ tickets'[t].manual
  <2>1. CASE \E reply \in Replies : FailAfterWrite(t, reply)
    BY <2>1, WrittenTicket DEF FailAfterWrite
  <2>2. CASE AttemptTimesOut(t) \/ \E reply \in Replies : ReplyRefused(t, reply)
    <3>1. UNCHANGED tickets /\ raced' = raced \ {t}
      BY <2>2 DEF AttemptTimesOut, ReplyRefused
    <3>2. ~ tickets[t].manual
      BY <1>1 DEF Outcome
    <3> QED
      BY <3>1, <3>2 DEF TypeOK
  <2> QED
    BY <2>1, <2>2
<1>3. TypeOK'
  BY <1>1, <1>2, RetryTask DEF TypeOK
<1>4. Counted(t)' /\ Outcome(t)'
  BY <1>1, <1>2, RetryTask, RowTypes DEF Counted, Outcome, MaxRetries
<1> QED
  BY <1>1, <1>2, <1>3, <1>4, RetryTask, OthersKept

\* The flag is set.
LEMMA MarkStep ==
  ASSUME TriageInv, NEW t \in Tickets, MarkManual(t)
  PROVE  TriageInv'
<1> USE DEF TriageInv
<1>1. /\ task[t].state = "marking"
      /\ tickets' = [tickets EXCEPT ![t].manual = TRUE]
      /\ Move(t, "ended")
      /\ UNCHANGED <<faults, calls, raced>>
  BY DEF MarkManual
<1>2. /\ task' \in [Tickets -> TaskRow]
      /\ \A u \in Tickets \ {t} : task'[u] = task[u]
      /\ task'[t].retries = task[t].retries
      /\ task'[t].state = "ended"
  BY <1>1, MovedTask DEF Move, TypeOK, TaskRow
<1>3. /\ tickets' \in [Tickets -> TicketRow]
      /\ \A u \in Tickets \ {t} : tickets'[u] = tickets[u]
      /\ tickets'[t].exists = tickets[t].exists
      /\ tickets'[t].manual
  <2>1. tickets \in [Tickets -> TicketRow]
    BY DEF TypeOK
  <2> QED
    BY <1>1, <2>1 DEF TicketRow
<1>4. TypeOK'
  BY <1>1, <1>2, <1>3 DEF TypeOK
<1>5. calls[t] = MaxRetries + 1
  BY <1>1 DEF Counted
<1>6. Counted(t)' /\ Outcome(t)'
  BY <1>1, <1>2, <1>3, <1>5 DEF Counted, Outcome
<1> QED
  BY <1>1, <1>2, <1>3, <1>4, <1>6, OthersKept

\* The worker dies.
LEMMA DieStep ==
  ASSUME TriageInv, NEW t \in Tickets, TaskDies(t)
  PROVE  TriageInv'
<1> USE DEF TriageInv
<1>1. /\ task[t].state \in {"llm", "marking"}
      /\ Move(t, "lost")
      /\ UNCHANGED <<tickets, calls>>
      /\ faults' \in 0..MaxFaults
      /\ raced' \in SUBSET Tickets
  BY FaultsAssumption DEF TaskDies, Fault, TypeOK
<1>2. /\ task' \in [Tickets -> TaskRow]
      /\ \A u \in Tickets \ {t} : task'[u] = task[u]
      /\ task'[t].state = "lost"
  BY <1>1, MovedTask DEF Move, TypeOK, TaskRow
<1>3. TypeOK'
  BY <1>1, <1>2 DEF TypeOK
<1>4. Counted(t)' /\ Outcome(t)'
  BY <1>1, <1>2 DEF Counted, Outcome
<1> QED
  BY <1>1, <1>2, <1>3, <1>4, OthersKept

\* An update of the ticket sets category and priority, and never the flag.
LEMMA PatchStep ==
  ASSUME TriageInv, NEW t \in Tickets, NEW patch \in Patches, PatchTicket(t, patch)
  PROVE  /\ TriageInv'
         /\ \A u \in Tickets : tickets'[u].manual = tickets[u].manual
<1> USE DEF TriageInv
<1> DEFINE c == IF patch.category = None THEN tickets[t].category ELSE patch.category
           p == IF patch.priority = None THEN tickets[t].priority ELSE patch.priority
<1>1. /\ tickets' = [tickets EXCEPT ![t].category = c, ![t].priority = p]
      /\ UNCHANGED <<task, faults, calls>>
      /\ raced' \in SUBSET Tickets
  BY DEF PatchTicket, TypeOK
<1>2. c \in Categories \cup {None} /\ p \in Priorities
  BY PatchesAssumption, RowTypes DEF TicketRow
<1>3. /\ tickets' \in [Tickets -> TicketRow]
      /\ \A u \in Tickets : /\ tickets'[u].exists = tickets[u].exists
                            /\ tickets'[u].manual = tickets[u].manual
                            /\ tickets'[u].summarized = tickets[u].summarized
  <2>1. tickets \in [Tickets -> TicketRow]
    BY DEF TypeOK
  <2> QED
    BY <1>1, <1>2, <2>1 DEF TicketRow
<1>4. TypeOK'
  BY <1>1, <1>3 DEF TypeOK
<1> QED
  BY <1>1, <1>3, <1>4 DEF Counted, Outcome

\* Every step keeps the invariant.
LEMMA NextTriage == TriageInv /\ [Next]_vars => TriageInv'
<1> SUFFICES ASSUME TriageInv, [Next]_vars PROVE TriageInv'
  OBVIOUS
<1>1. CASE UNCHANGED vars
  BY <1>1 DEF vars, TriageInv, TypeOK, Counted, Outcome
<1>2. CASE Next
  BY <1>2, CreateStep, DispatchStep, StartStep, FinishStep, RetryStep, MarkStep,
     DieStep, PatchStep, OpeningAssumption DEF Next
<1> QED
  BY <1>1, <1>2

-----------------------------------------------------------------------------
\* Every reachable state of triage satisfies the inductive invariant.
THEOREM TriageInvariant == Spec => []TriageInv
BY InitTriage, NextTriage, PTL DEF Spec

\* Type correctness of triage.
THEOREM TriageTypeCorrect == Spec => []TypeOK
<1>1. TriageInv => TypeOK
  BY DEF TriageInv
<1> QED
  BY <1>1, TriageInvariant, PTL

\* triage_ticket_task makes at most four attempts at a ticket, whatever fails.
THEOREM AttemptsAreBounded == Spec => []AttemptsBounded
<1>1. TriageInv => AttemptsBounded
  BY DEF TriageInv, Counted, AttemptsBounded
<1> QED
  BY <1>1, TriageInvariant, PTL

\* Only a task that has used up its retries flags its ticket.
THEOREM FlagMeansExhausted == Spec => []FlaggedOnlyWhenExhausted
<1>1. TriageInv => FlaggedOnlyWhenExhausted
  BY DEF TriageInv, Outcome, FlaggedOnlyWhenExhausted
<1> QED
  BY <1>1, TriageInvariant, PTL

\* A task that ends has left a summary or the flag.
THEOREM NoSilentEnd == Spec => []EndedMeansHandled
<1>1. TriageInv => EndedMeansHandled
  BY DEF TriageInv, Outcome, EndedMeansHandled
<1> QED
  BY <1>1, TriageInvariant, PTL

\* The flag is never cleared: when it is set no attempt is left to clear it.
THEOREM FlagIsFinal == Spec => FlagStays
<1>1. TriageInv /\ [Next]_vars
        => [\A t \in Tickets : tickets[t].manual => tickets'[t].manual]_vars
  <2> SUFFICES ASSUME TriageInv, Next, NEW t \in Tickets, tickets[t].manual
               PROVE  tickets'[t].manual
    OBVIOUS
  <2>1. task[t].state = "ended" /\ tickets[t].exists
    BY DEF TriageInv, Outcome
  <2>2. tickets \in [Tickets -> TicketRow]
    BY DEF TriageInv, TypeOK
  <2>3. ASSUME NEW u \in Tickets, NEW reply \in Replies, WriteResult(u, reply)
        PROVE  tickets'[t].manual
    <3>1. u # t
      BY <2>1, <2>3 DEF WriteResult
    <3> QED
      BY <2>3, <3>1, WrittenTicket DEF TriageInv
  <2>4. ASSUME NEW u \in Tickets, NEW p \in Priorities, CreateTicket(u, p)
        PROVE  tickets'[t].manual
    BY <2>1, <2>2, <2>4 DEF CreateTicket
  <2>5. ASSUME NEW u \in Tickets, MarkManual(u)
        PROVE  tickets'[t].manual
    BY <2>2, <2>5 DEF MarkManual, TicketRow
  <2>6. ASSUME UNCHANGED tickets
        PROVE  tickets'[t].manual
    BY <2>6
  <2> QED
    BY <2>3, <2>4, <2>5, <2>6, PatchStep, OpeningAssumption
       DEF Next, Dispatch, DispatchFails, StartAttempt, FinishAttempt, FailAfterWrite,
           ReplyRefused, AttemptTimesOut, TaskDies
<1> QED
  BY <1>1, TriageInvariant, PTL DEF Spec, FlagStays

-----------------------------------------------------------------------------
\* What an attempt read is still so while no update has come in between.
Snapshot(t) ==
  task[t].state = "llm" /\ t \notin raced =>
    /\ task[t].category = tickets[t].category
    /\ task[t].priority = tickets[t].priority

\* What ChoicesSurviveTriage asks of one ticket and one step.
ChoiceKept(t) ==
  task[t].state = "llm" /\ t \notin raced /\ t \notin raced' =>
    /\ tickets[t].category # None => tickets'[t].category = tickets[t].category
    /\ tickets[t].priority # "medium" => tickets'[t].priority = tickets[t].priority

\* A step on ticket t is right by the choices made for every ticket.
ChoicesRight(t) ==
  /\ \A u \in Tickets \ {t} : /\ tickets'[u] = tickets[u] /\ task'[u] = task[u]
                              /\ u \in raced' <=> u \in raced
  /\ Snapshot(t)'
  /\ ChoiceKept(t)

\* The columns the UPDATE of an attempt writes.
LEMMA WrittenChoices ==
  ASSUME TypeOK, NEW t \in Tickets, NEW reply \in Replies, WriteResult(t, reply)
  PROVE  /\ tickets'[t].category = IF task[t].category = None THEN reply.category
                                                              ELSE task[t].category
         /\ tickets'[t].priority = IF task[t].priority = "medium"
                                     THEN ReplyPriority(reply) ELSE task[t].priority
<1> DEFINE c == IF task[t].category = None THEN reply.category ELSE task[t].category
           p == IF task[t].priority = "medium" THEN ReplyPriority(reply)
                                               ELSE task[t].priority
<1>1. tickets' = [tickets EXCEPT ![t].category = c, ![t].priority = p,
                                 ![t].summarized = TRUE, ![t].manual = FALSE]
  BY DEF WriteResult
<1>2. tickets \in [Tickets -> TicketRow]
  BY DEF TypeOK
<1> HIDE DEF c, p
<1> DEFINE half == [tickets EXCEPT ![t].category = c, ![t].priority = p]
<1>3. half[t].category = c /\ half[t].priority = p /\ DOMAIN half = Tickets
  BY <1>2 DEF TicketRow
<1>4. tickets' = [half EXCEPT ![t].summarized = TRUE, ![t].manual = FALSE]
  BY <1>1
<1> HIDE DEF half
<1>5. tickets'[t].category = half[t].category /\ tickets'[t].priority = half[t].priority
  BY <1>3, <1>4
<1> QED
  BY <1>3, <1>5 DEF c, p

\* An attempt that ends, in whatever way, has kept the choices it read.
LEMMA EndKeepsChoices ==
  ASSUME TypeOK, NEW t \in Tickets, Snapshot(t),
         \/ AttemptTimesOut(t) \/ TaskDies(t)
         \/ \E reply \in Replies : FinishAttempt(t, reply)
              \/ FailAfterWrite(t, reply) \/ ReplyRefused(t, reply)
  PROVE  ChoicesRight(t)
<1>1. raced' = raced \ {t}
  BY DEF AttemptTimesOut, TaskDies, FinishAttempt, FailAfterWrite, ReplyRefused,
         WriteResult
<1>2. /\ task'[t].state # "llm"
      /\ \A u \in Tickets \ {t} : task'[u] = task[u]
  <2>1. ASSUME Move(t, "ended") \/ Move(t, "lost")
        PROVE  /\ task'[t].state # "llm"
               /\ \A u \in Tickets \ {t} : task'[u] = task[u]
    BY <2>1, MovedTask
  <2>2. ASSUME RetryOrGiveUp(t)
        PROVE  /\ task'[t].state # "llm"
               /\ \A u \in Tickets \ {t} : task'[u] = task[u]
    <3>1. task[t].retries < MaxRetries \/ task[t].retries >= MaxRetries
      BY RowTypes DEF MaxRetries
    <3> QED
      BY <2>2, <3>1, RetryTask
  <2> QED
    BY <2>1, <2>2 DEF AttemptTimesOut, TaskDies, FinishAttempt, FailAfterWrite,
                      ReplyRefused
<1>3. CASE UNCHANGED tickets
  BY <1>1, <1>2, <1>3 DEF ChoicesRight, Snapshot, ChoiceKept
<1>4. ASSUME NEW reply \in Replies, WriteResult(t, reply) PROVE ChoicesRight(t)
  <2>1. \A u \in Tickets \ {t} : tickets'[u] = tickets[u]
    BY <1>4, WrittenTicket
  <2>2. ChoiceKept(t)
    BY <1>4, WrittenChoices DEF Snapshot, ChoiceKept
  <2> QED
    BY <1>1, <1>2, <2>1, <2>2 DEF ChoicesRight, Snapshot
<1> QED
  BY <1>3, <1>4 DEF AttemptTimesOut, TaskDies, FinishAttempt, FailAfterWrite,
                    ReplyRefused

\* What begins or ends a task beside its attempts has no choice to keep.
LEMMA MoveKeepsChoices ==
  ASSUME TypeOK, NEW t \in Tickets, task[t].state # "llm",
         \/ \E p \in Opening : CreateTicket(t, p)
         \/ Dispatch(t) \/ DispatchFails(t) \/ MarkManual(t)
  PROVE  ChoicesRight(t)
<1>1. UNCHANGED raced /\ \A u \in Tickets \ {t} : tickets'[u] = tickets[u]
  BY DEF CreateTicket, Dispatch, DispatchFails, MarkManual, TypeOK
<1>2. task'[t].state # "llm" /\ \A u \in Tickets \ {t} : task'[u] = task[u]
  BY MovedTask DEF CreateTicket, Dispatch, DispatchFails, MarkManual
<1> QED
  BY <1>1, <1>2 DEF ChoicesRight, Snapshot, ChoiceKept

\* An attempt begins with what the ticket says.
LEMMA StartKeepsChoices ==
  ASSUME TypeOK, NEW t \in Tickets, StartAttempt(t)
  PROVE  ChoicesRight(t)
<1>1. /\ task[t].state = "queued" /\ UNCHANGED <<tickets, raced>>
      /\ task' = [task EXCEPT ![t].state = "llm", ![t].category = tickets[t].category,
                              ![t].priority = tickets[t].priority]
  BY DEF StartAttempt
<1>2. task \in [Tickets -> TaskRow]
  BY DEF TypeOK
<1>3. /\ task'[t].category = tickets[t].category
      /\ task'[t].priority = tickets[t].priority
      /\ \A u \in Tickets \ {t} : task'[u] = task[u]
  BY <1>1, <1>2 DEF TaskRow
<1> QED
  BY <1>1, <1>3 DEF ChoicesRight, Snapshot, ChoiceKept

\* An update while an attempt is under way is a race, and no other is.
LEMMA PatchKeepsChoices ==
  ASSUME TypeOK, NEW t \in Tickets, NEW patch \in Patches, PatchTicket(t, patch)
  PROVE  ChoicesRight(t)
<1>1. /\ UNCHANGED task
      /\ raced' = IF task[t].state = "llm" THEN raced \cup {t} ELSE raced
  BY DEF PatchTicket
<1>2. \A u \in Tickets \ {t} : tickets'[u] = tickets[u]
  BY DEF PatchTicket, TypeOK
<1> QED
  BY <1>1, <1>2 DEF ChoicesRight, Snapshot, ChoiceKept

LEMMA ChoicesStep ==
  ASSUME TriageInv, \A t \in Tickets : Snapshot(t), [Next]_vars
  PROVE  /\ \A t \in Tickets : Snapshot(t)'
         /\ [\A t \in Tickets : ChoiceKept(t)]_vars
<1>1. CASE UNCHANGED vars
  BY <1>1 DEF vars, Snapshot
<1>2. CASE Next
  <2>1. PICK t \in Tickets : ChoicesRight(t)
    <3>1. TypeOK
      BY DEF TriageInv
    <3>2. ASSUME NEW t \in Tickets,
                 \/ \E p \in Opening : CreateTicket(t, p)
                 \/ Dispatch(t) \/ DispatchFails(t) \/ MarkManual(t)
          PROVE  ChoicesRight(t)
      <4>1. task[t].state # "llm"
        BY <3>2 DEF TriageInv, Outcome, CreateTicket, Dispatch, DispatchFails,
                    MarkManual
      <4> QED
        BY <3>1, <3>2, <4>1, MoveKeepsChoices
    <3> QED
      BY <1>2, <3>1, <3>2, EndKeepsChoices, StartKeepsChoices, PatchKeepsChoices
         DEF Next
  <2>2. ASSUME NEW u \in Tickets PROVE Snapshot(u)' /\ ChoiceKept(u)
    <3>1. CASE u = t
      BY <2>1, <3>1 DEF ChoicesRight
    <3>2. CASE u # t
      BY <2>1, <3>2 DEF ChoicesRight, Snapshot, ChoiceKept
    <3> QED
      BY <3>1, <3>2
  <2> QED
    BY <2>2
<1> QED
  BY <1>1, <1>2

\* Triage keeps a category and a priority somebody has chosen, also those of an
\* earlier attempt, unless an update comes in while the model is thinking.
THEOREM ChoicesAreKept == Spec => ChoicesSurviveTriage
<1> DEFINE Snapshots == \A t \in Tickets : Snapshot(t)
           Kept == \A t \in Tickets : ChoiceKept(t)
<1>1. Init => Snapshots
  BY DEF Init, NoTask, Snapshot
<1>2. TriageInv /\ Snapshots /\ [Next]_vars => Snapshots' /\ [Kept]_vars
  BY ChoicesStep
<1>3. Kept => \A t \in Tickets \ raced :
        task[t].state = "llm" =>
          LET old == tickets[t]  new == tickets'[t] IN
            t \notin raced' =>
              /\ old.category # None => new.category = old.category
              /\ old.priority # "medium" => new.priority = old.priority
  BY DEF ChoiceKept
<1>4. [Kept]_vars =>
        [\A t \in Tickets \ raced :
           task[t].state = "llm" =>
             LET old == tickets[t]  new == tickets'[t] IN
               t \notin raced' =>
                 /\ old.category # None => new.category = old.category
                 /\ old.priority # "medium" => new.priority = old.priority]_vars
  BY <1>3
<1> HIDE DEF Snapshots, Kept
<1> QED
  BY <1>1, <1>2, <1>4, TriageInvariant, PTL DEF Spec, ChoicesSurviveTriage
=============================================================================
