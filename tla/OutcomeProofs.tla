---------------------------- MODULE OutcomeProofs ----------------------------
(***************************************************************************)
(* Triage implements TriageOutcome: each of its steps opens, attempts,     *)
(* summarizes, flags or loses one ticket as the outcome allows, or changes *)
(* nothing that the outcome speaks of.                                     *)
(***************************************************************************)
EXTENDS TriageProofs

Alive == InState({"unsent", "queued", "llm", "marking"})
Lost  == InState({"lost"})

\* A ticket that does not exist has no summary: what Open relies on.
NoEarlySummary == \A t \in Tickets : tickets[t].summarized => tickets[t].exists

OutcomeInv == TriageInv /\ NoEarlySummary

\* Where a ticket's task is, now and next.
LEMMA AliveOrLost ==
  ASSUME NEW t \in Tickets
  PROVE  /\ t \in Alive <=> task[t].state \in {"unsent", "queued", "llm", "marking"}
         /\ t \in Lost <=> task[t].state = "lost"
         /\ t \in Alive' <=> task'[t].state \in {"unsent", "queued", "llm", "marking"}
         /\ t \in Lost' <=> task'[t].state = "lost"
BY DEF Alive, Lost, InState

\* The outcome of a ticket, now and next.
LEMMA OutcomeValues ==
  ASSUME NEW t \in Tickets
  PROVE  /\ ~ tickets[t].exists => OutcomeOf[t] = "absent"
         /\ tickets'[t].exists /\ tickets'[t].manual => OutcomeOf'[t] = "flagged"
         /\ tickets'[t].exists /\ ~ tickets'[t].manual =>
              OutcomeOf'[t] = IF tickets'[t].summarized THEN "triaged" ELSE "waiting"
<1>1. OutcomeOf[t] = IF ~ tickets[t].exists THEN "absent"
                     ELSE IF tickets[t].manual THEN "flagged"
                     ELSE IF tickets[t].summarized THEN "triaged"
                     ELSE "waiting"
  BY DEF OutcomeOf
<1>2. OutcomeOf'[t] = IF ~ tickets'[t].exists THEN "absent"
                      ELSE IF tickets'[t].manual THEN "flagged"
                      ELSE IF tickets'[t].summarized THEN "triaged"
                      ELSE "waiting"
  BY DEF OutcomeOf
<1> QED
  BY <1>1, <1>2

\* A step on ticket t changes the outcome of t alone, and whether its task is
\* alive or lost.
LEMMA OutcomeElsewhere ==
  ASSUME NEW t \in Tickets, \A u \in Tickets \ {t} : tickets'[u] = tickets[u],
         \A u \in Tickets \ {t} : task'[u] = task[u]
  PROVE  /\ \A x : OutcomeOf'[t] = x => OutcomeOf' = [OutcomeOf EXCEPT ![t] = x]
         /\ OutcomeOf'[t] = OutcomeOf[t] => OutcomeOf' = OutcomeOf
         /\ t \in Alive' => Alive' = Alive \cup {t}
         /\ t \notin Alive' => Alive' = Alive \ {t}
         /\ t \in Lost' => Lost' = Lost \cup {t}
         /\ t \notin Lost' => Lost' = Lost \ {t}
<1>1. \A u \in Tickets \ {t} : OutcomeOf'[u] = OutcomeOf[u]
  BY DEF OutcomeOf
<1>2. /\ OutcomeOf = [u \in Tickets |-> OutcomeOf[u]]
      /\ OutcomeOf' = [u \in Tickets |-> OutcomeOf'[u]]
  BY DEF OutcomeOf
<1>3. /\ \A x : OutcomeOf'[t] = x => OutcomeOf' = [OutcomeOf EXCEPT ![t] = x]
      /\ OutcomeOf'[t] = OutcomeOf[t] => OutcomeOf' = OutcomeOf
  BY <1>1, <1>2
<1>4. /\ Alive \subseteq Tickets /\ Alive' \subseteq Tickets
      /\ Lost \subseteq Tickets /\ Lost' \subseteq Tickets
      /\ \A u \in Tickets \ {t} : (u \in Alive' <=> u \in Alive)
                                  /\ (u \in Lost' <=> u \in Lost)
  BY DEF Alive, Lost, InState
<1>5. /\ t \in Alive' => Alive' = Alive \cup {t}
      /\ t \notin Alive' => Alive' = Alive \ {t}
  BY <1>4
<1>6. /\ t \in Lost' => Lost' = Lost \cup {t}
      /\ t \notin Lost' => Lost' = Lost \ {t}
  BY <1>4
<1> QED
  BY <1>3, <1>5, <1>6

-----------------------------------------------------------------------------
\* create_ticket opens the outcome.
LEMMA CreateOpens ==
  ASSUME OutcomeInv, NEW t \in Tickets, NEW p \in Priorities, CreateTicket(t, p)
  PROVE  Promise!Next /\ NoEarlySummary'
<1> USE DEF OutcomeInv, TriageInv, NoEarlySummary
<1>1. /\ ~ tickets[t].exists
      /\ tickets' = [tickets EXCEPT ![t].exists = TRUE, ![t].priority = p]
      /\ Move(t, "unsent")
      /\ UNCHANGED calls
  BY DEF CreateTicket
<1>2. /\ \A u \in Tickets \ {t} : task'[u] = task[u]
      /\ task'[t].state = "unsent"
  BY <1>1, MovedTask DEF Move, TypeOK, TaskRow
<1>3. /\ \A u \in Tickets \ {t} : tickets'[u] = tickets[u]
      /\ tickets'[t].exists
      /\ tickets'[t].manual = tickets[t].manual
      /\ tickets'[t].summarized = tickets[t].summarized
  <2>1. tickets \in [Tickets -> TicketRow]
    BY DEF TypeOK
  <2> QED
    BY <1>1, <2>1 DEF TicketRow
<1>4. task[t].state = "none" /\ ~ tickets[t].manual /\ ~ tickets[t].summarized
  BY <1>1 DEF Outcome
<1>5. /\ OutcomeOf[t] = "absent" /\ OutcomeOf'[t] = "waiting"
      /\ t \in Alive' /\ t \notin Lost /\ t \notin Lost'
  BY <1>1, <1>2, <1>3, <1>4, OutcomeValues, AliveOrLost
<1>6. /\ OutcomeOf' = [OutcomeOf EXCEPT ![t] = "waiting"]
      /\ Alive' = Alive \cup {t}
      /\ Lost' = Lost \ {t}
  BY <1>2, <1>3, <1>5, OutcomeElsewhere
<1>7. Promise!Open(t)
  BY <1>1, <1>5, <1>6 DEF Promise!Open, Alive, Lost
<1> QED
  BY <1>3, <1>7 DEF Promise!Next

\* The dispatch is nothing to the outcome, or loses the task.
LEMMA DispatchOutcome ==
  ASSUME OutcomeInv, NEW t \in Tickets, Dispatch(t) \/ DispatchFails(t)
  PROVE  [Promise!Next]_(Promise!ovars)
<1> USE DEF OutcomeInv, TriageInv
<1>1. /\ task[t].state = "unsent"
      /\ UNCHANGED <<tickets, calls>>
  BY DEF Dispatch, DispatchFails
<1>2. \A u \in Tickets \ {t} : task'[u] = task[u]
  BY MovedTask DEF Dispatch, DispatchFails
<1>3. OutcomeOf' = OutcomeOf
  BY <1>1 DEF OutcomeOf
<1>4. t \in Alive /\ t \notin Lost
  BY <1>1, AliveOrLost
<1>5. CASE Dispatch(t)
  <2>1. task'[t].state = "queued"
    BY <1>5 DEF Dispatch, Move, TypeOK, TaskRow
  <2>2. t \in Alive' /\ t \notin Lost'
    BY <2>1, AliveOrLost
  <2>3. Alive' = Alive /\ Lost' = Lost
    BY <1>1, <1>2, <1>4, <2>2, OutcomeElsewhere
  <2> QED
    BY <1>1, <1>3, <2>3 DEF Promise!ovars, Alive, Lost
<1>6. CASE DispatchFails(t)
  <2>1. task'[t].state = "lost"
    BY <1>6 DEF DispatchFails, Move, TypeOK, TaskRow
  <2>2. t \notin Alive' /\ t \in Lost'
    BY <2>1, AliveOrLost
  <2>3. Alive' = Alive \ {t} /\ Lost' = Lost \cup {t}
    BY <1>1, <1>2, <2>2, OutcomeElsewhere
  <2>4. Promise!Lose(t)
    BY <1>1, <1>3, <1>4, <2>3 DEF Promise!Lose, Alive, Lost
  <2> QED
    BY <2>4 DEF Promise!Next
<1> QED
  BY <1>5, <1>6

\* An attempt that begins is one of a bounded number.
LEMMA StartAttempts ==
  ASSUME OutcomeInv, NEW t \in Tickets, StartAttempt(t)
  PROVE  Promise!Next
<1> USE DEF OutcomeInv, TriageInv
<1>1. /\ task[t].state = "queued"
      /\ UNCHANGED tickets
      /\ calls' = [calls EXCEPT ![t] = @ + 1]
  BY DEF StartAttempt
<1>2. /\ \A u \in Tickets \ {t} : task'[u] = task[u]
      /\ task'[t].state = "llm"
  BY DEF StartAttempt, TypeOK, TaskRow
<1>3. OutcomeOf' = OutcomeOf
  BY <1>1 DEF OutcomeOf
<1>4. t \in Alive /\ t \notin Lost /\ t \in Alive' /\ t \notin Lost'
  BY <1>1, <1>2, AliveOrLost
<1>5. Alive' = Alive /\ Lost' = Lost
  BY <1>1, <1>2, <1>4, OutcomeElsewhere
<1>6. calls[t] < MaxRetries + 1
  BY <1>1, RowTypes DEF Counted, MaxRetries
<1>7. Promise!Attempt(t)
  BY <1>1, <1>3, <1>4, <1>5, <1>6 DEF Promise!Attempt, Alive, Lost
<1> QED
  BY <1>7 DEF Promise!Next

\* An attempt that writes its result summarizes, whether its task then ends
\* or, failing afterwards, goes on.
LEMMA WriteSummarizes ==
  ASSUME OutcomeInv, NEW t \in Tickets, NEW reply \in Replies,
         FinishAttempt(t, reply) \/ FailAfterWrite(t, reply)
  PROVE  Promise!Next /\ NoEarlySummary'
<1> USE DEF OutcomeInv, TriageInv, NoEarlySummary
<1>1. /\ task[t].state = "llm"
      /\ WriteResult(t, reply)
      /\ UNCHANGED calls
  BY DEF FinishAttempt, FailAfterWrite, WriteResult
<1>2. /\ \A u \in Tickets \ {t} : tickets'[u] = tickets[u]
      /\ tickets'[t].exists
      /\ tickets'[t].summarized
      /\ ~ tickets'[t].manual
  BY <1>1, WrittenTicket DEF Outcome
<1>3. /\ \A u \in Tickets \ {t} : task'[u] = task[u]
      /\ task'[t].state \in {"ended", "queued", "marking"}
  <2>1. CASE FinishAttempt(t, reply)
    BY <2>1, MovedTask DEF FinishAttempt, Move, TypeOK, TaskRow
  <2>2. CASE FailAfterWrite(t, reply)
    BY <2>2, RetryTask, RowTypes DEF FailAfterWrite, MaxRetries
  <2> QED
    BY <2>1, <2>2
<1>4. /\ OutcomeOf'[t] = "triaged"
      /\ t \in Alive /\ t \notin Lost /\ t \notin Lost'
  BY <1>1, <1>2, <1>3, OutcomeValues, AliveOrLost
<1>5. /\ OutcomeOf' = [OutcomeOf EXCEPT ![t] = "triaged"]
      /\ Alive' \in {Alive, Alive \ {t}}
      /\ Lost' = Lost
  BY <1>2, <1>3, <1>4, OutcomeElsewhere
<1>6. calls[t] > 0
  BY <1>1, RowTypes DEF Counted, MaxRetries
<1>7. Promise!Summarize(t)
  BY <1>1, <1>4, <1>5, <1>6 DEF Promise!Summarize, Alive, Lost
<1> QED
  BY <1>2, <1>7 DEF Promise!Next

\* An attempt that fails before it writes decides nothing yet.
LEMMA RetryStutters ==
  ASSUME OutcomeInv, NEW t \in Tickets,
         AttemptTimesOut(t) \/ \E reply \in Replies : ReplyRefused(t, reply)
  PROVE  UNCHANGED Promise!ovars
<1> USE DEF OutcomeInv, TriageInv
<1>1. /\ task[t].state = "llm"
      /\ RetryOrGiveUp(t)
      /\ UNCHANGED <<tickets, calls>>
  BY DEF AttemptTimesOut, ReplyRefused
<1>2. /\ \A u \in Tickets \ {t} : task'[u] = task[u]
      /\ task'[t].state \in {"queued", "marking"}
  BY <1>1, RetryTask, RowTypes DEF MaxRetries
<1>3. OutcomeOf' = OutcomeOf
  BY <1>1 DEF OutcomeOf
<1>4. t \in Alive /\ t \notin Lost /\ t \in Alive' /\ t \notin Lost'
  BY <1>1, <1>2, AliveOrLost
<1>5. Alive' = Alive /\ Lost' = Lost
  BY <1>1, <1>2, <1>4, OutcomeElsewhere
<1> QED
  BY <1>1, <1>3, <1>5 DEF Promise!ovars, Alive, Lost

\* The flag comes when no attempt is left.
LEMMA MarkFlags ==
  ASSUME OutcomeInv, NEW t \in Tickets, MarkManual(t)
  PROVE  Promise!Next /\ NoEarlySummary'
<1> USE DEF OutcomeInv, TriageInv, NoEarlySummary
<1>1. /\ task[t].state = "marking"
      /\ tickets' = [tickets EXCEPT ![t].manual = TRUE]
      /\ Move(t, "ended")
      /\ UNCHANGED calls
  BY DEF MarkManual
<1>2. /\ \A u \in Tickets \ {t} : task'[u] = task[u]
      /\ task'[t].state = "ended"
  BY <1>1, MovedTask DEF Move, TypeOK, TaskRow
<1>3. /\ \A u \in Tickets \ {t} : tickets'[u] = tickets[u]
      /\ tickets'[t].exists
      /\ tickets'[t].manual
  <2>1. tickets \in [Tickets -> TicketRow]
    BY DEF TypeOK
  <2>2. tickets[t].exists
    BY <1>1 DEF Outcome
  <2> QED
    BY <1>1, <2>1, <2>2 DEF TicketRow
<1>4. /\ OutcomeOf'[t] = "flagged"
      /\ t \in Alive /\ t \notin Alive' /\ t \notin Lost /\ t \notin Lost'
  BY <1>1, <1>2, <1>3, OutcomeValues, AliveOrLost
<1>5. /\ OutcomeOf' = [OutcomeOf EXCEPT ![t] = "flagged"]
      /\ Alive' = Alive \ {t}
      /\ Lost' = Lost
  BY <1>2, <1>3, <1>4, OutcomeElsewhere
<1>6. calls[t] = MaxRetries + 1
  BY <1>1 DEF Counted
<1>7. Promise!Flag(t)
  BY <1>1, <1>4, <1>5, <1>6 DEF Promise!Flag, Alive, Lost
<1> QED
  BY <1>3, <1>7 DEF Promise!Next

\* A worker that dies loses the task.
LEMMA DeathLoses ==
  ASSUME OutcomeInv, NEW t \in Tickets, TaskDies(t)
  PROVE  Promise!Next
<1> USE DEF OutcomeInv, TriageInv
<1>1. /\ task[t].state \in {"llm", "marking"}
      /\ Move(t, "lost")
      /\ UNCHANGED <<tickets, calls>>
  BY DEF TaskDies
<1>2. /\ \A u \in Tickets \ {t} : task'[u] = task[u]
      /\ task'[t].state = "lost"
  BY <1>1, MovedTask DEF Move, TypeOK, TaskRow
<1>3. OutcomeOf' = OutcomeOf
  BY <1>1 DEF OutcomeOf
<1>4. t \in Alive /\ t \notin Alive' /\ t \in Lost'
  BY <1>1, <1>2, AliveOrLost
<1>5. Alive' = Alive \ {t} /\ Lost' = Lost \cup {t}
  BY <1>1, <1>2, <1>4, OutcomeElsewhere
<1>6. Promise!Lose(t)
  BY <1>1, <1>3, <1>4, <1>5 DEF Promise!Lose, Alive, Lost
<1> QED
  BY <1>6 DEF Promise!Next

\* An update of the ticket is nothing to the outcome.
LEMMA PatchStutters ==
  ASSUME OutcomeInv, NEW t \in Tickets, NEW patch \in Patches, PatchTicket(t, patch)
  PROVE  UNCHANGED Promise!ovars /\ NoEarlySummary'
<1> USE DEF OutcomeInv, TriageInv, NoEarlySummary
<1>1. UNCHANGED <<task, calls>>
  BY DEF PatchTicket
<1>2. \A u \in Tickets : /\ tickets'[u].exists = tickets[u].exists
                         /\ tickets'[u].manual = tickets[u].manual
                         /\ tickets'[u].summarized = tickets[u].summarized
  <2>1. tickets \in [Tickets -> TicketRow]
    BY DEF TypeOK
  <2> QED
    BY <2>1 DEF PatchTicket, TicketRow
<1>3. OutcomeOf' = OutcomeOf
  BY <1>2 DEF OutcomeOf
<1> QED
  BY <1>1, <1>2, <1>3 DEF Promise!ovars, InState

-----------------------------------------------------------------------------
\* No step writes a summary on a ticket that does not exist.
LEMMA SummaryStep == OutcomeInv /\ [Next]_vars => NoEarlySummary'
<1> SUFFICES ASSUME OutcomeInv, [Next]_vars PROVE NoEarlySummary'
  OBVIOUS
<1>1. ASSUME UNCHANGED tickets PROVE NoEarlySummary'
  BY <1>1 DEF OutcomeInv, NoEarlySummary
<1> QED
  BY <1>1, CreateOpens, WriteSummarizes, MarkFlags, PatchStutters, OpeningAssumption
     DEF Next, vars, Dispatch, DispatchFails, StartAttempt, ReplyRefused,
         AttemptTimesOut, TaskDies

\* Every step is one of the outcome's, or none.
LEMMA OutcomeStep == OutcomeInv /\ [Next]_vars => [Promise!Next]_(Promise!ovars)
<1> SUFFICES ASSUME OutcomeInv, [Next]_vars PROVE [Promise!Next]_(Promise!ovars)
  OBVIOUS
<1>1. CASE UNCHANGED vars
  BY <1>1 DEF vars, Promise!ovars, OutcomeOf, InState
<1>2. CASE Next
  BY <1>2, CreateOpens, DispatchOutcome, StartAttempts, WriteSummarizes, RetryStutters,
     MarkFlags, DeathLoses, PatchStutters, OpeningAssumption DEF Next
<1> QED
  BY <1>1, <1>2

\* Triage keeps the promise of TriageOutcome, for any number of tickets, replies,
\* updates and faults.
THEOREM TriageImplementsOutcome == Spec => OutcomeSafety
<1>1. Init => NoEarlySummary /\ Promise!Init
  BY DEF Init, NoEarlySummary, NoTicket, NoTask, OutcomeOf, InState, Promise!Init
<1>2. TriageInv /\ NoEarlySummary => OutcomeInv
  BY DEF OutcomeInv
<1>3. Spec => [](TriageInv /\ NoEarlySummary)
  BY <1>1, <1>2, SummaryStep, InitTriage, NextTriage, PTL DEF Spec
<1> QED
  BY <1>1, <1>2, <1>3, OutcomeStep, PTL DEF Spec, OutcomeSafety, Promise!Spec
=============================================================================
