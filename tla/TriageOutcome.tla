---------------------------- MODULE TriageOutcome ----------------------------
(***************************************************************************)
(* What triage promises of a ticket, without workers, replies and retries: *)
(* it waits until an attempt triages it or the last one fails and it is    *)
(* flagged for a human.  A flag is the last word.  A task may be lost, and *)
(* with it whatever the ticket still waited for.                           *)
(***************************************************************************)
EXTENDS Naturals

CONSTANTS
  Tickets,
  MaxAttempts  \* max_retries + 1

VARIABLES
  outcome,     \* [Tickets -> outcome]
  attempts,    \* [Tickets -> attempts begun]
  alive,       \* tickets whose task may still do something
  lost         \* tickets whose task was lost

ovars == <<outcome, attempts, alive, lost>>

Init ==
  /\ outcome = [t \in Tickets |-> "absent"]
  /\ attempts = [t \in Tickets |-> 0]
  /\ alive = {}
  /\ lost = {}

\* The ticket is created, and its task with it
Open(t) ==
  /\ outcome[t] = "absent"
  /\ outcome' = [outcome EXCEPT ![t] = "waiting"]
  /\ alive' = alive \cup {t}
  /\ UNCHANGED <<attempts, lost>>

\* One more attempt, of a bounded number; it decides nothing yet
Attempt(t) ==
  /\ t \in alive
  /\ attempts[t] < MaxAttempts
  /\ attempts' = [attempts EXCEPT ![t] = @ + 1]
  /\ UNCHANGED <<outcome, alive, lost>>

\* A result is written; usually that is the end of the task, but one that fails
\* afterwards goes on
Summarize(t) ==
  /\ t \in alive
  /\ attempts[t] > 0
  /\ outcome' = [outcome EXCEPT ![t] = "triaged"]
  /\ alive' \in {alive, alive \ {t}}
  /\ UNCHANGED <<attempts, lost>>

\* No attempt is left: a human is asked, also about what an attempt wrote
Flag(t) ==
  /\ t \in alive
  /\ attempts[t] = MaxAttempts
  /\ outcome' = [outcome EXCEPT ![t] = "flagged"]
  /\ alive' = alive \ {t}
  /\ UNCHANGED <<attempts, lost>>

\* The task is lost
Lose(t) ==
  /\ t \in alive
  /\ alive' = alive \ {t}
  /\ lost' = lost \cup {t}
  /\ UNCHANGED <<outcome, attempts>>

Next ==
  \E t \in Tickets : Open(t) \/ Attempt(t) \/ Summarize(t) \/ Flag(t) \/ Lose(t)

Spec == Init /\ [][Next]_ovars

\* A task that is not lost gets somewhere
FairSpec ==
  Spec /\ \A t \in Tickets : WF_ovars(Attempt(t) \/ Summarize(t) \/ Flag(t))
=============================================================================
