------------------------- MODULE ReminderLifecycle --------------------------
(***************************************************************************)
(* What the scheduler promises about a reminder, without tickets, requests *)
(* or checks: it is scheduled once, leaves "pending" once and for good,    *)
(* and is announced only afterwards, at most MaxDeliveries times.  A due   *)
(* reminder does not stay pending.                                         *)
(***************************************************************************)
EXTENDS Naturals

CONSTANTS
  Reminders,      \* reminder ids
  MaxDeliveries   \* how often one reminder may be announced

VARIABLES
  stage,          \* [Reminders -> {"absent", "pending", "settled"}]
  delivered       \* [Reminders -> 0..MaxDeliveries]

lifecycleVars == <<stage, delivered>>

LifecycleInit ==
  /\ stage = [r \in Reminders |-> "absent"]
  /\ delivered = [r \in Reminders |-> 0]

\* POST /tickets/{id}/reminders
Schedule(r) ==
  /\ stage[r] = "absent"
  /\ stage' = [stage EXCEPT ![r] = "pending"]
  /\ UNCHANGED delivered

\* One statement fires one reminder, or cancels some or all of a ticket's
Settle(S) ==
  /\ S # {}
  /\ \A r \in S : stage[r] = "pending"
  /\ stage' = [r \in Reminders |-> IF r \in S THEN "settled" ELSE stage[r]]
  /\ UNCHANGED delivered

\* A notification reaches the log
Deliver(r) ==
  /\ stage[r] = "settled"
  /\ delivered[r] < MaxDeliveries
  /\ delivered' = [delivered EXCEPT ![r] = @ + 1]
  /\ UNCHANGED stage

LifecycleNext ==
  \/ \E r \in Reminders : Schedule(r) \/ Deliver(r)
  \/ \E S \in SUBSET Reminders : Settle(S)

LifecycleSpec == LifecycleInit /\ [][LifecycleNext]_lifecycleVars

\* Every reminder that is scheduled gets settled
LifecycleFairSpec ==
  /\ LifecycleSpec
  /\ \A r \in Reminders :
       WF_lifecycleVars(\E S \in SUBSET Reminders : r \in S /\ Settle(S))
=============================================================================
