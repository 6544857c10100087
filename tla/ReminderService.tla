-------------------------- MODULE ReminderService ---------------------------
(***************************************************************************)
(* check_due_reminders_task (app/tasks/reminders.py) and the loop it runs, *)
(* ReminderService.process_due_reminders.  Celery Beat enqueues the task   *)
(* every 30 seconds whether or not the last one has ended, so checks may   *)
(* overlap: Slots is how many can run at once.                             *)
(*                                                                         *)
(* A check SELECTs the due reminders with their ticket's status and        *)
(* assignee, then goes through those rows, in the order the unordered      *)
(* SELECT gave them, with one or two statements for each.  run[s][r] is    *)
(* the row of reminder r that check s still holds.                         *)
(***************************************************************************)
EXTENDS TicketDB

CONSTANT Slots

VARIABLE run

ASSUME SlotsAssumption == IsFiniteSet(Slots)

NoRow == [stage |-> "none", ticket_status |-> "absent", assigned_to |-> None]
RunRow == [stage : {"none", "fetched", "fired"},
           ticket_status : Statuses \cup {"absent"},
           assigned_to : Users \cup {None}]

RunTypeOK == run \in [Slots -> [Reminders -> RunRow]]
RunInit   == run = [s \in Slots |-> [r \in Reminders |-> NoRow]]

Holds(s, r) == run[s][r].stage # "none"
Busy(s)     == \E r \in Reminders : Holds(s, r)
\* check s is between two rows: no reminder fired whose notification is due
BetweenRows(s) == \A r \in Reminders : run[s][r].stage # "fired"

Release(s, r) == run' = [run EXCEPT ![s][r] = NoRow]

\* the join of reminders and tickets the check works from until it ends
DueRow(r) ==
  IF r \in DueReminders
    THEN [stage |-> "fetched",
          ticket_status |-> tickets[reminders[r].ticket_id].status,
          assigned_to |-> tickets[reminders[r].ticket_id].assigned_to]
    ELSE NoRow

\* Mutant: the creator is told
CreatorOf(s, r) == reminders[r].created_by_id

\* "Notify assignee, or reminder creator if unassigned"
Recipient(s, r) == IF run[s][r].assigned_to = None THEN reminders[r].created_by_id
                                                   ELSE run[s][r].assigned_to

-----------------------------------------------------------------------------
\* A reminder's time comes
ComeDue(r) == PassDueTime(r) /\ UNCHANGED run

\* The task starts and fetches; with no row it ends at once and nothing changes
StartCheck(s) ==
  /\ ~ Busy(s)
  /\ DueReminders # {}
  /\ run' = [run EXCEPT ![s] = [r \in Reminders |-> DueRow(r)]]
  /\ UNCHANGED dbVars

\* Mutant: the row's ticket status is not looked at
CancelAnyRow(s, r) ==
  /\ run[s][r].stage = "fetched"
  /\ BetweenRows(s)
  /\ SetReminderStatus(r, "cancelled")
  /\ Release(s, r)

\* Mutant: a reminder of a done ticket is passed over
SkipRow(s, r) ==
  /\ run[s][r].stage = "fetched"
  /\ BetweenRows(s)
  /\ run[s][r].ticket_status \in Done
  /\ Release(s, r)
  /\ UNCHANGED dbVars

\* The row said resolved or closed: cancel, by id alone
CancelRow(s, r) ==
  /\ run[s][r].stage = "fetched"
  /\ BetweenRows(s)
  /\ run[s][r].ticket_status \in Done
  /\ SetReminderStatus(r, "cancelled")
  /\ Release(s, r)

\* Mutant: the row's ticket status is not looked at
FireAnyRow(s, r) ==
  /\ run[s][r].stage = "fetched"
  /\ BetweenRows(s)
  /\ SetReminderStatus(r, "fired")
  /\ run' = [run EXCEPT ![s][r].stage = "fired"]

\* Mutant: fires and goes on to the next row
FireInSilence(s, r) ==
  /\ run[s][r].stage = "fetched"
  /\ BetweenRows(s)
  /\ run[s][r].ticket_status \notin Done
  /\ SetReminderStatus(r, "fired")
  /\ Release(s, r)

\* Mutant: announces without marking the reminder fired
AnnounceOnly(s, r) ==
  /\ run[s][r].stage = "fetched"
  /\ BetweenRows(s)
  /\ run[s][r].ticket_status \notin Done
  /\ InsertNotification(r, Recipient(s, r))
  /\ Release(s, r)

\* The row said active: fire, by id alone
FireRow(s, r) ==
  /\ run[s][r].stage = "fetched"
  /\ BetweenRows(s)
  /\ run[s][r].ticket_status \notin Done
  /\ SetReminderStatus(r, "fired")
  /\ run' = [run EXCEPT ![s][r].stage = "fired"]

\* ... and then insert the notification
NotifyRow(s, r) ==
  /\ run[s][r].stage = "fired"
  /\ InsertNotification(r, Recipient(s, r))
  /\ Release(s, r)

\* Mutant: an interrupted check puts its rows back to pending
AbortRequeues(s) ==
  /\ Busy(s)
  /\ faults < MaxFaults
  /\ faults' = faults + 1
  /\ reminders' = [r \in Reminders |->
       IF Holds(s, r) THEN [reminders[r] EXCEPT !.status = "pending"]
                      ELSE reminders[r]]
  /\ run' = [run EXCEPT ![s] = [r \in Reminders |-> NoRow]]
  /\ UNCHANGED <<tickets, notes, notifications>>
  /\ UNCHANGED history

\* A statement raises, the time limit strikes or the worker dies: the task's
\* handler returns 0 and the rows it held wait for the next check
AbortCheck(s) ==
  /\ Busy(s)
  /\ Fault
  /\ run' = [run EXCEPT ![s] = [r \in Reminders |-> NoRow]]

RowStep(s, r) == CancelRow(s, r) \/ FireRow(s, r) \/ NotifyRow(s, r)

CheckerNext ==
  \/ \E r \in Reminders : ComeDue(r)
  \/ \E s \in Slots :
       \/ StartCheck(s)
       \/ \E r \in Reminders : CancelRow(s, r)
       \/ \E r \in Reminders : FireRow(s, r)
       \/ \E r \in Reminders : NotifyRow(s, r)
       \/ AbortCheck(s)
=============================================================================
