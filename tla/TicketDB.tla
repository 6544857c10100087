------------------------------ MODULE TicketDB ------------------------------
(***************************************************************************)
(* The PostgreSQL tables the ticket desk shares (app/database.py) and the  *)
(* SQL statements the services send to them.  asyncpg runs every statement *)
(* outside an explicit transaction, so each one commits by itself: a       *)
(* statement is an atomic step, a sequence of statements is not.           *)
(*                                                                         *)
(* The columns kept are those that decide control flow: a ticket's status  *)
(* and assignee, a reminder's status, ticket, creator and whether          *)
(* scheduled_for has passed, a note's ticket and author, a notification's  *)
(* reminder and recipient.  No endpoint deletes or deactivates a user,     *)
(* so the users table is constant here (Sessions.tla models its growth).   *)
(***************************************************************************)
EXTENDS Naturals, FiniteSets, Sequences

CONSTANTS
  Users,        \* rows of the users table
  Role,         \* users.role
  IsActive,     \* users.is_active
  Emails,       \* the addresses a request may carry
  EmailOf,      \* users.email
  LowerCase,    \* str.lower() on addresses
  Tickets,      \* ids uuid7() may give a ticket
  Reminders,    \* ids uuid7() may give a reminder
  None,         \* SQL NULL, Python None
  MaxFaults     \* bound: aborted requests and interrupted checks

VARIABLES
  tickets,       \* [Tickets -> row]; status "absent" before the INSERT
  notes,         \* ticket_notes: a set of [ticket_id, author_id]
  reminders,     \* [Reminders -> row]; status "absent" before the INSERT
  notifications, \* [Reminders -> Seq(Users)]: recipients, in INSERT order
  faults,        \* faults so far
  \* History variables: no action's guard reads them.
  everAssigned,  \* [Tickets -> SUBSET Users]: who has held the ticket
  everDone,      \* tickets that have been resolved or closed
  sawActive,     \* reminders that have been scheduled on an active ticket
  quiet          \* reminders that came due on a done ticket not reopened since

dbTables == <<tickets, notes, reminders, notifications>>
history  == <<everAssigned, everDone, sawActive, quiet>>
dbVars   == <<tickets, notes, reminders, notifications, faults,
              everAssigned, everDone, sawActive, quiet>>

-----------------------------------------------------------------------------
Roles            == {"admin", "agent"}
Active           == {"open", "in_progress"}
Done             == {"resolved", "closed"}
Statuses         == Active \cup Done
ReminderStatuses == {"pending", "fired", "cancelled"}

ASSUME UsersAssumption ==
  /\ Role \in [Users -> Roles]
  /\ IsActive \in [Users -> BOOLEAN]
  /\ EmailOf \in [Users -> Emails]
  /\ \A u, v \in Users : EmailOf[u] = EmailOf[v] => u = v   \* UNIQUE
  /\ LowerCase \in [Emails -> Emails]
ASSUME NoneAssumption ==
  None \notin Users \cup Tickets \cup Reminders \cup Emails \cup Statuses
ASSUME FaultsAssumption == MaxFaults \in Nat

NoTicket   == [status |-> "absent", assigned_to |-> None]
NoReminder == [status |-> "absent", ticket_id |-> None,
               created_by_id |-> None, due |-> FALSE]

TicketRow   == [status : Statuses \cup {"absent"},
                assigned_to : Users \cup {None}]
ReminderRow == [status : ReminderStatuses \cup {"absent"},
                ticket_id : Tickets \cup {None},
                created_by_id : Users \cup {None}, due : BOOLEAN]
Note        == [ticket_id : Tickets, author_id : Users]

IsAgent(u)       == Role[u] = "agent"
TicketExists(t)  == tickets[t].status # "absent"
RemindersOf(t)   == {r \in Reminders : reminders[r].ticket_id = t}
PendingOf(t)     == {r \in RemindersOf(t) : reminders[r].status = "pending"}
\* Mutant: reminders that have fired are still due
DueUnlessCancelled == {r \in Reminders : reminders[r].status \in {"pending", "fired"}
                                         /\ reminders[r].due}
\* Mutant: WHERE also asks for an active ticket
DueOnActiveTickets == {r \in Reminders :
  /\ reminders[r].status = "pending"
  /\ reminders[r].due
  /\ tickets[reminders[r].ticket_id].status \in Active}

\* WHERE r.status = 'pending' AND r.scheduled_for <= NOW()
DueReminders     == {r \in Reminders : reminders[r].status = "pending"
                                       /\ reminders[r].due}

DBTypeOK ==
  /\ tickets \in [Tickets -> TicketRow]
  /\ notes \in SUBSET Note
  /\ reminders \in [Reminders -> ReminderRow]
  /\ notifications \in [Reminders -> Seq(Users)]
  /\ faults \in 0..MaxFaults
  /\ everAssigned \in [Tickets -> SUBSET Users]
  /\ everDone \in SUBSET Tickets
  /\ sawActive \in SUBSET Reminders
  /\ quiet \in SUBSET Reminders

DBInit ==
  /\ tickets = [t \in Tickets |-> NoTicket]
  /\ notes = {}
  /\ reminders = [r \in Reminders |-> NoReminder]
  /\ notifications = [r \in Reminders |-> <<>>]
  /\ faults = 0
  /\ everAssigned = [t \in Tickets |-> {}]
  /\ everDone = {}
  /\ sawActive = {}
  /\ quiet = {}

-----------------------------------------------------------------------------
(* The statements.  Each names every table and history variable it writes. *)

\* INSERT INTO tickets (..., 'open', ..., assigned_to_id)
InsertTicket(t, assignee) ==
  /\ ~ TicketExists(t)
  /\ tickets' = [tickets EXCEPT ![t] = [status |-> "open",
                                        assigned_to |-> assignee]]
  /\ everAssigned' = [everAssigned EXCEPT ![t] = @ \cup {assignee}]
  /\ UNCHANGED <<notes, reminders, notifications, faults, everDone, sawActive, quiet>>

\* Mutant: SET status = $1 also when the body has no status
UpdateStatusAlways(t, status, assignee) ==
  /\ tickets' = [tickets EXCEPT ![t].status = status]
  /\ UNCHANGED <<notes, reminders, notifications, faults>>
  /\ UNCHANGED history

\* UPDATE tickets SET ... WHERE id = t, where None leaves a column out of SET
UpdateTicketRow(t, status, assignee) ==
  LET row == [status |-> IF status = None THEN tickets[t].status ELSE status,
              assigned_to |-> IF assignee = None THEN tickets[t].assigned_to
                                                 ELSE assignee]
  IN  /\ tickets' = [tickets EXCEPT ![t] = row]
      /\ everAssigned' = [everAssigned EXCEPT
                            ![t] = @ \cup ({row.assigned_to} \ {None})]
      /\ everDone' = IF row.status \in Done THEN everDone \cup {t} ELSE everDone
      /\ sawActive' = IF row.status \in Active
                        THEN sawActive \cup RemindersOf(t) ELSE sawActive
      /\ quiet' = IF row.status \in Active THEN quiet \ RemindersOf(t) ELSE quiet
      /\ UNCHANGED <<notes, reminders, notifications, faults>>

\* INSERT INTO ticket_notes
InsertNote(t, author) ==
  /\ notes' = notes \cup {[ticket_id |-> t, author_id |-> author]}
  /\ UNCHANGED <<tickets, reminders, notifications, faults>>
  /\ UNCHANGED history

\* INSERT INTO reminders (..., 'pending', ...)
InsertReminder(r, t, creator) ==
  /\ reminders[r].status = "absent"
  /\ reminders' = [reminders EXCEPT
       ![r] = [status |-> "pending", ticket_id |-> t,
               created_by_id |-> creator, due |-> FALSE]]
  /\ sawActive' = IF tickets[t].status \in Active
                    THEN sawActive \cup {r} ELSE sawActive
  /\ UNCHANGED <<tickets, notes, notifications, faults, everAssigned, everDone, quiet>>

\* UPDATE reminders SET status = 'cancelled'
\*   WHERE ticket_id = t AND status = 'pending'
CancelPending(t) ==
  /\ reminders' = [r \in Reminders |->
       IF r \in PendingOf(t) THEN [reminders[r] EXCEPT !.status = "cancelled"]
                             ELSE reminders[r]]
  /\ UNCHANGED <<tickets, notes, notifications, faults>>
  /\ UNCHANGED history

\* UPDATE reminders SET status = ... WHERE id = r: no test of the old status
SetReminderStatus(r, status) ==
  /\ reminders' = [reminders EXCEPT ![r].status = status]
  /\ UNCHANGED <<tickets, notes, notifications, faults>>
  /\ UNCHANGED history

\* INSERT INTO notifications
InsertNotification(r, recipient) ==
  /\ notifications' = [notifications EXCEPT ![r] = Append(@, recipient)]
  /\ UNCHANGED <<tickets, notes, reminders, faults>>
  /\ UNCHANGED history

\* scheduled_for passes: the clock moves over the reminder's due time
PassDueTime(r) ==
  /\ reminders[r].status # "absent"
  /\ ~ reminders[r].due
  /\ reminders' = [reminders EXCEPT ![r].due = TRUE]
  /\ quiet' = IF tickets[reminders[r].ticket_id].status \in Done
                THEN quiet \cup {r} ELSE quiet
  /\ UNCHANGED <<tickets, notes, notifications, faults, everAssigned, everDone, sawActive>>

\* A process or a connection dies: only its own unfinished work is lost
Fault ==
  /\ faults < MaxFaults
  /\ faults' = faults + 1
  /\ UNCHANGED dbTables
  /\ UNCHANGED history
=============================================================================
