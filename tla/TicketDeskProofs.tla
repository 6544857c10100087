-------------------------- MODULE TicketDeskProofs --------------------------
(***************************************************************************)
(* Proofs about TicketDesk, for any users, tickets, reminders, requests    *)
(* and slots.                                                              *)
(***************************************************************************)
EXTENDS TicketDesk, FiniteSetTheorems, TLAPS

-----------------------------------------------------------------------------
(* Types: each SQL statement keeps the tables' types. *)

\* INSERT INTO tickets keeps the types.
LEMMA InsertTicketType ==
  ASSUME DBTypeOK, NEW t \in Tickets, NEW u \in Users, InsertTicket(t, u)
  PROVE  DBTypeOK'
<1>1. [status |-> "open", assigned_to |-> u] \in TicketRow
  BY DEF TicketRow, Statuses, Active
<1> QED
  BY <1>1 DEF DBTypeOK, InsertTicket

\* UPDATE tickets keeps the types.
LEMMA UpdateTicketType ==
  ASSUME DBTypeOK, NEW t \in Tickets, NEW status \in Statuses \cup {None},
         NEW u \in Users \cup {None}, UpdateTicketRow(t, status, u)
  PROVE  DBTypeOK'
<1> DEFINE row == [status |-> IF status = None THEN tickets[t].status ELSE status,
                   assigned_to |-> IF u = None THEN tickets[t].assigned_to ELSE u]
<1>1. row \in TicketRow
  BY DEF DBTypeOK, TicketRow
<1>2. tickets' \in [Tickets -> TicketRow]
  BY <1>1 DEF DBTypeOK, UpdateTicketRow
<1>3. row.assigned_to \in Users \cup {None}
  BY <1>1 DEF TicketRow
<1>4. everAssigned' \in [Tickets -> SUBSET Users]
  <2>1. everAssigned' = [everAssigned EXCEPT ![t] = @ \cup ({row.assigned_to} \ {None})]
    BY DEF UpdateTicketRow
  <2>2. everAssigned[t] \cup ({row.assigned_to} \ {None}) \in SUBSET Users
    BY <1>3 DEF DBTypeOK
  <2> QED
    BY <2>1, <2>2 DEF DBTypeOK
<1>5. everDone' \in SUBSET Tickets /\ sawActive' \in SUBSET Reminders
      /\ quiet' \in SUBSET Reminders
  BY DEF DBTypeOK, UpdateTicketRow, RemindersOf
<1> QED
  BY <1>2, <1>4, <1>5 DEF DBTypeOK, UpdateTicketRow

\* INSERT INTO ticket_notes keeps the types.
LEMMA InsertNoteType ==
  ASSUME DBTypeOK, NEW t \in Tickets, NEW u \in Users, InsertNote(t, u)
  PROVE  DBTypeOK'
BY DEF DBTypeOK, InsertNote, Note, history

\* INSERT INTO reminders keeps the types.
LEMMA InsertReminderType ==
  ASSUME DBTypeOK, NEW r \in Reminders, NEW t \in Tickets, NEW u \in Users,
         InsertReminder(r, t, u)
  PROVE  DBTypeOK'
<1>1. [status |-> "pending", ticket_id |-> t, created_by_id |-> u, due |-> FALSE]
        \in ReminderRow
  BY DEF ReminderRow, ReminderStatuses
<1> QED
  BY <1>1 DEF DBTypeOK, InsertReminder

\* UPDATE reminders ... WHERE ticket_id = $1 keeps the types.
LEMMA CancelPendingType ==
  ASSUME DBTypeOK, NEW t \in Tickets, CancelPending(t)
  PROVE  DBTypeOK'
<1>1. \A r \in Reminders : [reminders[r] EXCEPT !.status = "cancelled"] \in ReminderRow
  BY DEF DBTypeOK, ReminderRow, ReminderStatuses
<1> QED
  BY <1>1 DEF DBTypeOK, CancelPending, history

\* UPDATE reminders ... WHERE id = $1 keeps the types.
LEMMA SetReminderStatusType ==
  ASSUME DBTypeOK, NEW r \in Reminders, NEW status \in ReminderStatuses,
         SetReminderStatus(r, status)
  PROVE  DBTypeOK'
<1>1. [reminders[r] EXCEPT !.status = status] \in ReminderRow
  BY DEF DBTypeOK, ReminderRow
<1> QED
  BY <1>1 DEF DBTypeOK, SetReminderStatus, history

\* INSERT INTO notifications keeps the types.
LEMMA InsertNotificationType ==
  ASSUME DBTypeOK, NEW r \in Reminders, NEW u \in Users, InsertNotification(r, u)
  PROVE  DBTypeOK'
<1>1. Append(notifications[r], u) \in Seq(Users)
  BY DEF DBTypeOK
<1> QED
  BY <1>1 DEF DBTypeOK, InsertNotification, history

\* Time passing keeps the types.
LEMMA PassDueTimeType ==
  ASSUME DBTypeOK, NEW r \in Reminders, PassDueTime(r)
  PROVE  DBTypeOK'
<1>1. [reminders[r] EXCEPT !.due = TRUE] \in ReminderRow
  BY DEF DBTypeOK, ReminderRow
<1>2. quiet' \in SUBSET Reminders
  BY DEF DBTypeOK, PassDueTime
<1> QED
  BY <1>1, <1>2 DEF DBTypeOK, PassDueTime

\* A fault keeps the types.
LEMMA FaultType == DBTypeOK /\ Fault => DBTypeOK'
BY FaultsAssumption DEF DBTypeOK, Fault, dbTables, history

\* A step that touches no table keeps the types.
LEMMA UnchangedType == DBTypeOK /\ UNCHANGED dbVars => DBTypeOK'
BY DEF DBTypeOK, dbVars

\* A handler that ends leaves its slot empty.
LEMMA FinishType ==
  ASSUME RequestTypeOK, NEW q \in Requests, Finish(q)
  PROVE  RequestTypeOK'
<1>1. NoRequest \in RequestRow
  BY DEF NoRequest, RequestRow, Operations
<1> QED
  BY <1>1 DEF RequestTypeOK, Finish

\* A check's row, and an empty one, are rows.
LEMMA RowsType ==
  ASSUME TypeOK
  PROVE  /\ NoRow \in RunRow
         /\ \A r \in Reminders : reminders[r].ticket_id \in Tickets => DueRow(r) \in RunRow
<1>1. NoRow \in RunRow
  BY DEF NoRow, RunRow
<1>2. ASSUME NEW r \in Reminders, reminders[r].ticket_id \in Tickets
      PROVE  DueRow(r) \in RunRow
  BY <1>1, <1>2 DEF DueRow, RunRow, TypeOK, DBTypeOK, TicketRow
<1> QED
  BY <1>1, <1>2

\* Handlers and patches: what Admit stores has the type of a request.
LEMMA AdmitType ==
  ASSUME TypeOK, NEW q \in Requests, NEW op \in Operations, NEW u \in Users,
         NEW t \in Tickets, NEW status \in Statuses \cup {None},
         NEW v \in Users \cup {None}, Admit(q, op, u, t, status, v)
  PROVE  DBTypeOK' /\ RequestTypeOK'
<1>1. [pc |-> "write", op |-> op, user |-> u, ticket |-> t, status |-> status,
       assignee |-> v] \in RequestRow
  BY DEF RequestRow
<1>2. RequestTypeOK'
  BY <1>1 DEF Admit, TypeOK, RequestTypeOK
<1> QED
  BY <1>2, UnchangedType DEF Admit, TypeOK

\* Type correctness is kept by every step (and needs the invariant for the
\* ticket of a due reminder and of a request).
LEMMA TypeStep ==
  ASSUME IInv, [Next]_vars
  PROVE  TypeOK'
<1> USE DEF IInv
<1>0. CASE UNCHANGED vars
  BY <1>0, UnchangedType DEF vars, dbVars, TypeOK, RequestTypeOK, RunTypeOK
<1>1. ASSUME RequestNext, UNCHANGED run
      PROVE  TypeOK'
  <2>0. RunTypeOK'
    BY <1>1 DEF TypeOK, RunTypeOK
  <2>1. ASSUME NEW u \in Users, NEW t \in Tickets, NEW e \in Emails \cup {None},
               CreateTicket(u, t, e)
        PROVE  DBTypeOK' /\ RequestTypeOK'
    BY <2>1, InsertTicketType DEF CreateTicket, TypeOK, RequestTypeOK
  <2>2. ASSUME NEW q \in Requests, NEW u \in Users, NEW t \in Tickets,
               NEW patch \in Patches, StartUpdate(q, u, t, patch)
        PROVE  DBTypeOK' /\ RequestTypeOK'
    <3>1. patch.status \in Statuses \cup {None}
      BY PatchesAssumption
    <3> QED
      BY <2>2, <3>1, AdmitType DEF StartUpdate, Operations
  <2>3. ASSUME NEW q \in Requests, NEW u \in Users, NEW t \in Tickets,
               StartNote(q, u, t) \/ StartReminder(q, u, t)
        PROVE  DBTypeOK' /\ RequestTypeOK'
    BY <2>3, AdmitType DEF StartNote, StartReminder, Operations
  <2>4. ASSUME NEW q \in Requests, UpdateTicket(q)
        PROVE  DBTypeOK' /\ RequestTypeOK'
    <3>1. /\ req[q].ticket \in Tickets
          /\ req[q].status \in Statuses \cup {None}
          /\ req[q].assignee \in Users \cup {None}
      BY <2>4 DEF UpdateTicket, HandlersInv, TypeOK, RequestTypeOK, RequestRow
    <3>2. DBTypeOK'
      BY <2>4, <3>1, UpdateTicketType DEF UpdateTicket, TypeOK
    <3>3. [req[q] EXCEPT !.pc = "cancel"] \in RequestRow
      BY DEF TypeOK, RequestTypeOK, RequestRow
    <3>4. RequestTypeOK'
      <4>1. CASE req[q].status \in Done
        BY <2>4, <3>3, <4>1 DEF UpdateTicket, TypeOK, RequestTypeOK
      <4>2. CASE req[q].status \notin Done
        BY <2>4, <4>2, FinishType DEF UpdateTicket, TypeOK
      <4> QED
        BY <4>1, <4>2
    <3> QED
      BY <3>2, <3>4
  <2>5. ASSUME NEW q \in Requests, CancelReminders(q)
        PROVE  DBTypeOK' /\ RequestTypeOK'
    BY <2>5, CancelPendingType, FinishType DEF CancelReminders, HandlersInv, TypeOK
  <2>6. ASSUME NEW q \in Requests, CreateNote(q)
        PROVE  DBTypeOK' /\ RequestTypeOK'
    BY <2>6, InsertNoteType, FinishType DEF CreateNote, HandlersInv, TypeOK
  <2>7. ASSUME NEW q \in Requests, NEW r \in Reminders, CreateReminder(q, r)
        PROVE  DBTypeOK' /\ RequestTypeOK'
    BY <2>7, InsertReminderType, FinishType DEF CreateReminder, HandlersInv, TypeOK
  <2>8. ASSUME NEW q \in Requests, AbortRequest(q)
        PROVE  DBTypeOK' /\ RequestTypeOK'
    BY <2>8, FaultType, FinishType DEF AbortRequest, TypeOK
  <2> QED
    BY <1>1, <2>0, <2>1, <2>2, <2>3, <2>4, <2>5, <2>6, <2>7, <2>8 DEF RequestNext, TypeOK
<1>2. ASSUME CheckerNext, UNCHANGED req
      PROVE  TypeOK'
  <2>0. RequestTypeOK' /\ NoRow \in RunRow
    BY <1>2, RowsType DEF TypeOK, RequestTypeOK
  <2>1. ASSUME NEW r \in Reminders, ComeDue(r)
        PROVE  DBTypeOK' /\ RunTypeOK'
    BY <2>1, PassDueTimeType DEF ComeDue, TypeOK, RunTypeOK
  <2>2. ASSUME NEW s \in Slots, StartCheck(s)
        PROVE  DBTypeOK' /\ RunTypeOK'
    <3>1. \A r \in Reminders : DueRow(r) \in RunRow
      BY <2>0, RowsType DEF DueRow, DueReminders, RemindersInv
    <3> QED
      BY <2>2, <3>1, UnchangedType DEF StartCheck, TypeOK, RunTypeOK
  <2>3. ASSUME NEW s \in Slots, NEW r \in Reminders, CancelRow(s, r)
        PROVE  DBTypeOK' /\ RunTypeOK'
    <3>1. DBTypeOK'
      BY <2>3, SetReminderStatusType DEF CancelRow, TypeOK, ReminderStatuses
    <3> QED
      BY <2>3, <2>0, <3>1 DEF CancelRow, Release, TypeOK, RunTypeOK
  <2>4. ASSUME NEW s \in Slots, NEW r \in Reminders, FireRow(s, r)
        PROVE  DBTypeOK' /\ RunTypeOK'
    <3>1. DBTypeOK'
      BY <2>4, SetReminderStatusType DEF FireRow, TypeOK, ReminderStatuses
    <3>2. [run[s][r] EXCEPT !.stage = "fired"] \in RunRow
      <4>1. run[s][r] \in RunRow
        BY DEF TypeOK, RunTypeOK
      <4> QED
        BY <4>1 DEF RunRow
    <3>3. [run[s] EXCEPT ![r] = [run[s][r] EXCEPT !.stage = "fired"]]
            \in [Reminders -> RunRow]
      BY <3>2 DEF TypeOK, RunTypeOK
    <3>4. run' = [run EXCEPT ![s] = [run[s] EXCEPT ![r] =
                    [run[s][r] EXCEPT !.stage = "fired"]]]
      BY <2>4 DEF FireRow
    <3> QED
      BY <3>1, <3>3, <3>4 DEF TypeOK, RunTypeOK
  <2>5. ASSUME NEW s \in Slots, NEW r \in Reminders, NotifyRow(s, r)
        PROVE  DBTypeOK' /\ RunTypeOK'
    <3>1. Recipient(s, r) \in Users
      BY <2>5 DEF NotifyRow, Recipient, ChecksInv, RemindersInv, Holds, TypeOK,
                  DBTypeOK, RunTypeOK, RunRow
    <3> QED
      BY <2>5, <2>0, <3>1, InsertNotificationType
      DEF NotifyRow, Release, TypeOK, RunTypeOK
  <2>6. ASSUME NEW s \in Slots, AbortCheck(s)
        PROVE  DBTypeOK' /\ RunTypeOK'
    BY <2>6, <2>0, FaultType DEF AbortCheck, TypeOK, RunTypeOK
  <2> QED
    BY <1>2, <2>0, <2>1, <2>2, <2>3, <2>4, <2>5, <2>6 DEF CheckerNext, TypeOK
<1> QED
  BY <1>0, <1>1, <1>2 DEF Next

\* Setting the status column leaves the other columns of a reminder alone.
LEMMA StatusColumn ==
  ASSUME NEW row \in ReminderRow, NEW status, NEW new,
         new = [row EXCEPT !.status = status]
  PROVE  /\ new.status = status
         /\ new.ticket_id = row.ticket_id
         /\ new.created_by_id = row.created_by_id
         /\ new.due = row.due
BY DEF ReminderRow

-----------------------------------------------------------------------------
(* The steps of the API *)

\* A new ticket has no reminder, note, handler or check yet.
LEMMA CreateTicketStep ==
  ASSUME IInv, TypeOK', NEW u \in Users, NEW t \in Tickets,
         NEW e \in Emails \cup {None}, CreateTicket(u, t, e), UNCHANGED run
  PROVE  IInv'
<1> USE DEF IInv
<1>1. PICK v \in Users : InsertTicket(t, v)
  BY DEF CreateTicket
<1>2. /\ tickets' = [tickets EXCEPT ![t] = [status |-> "open", assigned_to |-> v]]
      /\ everAssigned' = [everAssigned EXCEPT ![t] = @ \cup {v}]
      /\ ~ TicketExists(t)
      /\ UNCHANGED <<notes, reminders, notifications, faults, everDone,
                     sawActive, quiet, req, run>>
  BY <1>1 DEF InsertTicket, CreateTicket
<1>3. \A x \in Tickets : /\ everAssigned[x] \subseteq everAssigned'[x]
                         /\ TicketExists(x) => TicketExists(x)' /\ tickets'[x] = tickets[x]
  BY <1>2 DEF TypeOK, DBTypeOK, TicketExists
<1>4. TicketsInv'
  BY <1>2 DEF TicketsInv, TypeOK, DBTypeOK, TicketExists, Done
<1>5. RemindersInv'
  BY <1>2, <1>3 DEF RemindersInv
<1>6. HandlersInv'
  BY <1>2, <1>3 DEF HandlersInv, TypeOK, RequestTypeOK
<1>7. ChecksInv'
  BY <1>2, <1>3 DEF ChecksInv, Holds, RemindersInv
<1>8. QuietInv'
  BY <1>2, <1>3 DEF QuietInv, RemindersInv, TypeOK, DBTypeOK
<1>9. RecipientsHeldTicket'
  BY <1>2, <1>3 DEF RecipientsHeldTicket, RemindersInv, TypeOK, DBTypeOK
<1>10. AgentsHeldTicket'
  BY <1>2, <1>3 DEF AgentsHeldTicket, RemindersInv, TypeOK, DBTypeOK, Note
<1>11. ResolvedLeavesNonePending'
  BY <1>2, <1>3 DEF ResolvedLeavesNonePending, RemindersInv, Cancelling, TypeOK, DBTypeOK
<1>12. NotifyBound' /\ CancelledHadDoneTicket' /\ FiredIsAnnounced'
  BY <1>2 DEF NotifyBound, CancelledHadDoneTicket, FiredIsAnnounced, Holding, Holds
<1> QED
  BY <1>4, <1>5, <1>6, <1>7, <1>8, <1>9, <1>10, <1>11, <1>12

\* What no step of a handler, apart from its own statement, can disturb: the
\* invariants that read no handler, when only req changes.
LEMMA OnlyRequestsChange ==
  ASSUME IInv, UNCHANGED dbVars, UNCHANGED run
  PROVE  /\ TicketsInv' /\ RemindersInv' /\ ChecksInv' /\ QuietInv' /\ NotifyBound'
         /\ CancelledHadDoneTicket' /\ RecipientsHeldTicket' /\ AgentsHeldTicket'
         /\ FiredIsAnnounced'
BY DEF IInv, dbVars, TicketsInv, RemindersInv, ChecksInv, QuietInv, NotifyBound,
       CancelledHadDoneTicket, RecipientsHeldTicket, AgentsHeldTicket,
       FiredIsAnnounced, TicketExists, Holds, Holding

\* A handler that passed get_ticket works on a ticket its user holds now.
LEMMA AdmitStep ==
  ASSUME IInv, TypeOK', NEW q \in Requests, NEW op \in Operations, NEW u \in Users,
         NEW t \in Tickets, NEW status, NEW v,
         Admit(q, op, u, t, status, v), UNCHANGED run
  PROVE  IInv'
<1> USE DEF IInv
<1>1. /\ req' = [req EXCEPT ![q] = [pc |-> "write", op |-> op, user |-> u,
                                    ticket |-> t, status |-> status, assignee |-> v]]
      /\ UNCHANGED dbVars
      /\ req[q].pc = "idle"
      /\ TicketExists(t)
      /\ IsAgent(u) => tickets[t].assigned_to = u
  BY DEF Admit, MayAccess
<1>2. HandlersInv'
  <2>1. u \in everAssigned[t] \/ ~ IsAgent(u)
    BY <1>1 DEF TicketsInv
  <2>2. \A p \in Requests \ {q} : req'[p] = req[p]
    BY <1>1 DEF TypeOK, RequestTypeOK
  <2>3. req'[q] = [pc |-> "write", op |-> op, user |-> u, ticket |-> t,
                   status |-> status, assignee |-> v]
    BY <1>1 DEF TypeOK, RequestTypeOK
  <2> QED
    BY <1>1, <2>1, <2>2, <2>3 DEF HandlersInv, TicketExists, dbVars
<1>3. ResolvedLeavesNonePending'
  <2>1. \A x : Cancelling(x)' = Cancelling(x)
    BY <1>1 DEF Cancelling, TypeOK, RequestTypeOK
  <2> QED
    BY <1>1, <2>1 DEF ResolvedLeavesNonePending, dbVars
<1> QED
  BY <1>1, <1>2, <1>3, OnlyRequestsChange

\* The UPDATE keeps the history ahead of the ticket, and the request that
\* resolves a ticket goes on to cancel.
LEMMA UpdateTicketStep ==
  ASSUME IInv, TypeOK', NEW q \in Requests, UpdateTicket(q), UNCHANGED run
  PROVE  IInv'
<1> USE DEF IInv
<1> DEFINE t == req[q].ticket
           row == [status |-> IF req[q].status = None THEN tickets[t].status
                                                      ELSE req[q].status,
                   assigned_to |-> IF req[q].assignee = None
                                     THEN tickets[t].assigned_to
                                     ELSE req[q].assignee]
<1>1. /\ tickets' = [tickets EXCEPT ![t] = row]
      /\ everAssigned' = [everAssigned EXCEPT ![t] = @ \cup ({row.assigned_to} \ {None})]
      /\ everDone' = IF row.status \in Done THEN everDone \cup {t} ELSE everDone
      /\ sawActive' = IF row.status \in Active THEN sawActive \cup RemindersOf(t)
                                               ELSE sawActive
      /\ quiet' = IF row.status \in Active THEN quiet \ RemindersOf(t) ELSE quiet
      /\ UNCHANGED <<notes, reminders, notifications, faults, run>>
  BY DEF UpdateTicket, UpdateTicketRow
<1>2. /\ t \in Tickets
      /\ TicketExists(t)
      /\ req[q].status \in Statuses \cup {None}
      /\ req[q].assignee \in Users \cup {None}
  BY DEF UpdateTicket, HandlersInv, TypeOK, RequestTypeOK, RequestRow
<1>3. /\ row.status \in Statuses
      /\ row.assigned_to \in Users
      /\ tickets[t].status \in Done /\ row.status \notin Done => row.status \in Active
      /\ row.status \in Done => row.status \notin Active
  <2>1. tickets[t].status \in Statuses /\ tickets[t].assigned_to \in Users
    BY <1>2 DEF TypeOK, DBTypeOK, TicketRow, TicketExists, TicketsInv
  <2> QED
    BY <1>2, <2>1 DEF Statuses, Active, Done
<1>4. \A x \in Tickets : /\ everAssigned[x] \subseteq everAssigned'[x]
                         /\ TicketExists(x) => TicketExists(x)'
                         /\ x # t => tickets'[x] = tickets[x]
  BY <1>1, <1>2, <1>3 DEF TypeOK, DBTypeOK, TicketExists, Statuses, Active, Done
<1>5. /\ tickets'[t] = row
      /\ row.assigned_to \in everAssigned'[t]
      /\ everDone \subseteq everDone'
      /\ row.status \in Done => t \in everDone'
      /\ quiet' \subseteq quiet
  BY <1>1, <1>2, <1>3, NoneAssumption DEF TypeOK, DBTypeOK
<1>6. /\ \A p \in Requests \ {q} : req'[p] = req[p]
      /\ row.status \in Done /\ req[q].status # None
           => req'[q] = [req[q] EXCEPT !.pc = "cancel"]
      /\ req[q].status \notin Done => req'[q] = NoRequest
  BY <1>2 DEF UpdateTicket, Finish, TypeOK, RequestTypeOK
<1>7. TicketsInv'
  BY <1>4, <1>5 DEF TicketsInv, TicketExists
<1>8. RemindersInv'
  <2>1. \A r \in RemindersOf(t) : reminders[r].status # "absent"
    BY <1>2, NoneAssumption DEF RemindersOf, RemindersInv, NoReminder
  <2> QED
    BY <1>1, <1>4, <2>1 DEF RemindersInv
<1>9. HandlersInv'
  <2>1. ASSUME NEW p \in Requests \ {q}, req'[p].pc # "idle"
        PROVE  /\ req'[p].user \in Users
               /\ req'[p].ticket \in Tickets
               /\ tickets'[req'[p].ticket].status # "absent"
               /\ IsAgent(req'[p].user) => req'[p].user \in everAssigned'[req'[p].ticket]
               /\ req'[p].pc = "cancel" => req'[p].ticket \in everDone'
    BY <1>4, <1>5, <1>6, <2>1 DEF HandlersInv, TicketExists
  <2>2. req'[q].pc # "idle" =>
          /\ req'[q].user = req[q].user
          /\ req'[q].ticket = t
          /\ row.status \in Done
    BY <1>2, <1>6, NoneAssumption DEF NoRequest, Statuses, TypeOK, RequestTypeOK, RequestRow
  <2>3. req[q].user \in Users
        /\ (IsAgent(req[q].user) => req[q].user \in everAssigned[t])
    BY DEF HandlersInv, UpdateTicket
  <2> QED
    BY <1>2, <1>4, <1>5, <2>1, <2>2, <2>3 DEF HandlersInv, TicketExists
<1>10. ChecksInv'
  <2> SUFFICES ASSUME NEW s \in Slots, NEW r \in Reminders, Holds(s, r)
               PROVE  /\ run[s][r].assigned_to \in everAssigned'[reminders[r].ticket_id]
                      /\ run[s][r].ticket_status \in Done
                           => reminders[r].ticket_id \in everDone'
                      /\ r \in quiet' => run[s][r].ticket_status \in Done
    BY <1>1 DEF ChecksInv, Holds
  <2> QED
    BY <1>4, <1>5 DEF ChecksInv, RemindersInv
<1>11. QuietInv'
  <2> SUFFICES ASSUME NEW r \in quiet'
               PROVE  tickets'[reminders[r].ticket_id].status \in Done
    BY <1>1, <1>5 DEF QuietInv
  <2>1. r \in quiet /\ reminders[r].ticket_id \in Tickets
    BY <1>5 DEF QuietInv, RemindersInv, TypeOK, DBTypeOK
  <2>2. reminders[r].ticket_id = t => row.status \notin Active
    BY <1>1, <2>1 DEF RemindersOf, TypeOK, DBTypeOK
  <2> QED
    BY <1>3, <1>4, <1>5, <2>1, <2>2 DEF QuietInv
<1>12. ResolvedLeavesNonePending'
  <2> SUFFICES ASSUME NEW r \in sawActive', reminders[r].status = "pending",
                      tickets'[reminders[r].ticket_id].status \in Done,
                      ~ (faults > 0)
               PROVE  \E p \in Requests : /\ req'[p].pc = "cancel"
                                          /\ req'[p].ticket = reminders[r].ticket_id
    BY <1>1 DEF ResolvedLeavesNonePending, Cancelling
  <2> DEFINE x == reminders[r].ticket_id
  <2>1. r \in Reminders /\ x \in Tickets
    BY DEF RemindersInv, TypeOK, DBTypeOK
  <2>2. CASE x = t /\ req[q].status # None
    <3>1. row.status \in Done
      BY <1>5, <2>2
    <3>2. req'[q].pc = "cancel" /\ req'[q].ticket = t
      <4>1. req[q] \in RequestRow
        BY DEF TypeOK, RequestTypeOK
      <4>2. req'[q] = [req[q] EXCEPT !.pc = "cancel"]
        BY <1>6, <2>2, <3>1
      <4> QED
        BY <4>1, <4>2 DEF RequestRow
    <3> QED
      BY <2>2, <3>2
  <2>3. CASE x # t \/ req[q].status = None
    <3>1. tickets[x].status \in Done
      BY <1>4, <1>5, <2>1, <2>3
    <3>2. r \in sawActive
      BY <1>1, <1>5, <1>3, <2>1, <2>3 DEF RemindersOf
    <3>0. Cancelling(x) # {}
      BY <3>1, <3>2 DEF ResolvedLeavesNonePending
    <3>3. PICK p \in Requests : req[p].pc = "cancel" /\ req[p].ticket = x
      BY <3>0 DEF Cancelling
    <3>4. p # q
      BY <3>3 DEF UpdateTicket
    <3> QED
      BY <1>6, <3>3, <3>4
  <2> QED
    BY <2>2, <2>3
<1>13. NotifyBound' /\ FiredIsAnnounced'
  BY <1>1 DEF NotifyBound, FiredIsAnnounced, Holding, Holds
<1>14. CancelledHadDoneTicket'
  BY <1>1, <1>5 DEF CancelledHadDoneTicket
<1>15. RecipientsHeldTicket'
  BY <1>1, <1>4 DEF RecipientsHeldTicket, RemindersInv
<1>16. AgentsHeldTicket'
  BY <1>1, <1>4 DEF AgentsHeldTicket, RemindersInv, TypeOK, DBTypeOK, Note
<1> QED
  BY <1>7, <1>8, <1>9, <1>10, <1>11, <1>12, <1>13, <1>14, <1>15, <1>16

\* A handler that ends, by finishing or dying, leaves no work behind except
\* the cancel it owed.
LEMMA FinishStep ==
  ASSUME IInv, NEW q \in Requests, Finish(q),
         \A t \in Tickets : /\ everAssigned[t] \subseteq everAssigned'[t]
                            /\ TicketExists(t) => TicketExists(t)',
         everDone \subseteq everDone'
  PROVE  /\ HandlersInv'
         /\ \A p \in Requests \ {q} : req'[p] = req[p]
         /\ req'[q].pc = "idle"
<1>1. /\ \A p \in Requests \ {q} : req'[p] = req[p]
      /\ req'[q] = NoRequest
  BY DEF Finish, IInv, TypeOK, RequestTypeOK
<1>2. req'[q].pc = "idle"
  BY <1>1 DEF NoRequest
<1>3. ASSUME NEW p \in Requests, req'[p].pc # "idle"
      PROVE  /\ req'[p].user \in Users
             /\ req'[p].ticket \in Tickets
             /\ tickets'[req'[p].ticket].status # "absent"
             /\ IsAgent(req'[p].user) => req'[p].user \in everAssigned'[req'[p].ticket]
             /\ req'[p].pc = "cancel" => req'[p].ticket \in everDone'
  BY <1>1, <1>2, <1>3 DEF HandlersInv, IInv, TicketExists
<1> QED
  BY <1>1, <1>2, <1>3 DEF HandlersInv, TicketExists

\* The eager cancel leaves none of the ticket's reminders pending.
LEMMA CancelRemindersStep ==
  ASSUME IInv, TypeOK', NEW q \in Requests, CancelReminders(q), UNCHANGED run
  PROVE  IInv'
<1> USE DEF IInv
<1> DEFINE t == req[q].ticket
<1>1. /\ UNCHANGED <<tickets, notes, notifications, faults, everAssigned,
                     everDone, sawActive, quiet, run>>
      /\ req[q].pc = "cancel"
      /\ Finish(q)
  BY DEF CancelReminders, CancelPending, history
<1>2. /\ \A r \in PendingOf(t) : reminders'[r] = [reminders[r] EXCEPT !.status = "cancelled"]
      /\ \A r \in Reminders \ PendingOf(t) : reminders'[r] = reminders[r]
  BY DEF CancelReminders, CancelPending, PendingOf, RemindersOf
<1>3. \A r \in Reminders : reminders[r] \in ReminderRow
  BY DEF TypeOK, DBTypeOK
<1>4. \A r \in PendingOf(t) : /\ reminders[r].status = "pending"
                              /\ reminders[r].ticket_id = t
                              /\ reminders'[r].status = "cancelled"
  BY <1>2, <1>3 DEF PendingOf, RemindersOf, ReminderRow
<1>5. \A r \in Reminders : /\ reminders'[r].ticket_id = reminders[r].ticket_id
                           /\ reminders'[r].created_by_id = reminders[r].created_by_id
                           /\ reminders'[r].due = reminders[r].due
  <2> TAKE r \in Reminders
  <2>1. CASE r \in PendingOf(t)
    <3>1. reminders'[r] = [reminders[r] EXCEPT !.status = "cancelled"]
      BY <1>2, <2>1
    <3>2. reminders[r] \in ReminderRow
      BY <1>3
    <3> QED
      BY <3>1, <3>2, StatusColumn
  <2>2. CASE r \notin PendingOf(t)
    BY <1>2, <2>2
  <2> QED
    BY <2>1, <2>2
<1>6. t \in Tickets /\ t \in everDone
  BY <1>1 DEF HandlersInv
<1>7. TicketsInv'
  BY <1>1 DEF TicketsInv, TicketExists
<1>8. RemindersInv'
  BY <1>1, <1>2, <1>4, <1>5 DEF RemindersInv, TicketExists
<1>9. /\ HandlersInv'
      /\ \A p \in Requests \ {q} : req'[p] = req[p]
  BY <1>1, FinishStep DEF TicketExists
<1>10. ChecksInv'
  BY <1>1, <1>2, <1>4, <1>5 DEF ChecksInv, Holds
<1>11. QuietInv'
  BY <1>1, <1>2, <1>4, <1>5 DEF QuietInv, TypeOK, DBTypeOK
<1>12. ResolvedLeavesNonePending'
  <2> SUFFICES ASSUME NEW r \in sawActive, reminders'[r].status = "pending",
                      tickets[reminders[r].ticket_id].status \in Done,
                      ~ (faults > 0)
               PROVE  \E p \in Requests : /\ req'[p].pc = "cancel"
                                          /\ req'[p].ticket = reminders[r].ticket_id
    BY <1>1, <1>5 DEF ResolvedLeavesNonePending, Cancelling, TypeOK, DBTypeOK
  <2>1. r \in Reminders /\ r \notin PendingOf(t)
    BY <1>4 DEF TypeOK, DBTypeOK
  <2>2. reminders[r].status = "pending" /\ reminders[r].ticket_id # t
    BY <1>2, <2>1 DEF PendingOf, RemindersOf
  <2>3. Cancelling(reminders[r].ticket_id) # {}
    BY <2>2 DEF ResolvedLeavesNonePending
  <2> QED
    BY <1>9, <2>2, <2>3 DEF Cancelling
<1>13. NotifyBound' /\ FiredIsAnnounced'
  BY <1>1, <1>2, <1>4 DEF NotifyBound, FiredIsAnnounced, Holding, Holds
<1>14. CancelledHadDoneTicket'
  BY <1>1, <1>2, <1>4, <1>5, <1>6 DEF CancelledHadDoneTicket
<1>15. RecipientsHeldTicket'
  BY <1>1, <1>5 DEF RecipientsHeldTicket
<1>16. AgentsHeldTicket'
  BY <1>1, <1>2, <1>4, <1>5 DEF AgentsHeldTicket
<1> QED
  BY <1>7, <1>8, <1>9, <1>10, <1>11, <1>12, <1>13, <1>14, <1>15, <1>16
\* The note's author passed get_ticket, so an agent among them held the ticket.
LEMMA CreateNoteStep ==
  ASSUME IInv, TypeOK', NEW q \in Requests, CreateNote(q), UNCHANGED run
  PROVE  IInv'
<1> USE DEF IInv
<1>1. /\ UNCHANGED <<tickets, reminders, notifications, faults, everAssigned,
                     everDone, sawActive, quiet, run>>
      /\ notes' = notes \cup {[ticket_id |-> req[q].ticket, author_id |-> req[q].user]}
      /\ req[q].pc = "write"
      /\ Finish(q)
  BY DEF CreateNote, InsertNote, history
<1>2. HandlersInv' /\ \A p \in Requests \ {q} : req'[p] = req[p]
  BY <1>1, FinishStep DEF TicketExists
<1>3. ResolvedLeavesNonePending'
  BY <1>1, <1>2 DEF ResolvedLeavesNonePending, Cancelling
<1>4. AgentsHeldTicket'
  <2>1. IsAgent(req[q].user) => req[q].user \in everAssigned[req[q].ticket]
    BY <1>1 DEF HandlersInv
  <2> QED
    BY <1>1, <2>1 DEF AgentsHeldTicket
<1>5. /\ TicketsInv' /\ RemindersInv' /\ ChecksInv' /\ QuietInv' /\ NotifyBound'
      /\ CancelledHadDoneTicket' /\ RecipientsHeldTicket' /\ FiredIsAnnounced'
  BY <1>1
  DEF TicketsInv, RemindersInv, ChecksInv, QuietInv, NotifyBound,
      CancelledHadDoneTicket, RecipientsHeldTicket, FiredIsAnnounced,
      TicketExists, Holds, Holding
<1> QED
  BY <1>2, <1>3, <1>4, <1>5

\* A new reminder is pending, on a ticket its creator held, and in no check.
LEMMA CreateReminderStep ==
  ASSUME IInv, TypeOK', NEW q \in Requests, NEW r \in Reminders,
         CreateReminder(q, r), UNCHANGED run
  PROVE  IInv'
<1> USE DEF IInv
<1> DEFINE t == req[q].ticket
           row == [status |-> "pending", ticket_id |-> t,
                   created_by_id |-> req[q].user, due |-> FALSE]
<1>1. /\ reminders[r].status = "absent"
      /\ reminders' = [reminders EXCEPT ![r] = row]
      /\ sawActive' = IF tickets[t].status \in Active THEN sawActive \cup {r}
                                                      ELSE sawActive
      /\ UNCHANGED <<tickets, notes, notifications, faults, everAssigned,
                     everDone, quiet, run>>
      /\ req[q].pc = "write"
      /\ Finish(q)
  BY DEF CreateReminder, InsertReminder
<1>2. reminders'[r] = row /\ \A x \in Reminders \ {r} : reminders'[x] = reminders[x]
  BY <1>1 DEF TypeOK, DBTypeOK
<1>3. /\ HandlersInv'
      /\ \A p \in Requests \ {q} : req'[p] = req[p]
  BY <1>1, FinishStep DEF TicketExists
<1>4. /\ t \in Tickets
      /\ TicketExists(t)
      /\ req[q].user \in Users
      /\ IsAgent(req[q].user) => req[q].user \in everAssigned[t]
  BY <1>1 DEF HandlersInv
<1>5. /\ r \notin quiet
      /\ r \notin sawActive
      /\ notifications[r] = <<>>
      /\ \A s \in Slots : ~ Holds(s, r)
  BY <1>1 DEF RemindersInv, ChecksInv
<1>6. TicketsInv'
  BY <1>1 DEF TicketsInv, TicketExists
<1>7. RemindersInv'
  <2>1. \A x \in Reminders \ {r} : x \in sawActive' => x \in sawActive
    BY <1>1
  <2> QED
    BY <1>1, <1>2, <1>4, <1>5, <2>1 DEF RemindersInv, TicketExists
<1>8. ChecksInv'
  BY <1>1, <1>2, <1>5 DEF ChecksInv, Holds
<1>9. QuietInv'
  BY <1>1, <1>2, <1>5 DEF QuietInv, TypeOK, DBTypeOK
<1>10. ResolvedLeavesNonePending'
  <2> SUFFICES ASSUME NEW x \in sawActive', reminders'[x].status = "pending",
                      tickets[reminders'[x].ticket_id].status \in Done,
                      ~ (faults > 0)
               PROVE  \E p \in Requests : /\ req'[p].pc = "cancel"
                                          /\ req'[p].ticket = reminders'[x].ticket_id
    BY <1>1 DEF ResolvedLeavesNonePending, Cancelling
  <2>1. x # r
    BY <1>1, <1>2, <1>5 DEF Active, Done
  <2>2. x \in sawActive /\ reminders'[x] = reminders[x]
    BY <1>1, <1>2, <2>1 DEF TypeOK, DBTypeOK
  <2>3. Cancelling(reminders[x].ticket_id) # {}
    BY <2>2 DEF ResolvedLeavesNonePending
  <2> QED
    BY <1>1, <1>3, <2>2, <2>3 DEF Cancelling
<1>11. NotifyBound'
  BY <1>1 DEF NotifyBound, Holding, Holds
<1>12. FiredIsAnnounced'
  BY <1>1, <1>2 DEF FiredIsAnnounced
<1>13. CancelledHadDoneTicket'
  BY <1>1, <1>2 DEF CancelledHadDoneTicket
<1>14. RecipientsHeldTicket'
  <2>1. Len(notifications[r]) = 0
    BY <1>5
  <2> QED
    BY <1>1, <1>2, <2>1 DEF RecipientsHeldTicket
<1>15. AgentsHeldTicket'
  BY <1>1, <1>2, <1>4 DEF AgentsHeldTicket
<1> QED
  BY <1>3, <1>6, <1>7, <1>8, <1>9, <1>10, <1>11, <1>12, <1>13, <1>14, <1>15

\* A request that dies may leave its ticket's reminders pending: a fault.
LEMMA AbortRequestStep ==
  ASSUME IInv, TypeOK', NEW q \in Requests, AbortRequest(q), UNCHANGED run
  PROVE  IInv'
<1> USE DEF IInv
<1>1. /\ UNCHANGED <<tickets, notes, reminders, notifications, everAssigned,
                     everDone, sawActive, quiet, run>>
      /\ faults' = faults + 1
      /\ Finish(q)
  BY DEF AbortRequest, Fault, dbTables, history
<1>2. faults' > 0
  BY <1>1, FaultsAssumption DEF TypeOK, DBTypeOK
<1>3. HandlersInv'
  BY <1>1, FinishStep DEF TicketExists
<1>4. /\ TicketsInv' /\ RemindersInv' /\ ChecksInv' /\ QuietInv' /\ NotifyBound'
      /\ CancelledHadDoneTicket' /\ RecipientsHeldTicket' /\ AgentsHeldTicket'
  BY <1>1
  DEF TicketsInv, RemindersInv, ChecksInv, QuietInv, NotifyBound,
      CancelledHadDoneTicket, RecipientsHeldTicket, AgentsHeldTicket,
      TicketExists, Holds, Holding
<1>5. ResolvedLeavesNonePending' /\ FiredIsAnnounced'
  BY <1>2 DEF ResolvedLeavesNonePending, FiredIsAnnounced
<1> QED
  BY <1>3, <1>4, <1>5
-----------------------------------------------------------------------------
(* The steps of the scheduler *)

\* A reminder that comes due is in no check yet; on a done ticket it is quiet.
LEMMA ComeDueStep ==
  ASSUME IInv, TypeOK', NEW r \in Reminders, ComeDue(r), UNCHANGED req
  PROVE  IInv'
<1> USE DEF IInv
<1> DEFINE t == reminders[r].ticket_id
<1>1. /\ reminders[r].status # "absent"
      /\ ~ reminders[r].due
      /\ reminders' = [reminders EXCEPT ![r].due = TRUE]
      /\ quiet' = IF tickets[t].status \in Done THEN quiet \cup {r} ELSE quiet
      /\ UNCHANGED <<tickets, notes, notifications, faults, everAssigned,
                     everDone, sawActive, run, req>>
  BY DEF ComeDue, PassDueTime
<1>2. /\ \A x \in Reminders \ {r} : reminders'[x] = reminders[x]
      /\ reminders'[r].due
      /\ \A x \in Reminders : /\ reminders'[x].status = reminders[x].status
                             /\ reminders'[x].ticket_id = reminders[x].ticket_id
                             /\ reminders'[x].created_by_id = reminders[x].created_by_id
  <2>1. reminders \in [Reminders -> ReminderRow]
    BY DEF TypeOK, DBTypeOK
  <2> QED
    BY <1>1, <2>1 DEF ReminderRow
<1>3. \A s \in Slots : ~ Holds(s, r)
  BY <1>1 DEF ChecksInv
<1>4. TicketsInv' /\ HandlersInv'
  BY <1>1 DEF TicketsInv, HandlersInv, TicketExists
<1>5. RemindersInv'
  BY <1>1, <1>2 DEF RemindersInv, TicketExists
<1>6. ChecksInv'
  BY <1>1, <1>2, <1>3 DEF ChecksInv, Holds
<1>7. QuietInv'
  <2>1. ASSUME tickets[t].status \in Done
        PROVE  reminders[r].status # "fired" /\ notifications[r] = <<>>
    BY <1>1 DEF RemindersInv
  <2> QED
    BY <1>1, <1>2, <2>1 DEF QuietInv
<1>8. NotifyBound' /\ FiredIsAnnounced' /\ CancelledHadDoneTicket'
  BY <1>1, <1>2 DEF NotifyBound, FiredIsAnnounced, CancelledHadDoneTicket, Holding, Holds
<1>9. RecipientsHeldTicket' /\ AgentsHeldTicket'
  BY <1>1, <1>2 DEF RecipientsHeldTicket, AgentsHeldTicket
<1>10. ResolvedLeavesNonePending'
  BY <1>1, <1>2 DEF ResolvedLeavesNonePending, Cancelling, TypeOK, DBTypeOK
<1> QED
  BY <1>4, <1>5, <1>6, <1>7, <1>8, <1>9, <1>10
\* Only finitely many checks hold a reminder: no more than there are slots.
LEMMA HoldingFinite ==
  ASSUME NEW r \in Reminders
  PROVE  /\ IsFiniteSet(Holding(r)) /\ Cardinality(Holding(r)) \in Nat
         /\ IsFiniteSet(Holding(r)') /\ Cardinality(Holding(r)') \in Nat
         /\ Cardinality(Slots) \in Nat
         /\ Cardinality(Holding(r)) <= Cardinality(Slots)
         /\ Cardinality(Holding(r)') <= Cardinality(Slots)
<1>1. Holding(r) \in SUBSET Slots /\ Holding(r)' \in SUBSET Slots
  BY DEF Holding
<1>2. IsFiniteSet(Holding(r)) /\ IsFiniteSet(Holding(r)')
      /\ Cardinality(Holding(r)) <= Cardinality(Slots)
      /\ Cardinality(Holding(r)') <= Cardinality(Slots)
  BY <1>1, SlotsAssumption, FS_Subset
<1>3. Cardinality(Holding(r)) \in Nat
  BY <1>2, FS_CardinalityType
<1>4. Cardinality(Holding(r)') \in Nat
  BY <1>2, FS_CardinalityType
<1>5. Cardinality(Slots) \in Nat
  BY SlotsAssumption, FS_CardinalityType
<1> QED
  BY <1>2, <1>3, <1>4, <1>5

\* Letting go of one row of one check changes no other row.
LEMMA ReleaseRow ==
  ASSUME TypeOK, NEW s \in Slots, NEW r \in Reminders, Holds(s, r), Release(s, r)
  PROVE  /\ \A s1 \in Slots, r1 \in Reminders :
              s1 # s \/ r1 # r => run'[s1][r1] = run[s1][r1]
         /\ run'[s][r].stage = "none"
         /\ Cardinality(Holding(r)') = Cardinality(Holding(r)) - 1
         /\ \A r1 \in Reminders \ {r} : Holding(r1)' = Holding(r1)
<1>1. run' = [run EXCEPT ![s][r] = NoRow] /\ run \in [Slots -> [Reminders -> RunRow]]
  BY DEF Release, TypeOK, RunTypeOK
<1>2. \A s1 \in Slots, r1 \in Reminders :
        run'[s1][r1] = IF s1 = s /\ r1 = r THEN NoRow ELSE run[s1][r1]
  BY <1>1
<1>3. Holding(r)' = Holding(r) \ {s} /\ s \in Holding(r)
  BY <1>2 DEF Holding, Holds, NoRow
<1>4. Cardinality(Holding(r)') = Cardinality(Holding(r)) - 1
  BY <1>3, HoldingFinite, FS_RemoveElement
<1>5. \A r1 \in Reminders \ {r} : Holding(r1)' = Holding(r1)
  BY <1>2 DEF Holding, Holds
<1> QED
  BY <1>2, <1>4, <1>5 DEF NoRow

\* A check that starts reads rows that are true at that moment; it had none.
LEMMA StartCheckStep ==
  ASSUME IInv, TypeOK', NEW s \in Slots, StartCheck(s), UNCHANGED req
  PROVE  IInv'
<1> USE DEF IInv
<1>1. /\ UNCHANGED dbVars
      /\ UNCHANGED req
      /\ \A s1 \in Slots \ {s} : run'[s1] = run[s1]
      /\ \A r \in Reminders : run'[s][r] = DueRow(r) /\ run[s][r].stage = "none"
  BY DEF StartCheck, Busy, Holds, TypeOK, RunTypeOK
<1>2. \A r \in Reminders : r \notin DueReminders => ~ Holds(s, r)'
  <2>1. NoRow.stage = "none"
    BY DEF NoRow
  <2>2. \A r \in Reminders : r \notin DueReminders => run'[s][r] = NoRow
    BY <1>1 DEF DueRow
  <2> QED
    BY <2>1, <2>2 DEF Holds
<1>3. ChecksInv'
  <2> SUFFICES ASSUME NEW s1 \in Slots, NEW r \in Reminders, Holds(s1, r)'
               PROVE  LET row == run'[s1][r]  t == reminders[r].ticket_id IN
                        /\ reminders[r].status # "absent"
                        /\ reminders[r].due
                        /\ row.assigned_to \in everAssigned[t]
                        /\ row.ticket_status \in Done => t \in everDone
                        /\ r \in quiet => row.ticket_status \in Done
                        /\ row.stage = "fired" => /\ row.ticket_status \notin Done
                                                  /\ reminders[r].status # "pending"
    BY <1>1 DEF ChecksInv, dbVars
  <2>1. CASE s1 # s
    BY <1>1, <2>1 DEF ChecksInv, Holds
  <2>2. CASE s1 = s
    <3> DEFINE t == reminders[r].ticket_id
    <3>1. r \in DueReminders
      BY <1>2, <2>2
    <3>2. run'[s1][r] = [stage |-> "fetched", ticket_status |-> tickets[t].status,
                         assigned_to |-> tickets[t].assigned_to]
      BY <1>1, <2>2, <3>1 DEF DueRow
    <3>3. reminders[r].status = "pending" /\ reminders[r].due
      BY <3>1 DEF DueReminders
    <3>4. /\ t \in Tickets
          /\ tickets[t].assigned_to \in everAssigned[t]
          /\ tickets[t].status \in Done => t \in everDone
      BY <3>3 DEF RemindersInv, TicketsInv
    <3>5. r \in quiet => tickets[t].status \in Done
      BY DEF QuietInv
    <3> QED
      BY <3>2, <3>3, <3>4, <3>5
  <2> QED
    BY <2>1, <2>2
<1>4. NotifyBound'
  <2> SUFFICES ASSUME NEW r \in Reminders
               PROVE  Len(notifications[r]) + Cardinality(Holding(r)')
                        <= Cardinality(Slots)
    BY <1>1 DEF NotifyBound, dbVars
  <2>1. CASE r \in DueReminders
    <3>1. Len(notifications[r]) = 0
      BY <2>1 DEF DueReminders, RemindersInv
    <3> QED
      BY <3>1, HoldingFinite
  <2>2. CASE r \notin DueReminders
    <3>1. Holding(r)' = Holding(r)
      BY <1>1, <1>2, <2>2 DEF Holding, Holds
    <3> QED
      BY <3>1 DEF NotifyBound
  <2> QED
    BY <2>1, <2>2
<1>5. FiredIsAnnounced'
  <2>1. \A s1 \in Slots, r \in Reminders :
          run[s1][r].stage = "fired" => run'[s1][r].stage = "fired"
    BY <1>1
  <2> QED
    BY <1>1, <2>1 DEF FiredIsAnnounced, dbVars
<1>6. /\ TicketsInv' /\ RemindersInv' /\ HandlersInv' /\ QuietInv'
      /\ CancelledHadDoneTicket' /\ RecipientsHeldTicket' /\ AgentsHeldTicket'
      /\ ResolvedLeavesNonePending'
  BY <1>1
  DEF dbVars, TicketsInv, RemindersInv, HandlersInv, QuietInv,
      CancelledHadDoneTicket, RecipientsHeldTicket, AgentsHeldTicket,
      ResolvedLeavesNonePending, TicketExists, Cancelling
<1> QED
  BY <1>3, <1>4, <1>5, <1>6

\* One statement of a check sets a reminder's status: what does not depend on
\* which status it is, when the reminder is held and so exists.
LEMMA SetStatusStep ==
  ASSUME IInv, NEW r \in Reminders, NEW status \in {"fired", "cancelled"},
         SetReminderStatus(r, status), reminders[r].status # "absent",
         reminders[r].due, UNCHANGED req
  PROVE  /\ UNCHANGED <<tickets, notes, notifications, faults, everAssigned,
                        everDone, sawActive, quiet>>
         /\ \A x \in Reminders \ {r} : reminders'[x] = reminders[x]
         /\ reminders'[r].status = status
         /\ \A x \in Reminders :
              /\ reminders'[x].ticket_id = reminders[x].ticket_id
              /\ reminders'[x].created_by_id = reminders[x].created_by_id
              /\ reminders'[x].due = reminders[x].due
         /\ TicketsInv' /\ RemindersInv' /\ HandlersInv'
         /\ RecipientsHeldTicket' /\ AgentsHeldTicket' /\ ResolvedLeavesNonePending'
<1> USE DEF IInv
<1>1. /\ UNCHANGED <<tickets, notes, notifications, faults, everAssigned,
                     everDone, sawActive, quiet>>
      /\ reminders' = [reminders EXCEPT ![r].status = status]
  BY DEF SetReminderStatus, history
<1>2. reminders \in [Reminders -> ReminderRow]
  BY DEF TypeOK, DBTypeOK
<1>3. /\ \A x \in Reminders \ {r} : reminders'[x] = reminders[x]
      /\ reminders'[r] = [reminders[r] EXCEPT !.status = status]
  BY <1>1, <1>2
<1>4. /\ reminders'[r].status = status
      /\ reminders'[r].ticket_id = reminders[r].ticket_id
      /\ reminders'[r].created_by_id = reminders[r].created_by_id
      /\ reminders'[r].due = reminders[r].due
  BY <1>2, <1>3, StatusColumn
<1>5. TicketsInv' /\ HandlersInv'
  BY <1>1 DEF TicketsInv, HandlersInv, TicketExists
<1>6. RemindersInv'
  BY <1>1, <1>3, <1>4 DEF RemindersInv, TicketExists
<1>7. RecipientsHeldTicket' /\ AgentsHeldTicket'
  BY <1>1, <1>3, <1>4 DEF RecipientsHeldTicket, AgentsHeldTicket
<1>8. ResolvedLeavesNonePending'
  BY <1>1, <1>3, <1>4 DEF ResolvedLeavesNonePending, Cancelling, TypeOK, DBTypeOK
<1> QED
  BY <1>1, <1>3, <1>4, <1>5, <1>6, <1>7, <1>8

\* The row said the ticket was done, so it once was.
LEMMA CancelRowStep ==
  ASSUME IInv, TypeOK', NEW s \in Slots, NEW r \in Reminders, CancelRow(s, r),
         UNCHANGED req
  PROVE  IInv'
<1> USE DEF IInv
<1>1. /\ Holds(s, r)
      /\ run[s][r].ticket_status \in Done
      /\ SetReminderStatus(r, "cancelled")
      /\ Release(s, r)
  BY DEF CancelRow, Holds
<1>2. /\ reminders[r].status # "absent"
      /\ reminders[r].due
      /\ reminders[r].ticket_id \in everDone
  BY <1>1 DEF ChecksInv
<1>3. /\ UNCHANGED <<tickets, notes, notifications, faults, everAssigned,
                     everDone, sawActive, quiet>>
      /\ \A x \in Reminders \ {r} : reminders'[x] = reminders[x]
      /\ reminders'[r].status = "cancelled"
      /\ \A x \in Reminders :
           /\ reminders'[x].ticket_id = reminders[x].ticket_id
           /\ reminders'[x].created_by_id = reminders[x].created_by_id
           /\ reminders'[x].due = reminders[x].due
      /\ TicketsInv' /\ RemindersInv' /\ HandlersInv'
      /\ RecipientsHeldTicket' /\ AgentsHeldTicket' /\ ResolvedLeavesNonePending'
  BY <1>1, <1>2, SetStatusStep
<1>4. /\ \A s1 \in Slots, r1 \in Reminders :
           s1 # s \/ r1 # r => run'[s1][r1] = run[s1][r1]
      /\ run'[s][r].stage = "none"
      /\ Cardinality(Holding(r)') = Cardinality(Holding(r)) - 1
      /\ \A r1 \in Reminders \ {r} : Holding(r1)' = Holding(r1)
  BY <1>1, ReleaseRow
<1>5. ChecksInv'
  BY <1>3, <1>4 DEF ChecksInv, Holds
<1>6. QuietInv'
  BY <1>3 DEF QuietInv, TypeOK, DBTypeOK
<1>7. NotifyBound'
  <2> SUFFICES ASSUME NEW x \in Reminders
               PROVE  Len(notifications[x]) + Cardinality(Holding(x)')
                        <= Cardinality(Slots)
    BY <1>3 DEF NotifyBound
  <2>1. Len(notifications[x]) \in Nat
    BY DEF TypeOK, DBTypeOK
  <2> QED
    BY <1>4, <2>1, HoldingFinite DEF NotifyBound
<1>8. CancelledHadDoneTicket'
  BY <1>2, <1>3 DEF CancelledHadDoneTicket
<1>9. FiredIsAnnounced'
  BY <1>3, <1>4 DEF FiredIsAnnounced
<1> QED
  BY <1>3, <1>5, <1>6, <1>7, <1>8, <1>9

\* The row said the ticket was active, so the reminder is not quiet.
LEMMA FireRowStep ==
  ASSUME IInv, TypeOK', NEW s \in Slots, NEW r \in Reminders, FireRow(s, r),
         UNCHANGED req
  PROVE  IInv'
<1> USE DEF IInv
<1>1. /\ Holds(s, r)
      /\ run[s][r].ticket_status \notin Done
      /\ SetReminderStatus(r, "fired")
      /\ run' = [run EXCEPT ![s][r].stage = "fired"]
  BY DEF FireRow, Holds
<1>2. /\ reminders[r].status # "absent"
      /\ reminders[r].due
      /\ r \notin quiet
  BY <1>1 DEF ChecksInv
<1>3. /\ UNCHANGED <<tickets, notes, notifications, faults, everAssigned,
                     everDone, sawActive, quiet>>
      /\ \A x \in Reminders \ {r} : reminders'[x] = reminders[x]
      /\ reminders'[r].status = "fired"
      /\ \A x \in Reminders :
           /\ reminders'[x].ticket_id = reminders[x].ticket_id
           /\ reminders'[x].created_by_id = reminders[x].created_by_id
           /\ reminders'[x].due = reminders[x].due
      /\ TicketsInv' /\ RemindersInv' /\ HandlersInv'
      /\ RecipientsHeldTicket' /\ AgentsHeldTicket' /\ ResolvedLeavesNonePending'
  BY <1>1, <1>2, SetStatusStep
<1>4. /\ \A s1 \in Slots, r1 \in Reminders :
           s1 # s \/ r1 # r => run'[s1][r1] = run[s1][r1]
      /\ run'[s][r].stage = "fired"
      /\ run'[s][r].ticket_status = run[s][r].ticket_status
      /\ run'[s][r].assigned_to = run[s][r].assigned_to
  <2>1. run \in [Slots -> [Reminders -> RunRow]]
    BY DEF TypeOK, RunTypeOK
  <2>2. run'[s][r] = [run[s][r] EXCEPT !.stage = "fired"] /\ run[s][r] \in RunRow
    BY <1>1, <2>1
  <2> QED
    BY <1>1, <2>1, <2>2 DEF RunRow
<1>5. ChecksInv'
  <2>1. ASSUME NEW s1 \in Slots, NEW r1 \in Reminders, s1 # s \/ r1 # r, Holds(s1, r1)'
        PROVE  /\ Holds(s1, r1)
               /\ run'[s1][r1] = run[s1][r1]
               /\ r1 = r => reminders'[r1].status # "absent"
    BY <1>3, <1>4, <2>1 DEF Holds
  <2>2. ASSUME NEW s1 \in Slots, NEW r1 \in Reminders, s1 = s /\ r1 = r
        PROVE  /\ run'[s1][r1].assigned_to \in everAssigned[reminders[r1].ticket_id]
               /\ run'[s1][r1].ticket_status \notin Done
    BY <1>1, <1>4, <2>2 DEF ChecksInv
  <2> QED
    BY <1>2, <1>3, <1>4, <2>1, <2>2 DEF ChecksInv
<1>6. QuietInv'
  BY <1>2, <1>3 DEF QuietInv, TypeOK, DBTypeOK
<1>7. NotifyBound'
  <2>1. \A x \in Reminders : Holding(x)' = Holding(x)
    BY <1>1, <1>4 DEF Holding, Holds
  <2> QED
    BY <1>3, <2>1 DEF NotifyBound
<1>8. CancelledHadDoneTicket'
  BY <1>3 DEF CancelledHadDoneTicket
<1>9. FiredIsAnnounced'
  BY <1>3, <1>4 DEF FiredIsAnnounced
<1> QED
  BY <1>3, <1>5, <1>6, <1>7, <1>8, <1>9
\* What appending one recipient to a log of users makes of it.
LEMMA AppendOne ==
  ASSUME NEW S, NEW log \in Seq(S), NEW e \in S
  PROVE  /\ Len(Append(log, e)) = Len(log) + 1
         /\ Len(log) \in Nat
         /\ Append(log, e) # <<>>
         /\ \A i \in 1..Len(Append(log, e)) :
              Append(log, e)[i] = e
                \/ (i \in 1..Len(log) /\ Append(log, e)[i] = log[i])
<1>1. Len(log) \in Nat /\ Len(Append(log, e)) = Len(log) + 1
  OBVIOUS
<1>2. Append(log, e) # <<>>
  BY <1>1
<1>3. \A i \in 1..Len(log) : Append(log, e)[i] = log[i]
  OBVIOUS
<1>4. Append(log, e)[Len(log) + 1] = e
  OBVIOUS
<1> QED
  BY <1>1, <1>2, <1>3, <1>4

\* The notification goes to the assignee the row named, who held the ticket.
LEMMA NotifyRowStep ==
  ASSUME IInv, TypeOK', NEW s \in Slots, NEW r \in Reminders, NotifyRow(s, r),
         UNCHANGED req
  PROVE  IInv'
<1> USE DEF IInv
<1> DEFINE u == Recipient(s, r)
           t == reminders[r].ticket_id
<1>1. /\ Holds(s, r)
      /\ run[s][r].stage = "fired"
      /\ notifications' = [notifications EXCEPT ![r] = Append(@, u)]
      /\ UNCHANGED <<tickets, notes, reminders, faults, everAssigned, everDone,
                     sawActive, quiet, req>>
      /\ Release(s, r)
  BY DEF NotifyRow, Holds, InsertNotification, history
<1>2. /\ reminders[r].status \notin {"absent", "pending"}
      /\ reminders[r].due
      /\ r \notin quiet
      /\ run[s][r].assigned_to \in everAssigned[t]
      /\ t \in Tickets
  BY <1>1 DEF ChecksInv, RemindersInv
<1>3. u \in everAssigned[t] /\ u \in Users
  <2>1. everAssigned[t] \subseteq Users
    BY <1>2 DEF TypeOK, DBTypeOK
  <2> QED
    BY <1>2, <2>1, NoneAssumption DEF Recipient
<1>4. /\ \A s1 \in Slots, r1 \in Reminders :
           s1 # s \/ r1 # r => run'[s1][r1] = run[s1][r1]
      /\ run'[s][r].stage = "none"
      /\ Cardinality(Holding(r)') = Cardinality(Holding(r)) - 1
      /\ \A r1 \in Reminders \ {r} : Holding(r1)' = Holding(r1)
  BY <1>1, ReleaseRow
<1>5. /\ \A x \in Reminders \ {r} : notifications'[x] = notifications[x]
      /\ notifications[r] \in Seq(Users)
      /\ notifications'[r] = Append(notifications[r], u)
  BY <1>1 DEF TypeOK, DBTypeOK
<1>6. /\ Len(notifications'[r]) = Len(notifications[r]) + 1
      /\ Len(notifications[r]) \in Nat
      /\ notifications'[r] # <<>>
      /\ \A i \in 1..Len(notifications'[r]) :
           notifications'[r][i] = u
             \/ (i \in 1..Len(notifications[r])
                   /\ notifications'[r][i] = notifications[r][i])
  BY <1>3, <1>5, AppendOne
<1>7. TicketsInv' /\ HandlersInv'
  BY <1>1 DEF TicketsInv, HandlersInv, TicketExists
<1>8. RemindersInv'
  BY <1>1, <1>2, <1>5 DEF RemindersInv, TicketExists
<1>9. ChecksInv'
  BY <1>1, <1>4 DEF ChecksInv, Holds
<1>10. QuietInv'
  BY <1>1, <1>2, <1>5 DEF QuietInv, TypeOK, DBTypeOK
<1>11. NotifyBound'
  <2> SUFFICES ASSUME NEW x \in Reminders
               PROVE  Len(notifications'[x]) + Cardinality(Holding(x)')
                        <= Cardinality(Slots)
    BY DEF NotifyBound
  <2>1. CASE x = r
    BY <1>4, <1>6, <2>1, HoldingFinite DEF NotifyBound
  <2>2. CASE x # r
    BY <1>4, <1>5, <2>2 DEF NotifyBound
  <2> QED
    BY <2>1, <2>2
<1>12. RecipientsHeldTicket'
  BY <1>1, <1>3, <1>5, <1>6 DEF RecipientsHeldTicket
<1>13. FiredIsAnnounced'
  BY <1>1, <1>4, <1>5, <1>6 DEF FiredIsAnnounced
<1>14. CancelledHadDoneTicket' /\ AgentsHeldTicket' /\ ResolvedLeavesNonePending'
  BY <1>1 DEF CancelledHadDoneTicket, AgentsHeldTicket, ResolvedLeavesNonePending,
              Cancelling
<1> QED
  BY <1>7, <1>8, <1>9, <1>10, <1>11, <1>12, <1>13, <1>14

\* A check that dies drops its rows; a reminder it fired may go unannounced.
LEMMA AbortCheckStep ==
  ASSUME IInv, TypeOK', NEW s \in Slots, AbortCheck(s), UNCHANGED req
  PROVE  IInv'
<1> USE DEF IInv
<1>1. /\ UNCHANGED <<tickets, notes, reminders, notifications, everAssigned,
                     everDone, sawActive, quiet, req>>
      /\ faults' = faults + 1
      /\ run' = [run EXCEPT ![s] = [r \in Reminders |-> NoRow]]
  BY DEF AbortCheck, Fault, dbTables, history
<1>2. faults' > 0
  BY <1>1, FaultsAssumption DEF TypeOK, DBTypeOK
<1>3. \A s1 \in Slots, r \in Reminders :
        Holds(s1, r)' => Holds(s1, r) /\ run'[s1][r] = run[s1][r]
  BY <1>1 DEF Holds, NoRow, TypeOK, RunTypeOK
<1>4. ChecksInv'
  BY <1>1, <1>3 DEF ChecksInv
<1>5. NotifyBound'
  <2> SUFFICES ASSUME NEW r \in Reminders
               PROVE  Len(notifications[r]) + Cardinality(Holding(r)')
                        <= Cardinality(Slots)
    BY <1>1 DEF NotifyBound
  <2>1. Holding(r)' \in SUBSET Holding(r)
    BY <1>3 DEF Holding
  <2>2. Cardinality(Holding(r)') <= Cardinality(Holding(r))
    BY <2>1, HoldingFinite, FS_Subset
  <2>3. Len(notifications[r]) \in Nat
    BY DEF TypeOK, DBTypeOK
  <2> QED
    BY <2>2, <2>3, HoldingFinite DEF NotifyBound
<1>6. ResolvedLeavesNonePending' /\ FiredIsAnnounced'
  BY <1>2 DEF ResolvedLeavesNonePending, FiredIsAnnounced
<1>7. /\ TicketsInv' /\ RemindersInv' /\ HandlersInv' /\ QuietInv'
      /\ CancelledHadDoneTicket' /\ RecipientsHeldTicket' /\ AgentsHeldTicket'
  BY <1>1
  DEF TicketsInv, RemindersInv, HandlersInv, QuietInv, CancelledHadDoneTicket,
      RecipientsHeldTicket, AgentsHeldTicket, TicketExists
<1> QED
  BY <1>4, <1>5, <1>6, <1>7

-----------------------------------------------------------------------------
(* The theorems *)

\* The desk starts in the inductive invariant.
LEMMA InitInv == Init => IInv
<1> SUFFICES ASSUME Init
             PROVE  IInv
  OBVIOUS
<1> USE DEF Init, DBInit, RequestInit, RunInit
<1>1. TypeOK
  BY FaultsAssumption
  DEF TypeOK, DBTypeOK, RequestTypeOK, RunTypeOK, TicketRow, NoTicket, ReminderRow,
      NoReminder, RequestRow, NoRequest, Operations, RunRow, NoRow
<1>2. TicketsInv /\ RemindersInv /\ HandlersInv /\ ChecksInv /\ QuietInv
  BY DEF TicketsInv, RemindersInv, HandlersInv, ChecksInv, QuietInv, TicketExists,
         Holds, NoTicket, NoReminder, NoRequest, NoRow
<1>3. NotifyBound
  BY HoldingFinite DEF NotifyBound
<1>4. /\ ResolvedLeavesNonePending /\ CancelledHadDoneTicket
      /\ RecipientsHeldTicket /\ AgentsHeldTicket /\ FiredIsAnnounced
  BY DEF ResolvedLeavesNonePending, CancelledHadDoneTicket, RecipientsHeldTicket,
         AgentsHeldTicket, FiredIsAnnounced, NoReminder
<1> QED
  BY <1>1, <1>2, <1>3, <1>4 DEF IInv

\* Every step of the desk keeps the inductive invariant.
LEMMA NextInv == IInv /\ [Next]_vars => IInv'
<1> SUFFICES ASSUME IInv, [Next]_vars
             PROVE  IInv'
  OBVIOUS
<1>0. TypeOK'
  BY TypeStep
<1>1. CASE UNCHANGED vars
  <2>1. UNCHANGED dbVars /\ UNCHANGED run /\ UNCHANGED req
    BY <1>1 DEF vars, dbVars
  <2>2. HandlersInv' /\ ResolvedLeavesNonePending'
    BY <2>1 DEF IInv, HandlersInv, ResolvedLeavesNonePending, TicketExists,
                Cancelling, dbVars
  <2> QED
    BY <1>0, <2>1, <2>2, OnlyRequestsChange DEF IInv
<1>2. CASE RequestNext /\ UNCHANGED run
  <2>1. ASSUME NEW u \in Users, NEW t \in Tickets, NEW e \in Emails \cup {None},
               CreateTicket(u, t, e)
        PROVE  IInv'
    BY <1>0, <1>2, <2>1, CreateTicketStep
  <2>2. ASSUME NEW q \in Requests, NEW u \in Users, NEW t \in Tickets,
               NEW patch \in Patches, StartUpdate(q, u, t, patch)
        PROVE  IInv'
    <3>1. PICK v \in Users \cup {None} : Admit(q, "update", u, t, patch.status, v)
      BY <2>2 DEF StartUpdate
    <3> QED
      BY <1>0, <1>2, <3>1, AdmitStep DEF Operations
  <2>3. ASSUME NEW q \in Requests, NEW u \in Users, NEW t \in Tickets,
               StartNote(q, u, t) \/ StartReminder(q, u, t)
        PROVE  IInv'
    <3>1. PICK op \in Operations : Admit(q, op, u, t, None, None)
      BY <2>3 DEF StartNote, StartReminder, Operations
    <3> QED
      BY <1>0, <1>2, <3>1, AdmitStep
  <2>4. ASSUME NEW q \in Requests,
               UpdateTicket(q) \/ CancelReminders(q) \/ CreateNote(q)
                 \/ (\E r \in Reminders : CreateReminder(q, r)) \/ AbortRequest(q)
        PROVE  IInv'
    BY <1>0, <1>2, <2>4, UpdateTicketStep, CancelRemindersStep, CreateNoteStep,
       CreateReminderStep, AbortRequestStep
  <2> QED
    BY <1>2, <2>1, <2>2, <2>3, <2>4 DEF RequestNext
<1>3. CASE CheckerNext /\ UNCHANGED req
  BY <1>0, <1>3, ComeDueStep, StartCheckStep, CancelRowStep, FireRowStep,
     NotifyRowStep, AbortCheckStep
  DEF CheckerNext
<1> QED
  BY <1>1, <1>2, <1>3 DEF Next

\* Every reachable state of the desk satisfies the inductive invariant.
THEOREM DeskInvariant == Spec => []IInv
<1>1. Init => IInv
  BY InitInv
<1>2. IInv /\ [Next]_vars => IInv'
  BY NextInv
<1> QED
  BY <1>1, <1>2, PTL DEF Spec

\* Type correctness of the desk.
THEOREM DeskTypeCorrect == Spec => []TypeOK
<1>1. IInv => TypeOK
  BY DEF IInv
<1> QED
  BY <1>1, DeskInvariant, PTL

\* However many checks overlap, a reminder is announced at most once for each
\* check that can run at the same time.
THEOREM DeliveriesBounded == Spec => []NotifyBound
<1>1. IInv => NotifyBound
  BY DEF IInv
<1> QED
  BY <1>1, DeskInvariant, PTL

\* A reminder that comes due on a done ticket stays silent until the ticket is
\* reopened.
THEOREM QuietRemindersStayQuiet == Spec => []QuietNeverFires
<1>1. IInv => QuietNeverFires
  BY DEF IInv, QuietInv, QuietNeverFires
<1> QED
  BY <1>1, DeskInvariant, PTL

\* update_ticket's two statements together cancel all that was pending.
THEOREM ResolvingCancels == Spec => []ResolvedLeavesNonePending
<1>1. IInv => ResolvedLeavesNonePending
  BY DEF IInv
<1> QED
  BY <1>1, DeskInvariant, PTL

\* Nothing is cancelled that no one resolved or closed.
THEOREM CancelsAreDue == Spec => []CancelledHadDoneTicket
<1>1. IInv => CancelledHadDoneTicket
  BY DEF IInv
<1> QED
  BY <1>1, DeskInvariant, PTL

\* A notification goes to a user who has held the ticket.
THEOREM RecipientsWereHolders == Spec => []RecipientsHeldTicket
<1>1. IInv => RecipientsHeldTicket
  BY DEF IInv
<1> QED
  BY <1>1, DeskInvariant, PTL

\* A note or a reminder of an agent is on a ticket he has held.
THEOREM AgentsWereHolders == Spec => []AgentsHeldTicket
<1>1. IInv => AgentsHeldTicket
  BY DEF IInv
<1> QED
  BY <1>1, DeskInvariant, PTL

\* Only a fault between two statements leaves a fired reminder unannounced.
THEOREM FiredRemindersAnnounced == Spec => []FiredIsAnnounced
<1>1. IInv => FiredIsAnnounced
  BY DEF IInv
<1> QED
  BY <1>1, DeskInvariant, PTL
=============================================================================
