----------------------------- MODULE TicketDesk -----------------------------
(***************************************************************************)
(* The API processes (TicketService) and the reminder checks               *)
(* (ReminderService) running against one database, and what must hold of   *)
(* them together.                                                          *)
(***************************************************************************)
EXTENDS TicketService, ReminderService

vars == <<tickets, notes, reminders, notifications, faults, everAssigned,
          everDone, sawActive, quiet, req, run>>

Init == DBInit /\ RequestInit /\ RunInit

Next == \/ RequestNext /\ UNCHANGED run
        \/ CheckerNext /\ UNCHANGED req

Spec == Init /\ [][Next]_vars

\* Handlers run to their end, time passes, Beat keeps starting checks and the
\* worker keeps taking the rows of a check it has started.
Fairness ==
  /\ \A q \in Requests : WF_vars(HandlerStep(q) /\ UNCHANGED run)
  /\ \A r \in Reminders : WF_vars(ComeDue(r) /\ UNCHANGED req)
  /\ \A s \in Slots : /\ WF_vars(StartCheck(s) /\ UNCHANGED req)
                      /\ WF_vars((\E r \in Reminders : RowStep(s, r))
                                 /\ UNCHANGED req)

FairSpec == Spec /\ Fairness

-----------------------------------------------------------------------------
(* Invariants *)

\* Every variable keeps its type.
TypeOK == DBTypeOK /\ RequestTypeOK /\ RunTypeOK

Holding(r) == {s \in Slots : Holds(s, r)}
Cancelling(t) == {q \in Requests : req[q].pc = "cancel" /\ req[q].ticket = t}

\* process_due_reminders marks by id alone, so overlapping checks may announce
\* a reminder twice: but never more often than checks can overlap, counting
\* those that have still to announce it.
NotifyBound ==
  \A r \in Reminders :
    Len(notifications[r]) + Cardinality(Holding(r)) <= Cardinality(Slots)

\* A reminder that comes due while its ticket is resolved or closed, and whose
\* ticket is not reopened, neither fires nor is announced, whatever checks,
\* updates and crashes do.
QuietNeverFires ==
  \A r \in quiet : reminders[r].status # "fired" /\ notifications[r] = <<>>

\* Auto-cancel on resolution (update_ticket): once a ticket is resolved or
\* closed, no reminder that was ever pending on it while it was active is left
\* pending, unless the request that resolved it is still about to cancel, or a
\* fault came between its two statements.
ResolvedLeavesNonePending ==
  \A r \in sawActive :
    reminders[r].status = "pending" /\ tickets[reminders[r].ticket_id].status \in Done
      => faults > 0 \/ Cancelling(reminders[r].ticket_id) # {}

\* Nothing is cancelled on a ticket that was never resolved or closed: not by
\* an update's eager cancel, not by a check working from an old row.
CancelledHadDoneTicket ==
  \A r \in Reminders :
    reminders[r].status = "cancelled" => reminders[r].ticket_id \in everDone

\* Only users who have held the ticket are told of its reminders, however old
\* the row a check works from.
RecipientsHeldTicket ==
  \A r \in Reminders : \A i \in 1..Len(notifications[r]) :
    notifications[r][i] \in everAssigned[reminders[r].ticket_id]

\* get_ticket guards create_note and create_reminder: an agent's note or
\* reminder is on a ticket that was assigned to him at some time.
AgentsHeldTicket ==
  /\ \A n \in notes :
       IsAgent(n.author_id) => n.author_id \in everAssigned[n.ticket_id]
  /\ \A r \in Reminders :
       LET x == reminders[r] IN
         x.status # "absent" /\ IsAgent(x.created_by_id)
           => x.created_by_id \in everAssigned[x.ticket_id]

\* A reminder that has fired and was never announced is about to be, by a
\* check that is still running, unless a fault cut a check short.
FiredIsAnnounced ==
  \A r \in Reminders :
    reminders[r].status = "fired" /\ notifications[r] = <<>>
      => faults > 0 \/ \E s \in Slots : run[s][r].stage = "fired"

-----------------------------------------------------------------------------
(* The inductive invariant: what every step relies on to keep the ones above *)

\* An existing ticket has an assignee, and history has caught up with it.
TicketsInv ==
  \A t \in Tickets :
    TicketExists(t) => /\ tickets[t].assigned_to \in everAssigned[t]
                       /\ tickets[t].status \in Done => t \in everDone

\* A reminder's row is complete; it fires and is announced only once it is due,
\* and is announced only once it is not pending.
RemindersInv ==
  \A r \in Reminders :
    /\ reminders[r].status = "absent"
         => r \notin quiet /\ r \notin sawActive /\ reminders[r] = NoReminder
    /\ reminders[r].status # "absent"
         => /\ reminders[r].ticket_id \in Tickets
            /\ TicketExists(reminders[r].ticket_id)
            /\ reminders[r].created_by_id \in Users
    /\ reminders[r].status \in {"absent", "pending"} \/ ~ reminders[r].due
         => notifications[r] = <<>>
    /\ reminders[r].status = "fired" => reminders[r].due

\* A handler past its access check works on an existing ticket its user held.
HandlersInv ==
  \A q \in Requests :
    req[q].pc # "idle" =>
      /\ req[q].user \in Users
      /\ req[q].ticket \in Tickets
      /\ TicketExists(req[q].ticket)
      /\ IsAgent(req[q].user) => req[q].user \in everAssigned[req[q].ticket]
      /\ req[q].pc = "cancel" => req[q].ticket \in everDone

\* The row of a check is old, but it was true once.
ChecksInv ==
  \A s \in Slots, r \in Reminders :
    Holds(s, r) =>
      LET row == run[s][r]  t == reminders[r].ticket_id IN
        /\ reminders[r].status # "absent"
        /\ reminders[r].due
        /\ row.assigned_to \in everAssigned[t]
        /\ row.ticket_status \in Done => t \in everDone
        /\ r \in quiet => row.ticket_status \in Done
        /\ row.stage = "fired" => /\ row.ticket_status \notin Done
                                  /\ reminders[r].status # "pending"

\* While a reminder is quiet its ticket stays done.
QuietInv ==
  \A r \in quiet : /\ reminders[r].status \notin {"absent", "fired"}
                   /\ reminders[r].due
                   /\ notifications[r] = <<>>
                   /\ tickets[reminders[r].ticket_id].status \in Done

\* The inductive invariant of the desk.
IInv == /\ TypeOK
        /\ TicketsInv
        /\ RemindersInv
        /\ HandlersInv
        /\ ChecksInv
        /\ QuietInv
        /\ NotifyBound
        /\ ResolvedLeavesNonePending
        /\ CancelledHadDoneTicket
        /\ RecipientsHeldTicket
        /\ AgentsHeldTicket
        /\ FiredIsAnnounced

-----------------------------------------------------------------------------
(* Action properties *)

\* No step turns a fired or cancelled reminder back to pending, moves it to
\* another ticket, or takes back a notification.
SettledForGood ==
  [][\A r \in Reminders :
       /\ reminders[r].status \in {"fired", "cancelled"}
            => reminders'[r].status \in {"fired", "cancelled"}
       /\ reminders[r].status # "absent"
            => reminders'[r].ticket_id = reminders[r].ticket_id
       /\ Len(notifications'[r]) >= Len(notifications[r])]_vars

\* README 3.1: an agent "can view and modify only tickets assigned to them".
\* Every step that writes a ticket for an agent finds it assigned to him.
AgentsModifyOwnTickets ==
  [][\A q \in Requests :
       UpdateTicket(q) /\ IsAgent(req[q].user)
         => tickets[req[q].ticket].assigned_to = req[q].user]_vars

\* process_due_reminders: "If ticket is resolved/closed -> cancels reminder",
\* and update_ticket "auto-cancels": a cancelled reminder is not fired later.
CancelledNeverFires ==
  [][\A r \in Reminders :
       reminders[r].status = "cancelled" => reminders'[r].status = "cancelled"]_vars

\* README 3.4: a due reminder "transitions to fired and a notification record
\* is inserted", one record for one reminder.
OneNotificationPerReminder == \A r \in Reminders : Len(notifications[r]) <= 1

-----------------------------------------------------------------------------
(* Liveness *)

\* A due reminder does not stay pending: the next checks settle it, also after
\* a check that was interrupted.
DueReminderSettles ==
  \A r \in Reminders :
    reminders[r].due /\ reminders[r].status = "pending"
      ~> reminders[r].status \in {"fired", "cancelled"}

\* README 3.4: the reminder "transitions to fired and a notification record is
\* inserted".
FiredReminderIsAnnounced ==
  \A r \in Reminders :
    reminders[r].status = "fired" ~> notifications[r] # <<>>

-----------------------------------------------------------------------------
(* The desk implements the reminder lifecycle *)

stageOf == [r \in Reminders |->
              CASE reminders[r].status = "absent"  -> "absent"
                [] reminders[r].status = "pending" -> "pending"
                [] OTHER -> "settled"]

Lifecycle == INSTANCE ReminderLifecycle
               WITH MaxDeliveries <- Cardinality(Slots),
                    stage <- stageOf,
                    delivered <- [r \in Reminders |-> Len(notifications[r])]

\* Reminders of the desk behave as ReminderLifecycle says.
LifecycleSafety == Lifecycle!LifecycleSpec
\* ... and each scheduled one is settled.
LifecycleFair == Lifecycle!LifecycleFairSpec
=============================================================================
