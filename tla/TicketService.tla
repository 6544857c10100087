--------------------------- MODULE TicketService ----------------------------
(***************************************************************************)
(* Requests on tickets, notes and reminders as the API processes serve     *)
(* them (app/services/ticket_service.py, ReminderService.create_reminder). *)
(* Any number of handlers interleave at their awaits: a handler gives its  *)
(* connection back between statements, so what get_ticket read may be      *)
(* stale when the handler writes.                                          *)
(*                                                                         *)
(* A handler's state is req[q]: pc "write" before its own INSERT or        *)
(* UPDATE, "cancel" between update_ticket writing the ticket and           *)
(* cancelling its reminders.  A request refused by a check changes nothing *)
(* and leaves no trace, so it is no step at all.                           *)
(***************************************************************************)
EXTENDS TicketDB

CONSTANTS
  Requests,      \* handlers that may be in flight at once
  Patches        \* bound: the bodies a PATCH may carry, [status, email]

VARIABLE req

ASSUME PatchesAssumption ==
  Patches \subseteq [status : Statuses \cup {None}, email : Emails \cup {None}]

Operations == {"update", "note", "reminder"}
NoRequest  == [pc |-> "idle", op |-> "note", user |-> None, ticket |-> None,
               status |-> None, assignee |-> None]
RequestRow == [pc : {"idle", "write", "cancel"}, op : Operations,
               user : Users \cup {None}, ticket : Tickets \cup {None},
               status : Statuses \cup {None}, assignee : Users \cup {None}]

RequestTypeOK == req \in [Requests -> RequestRow]
RequestInit   == req = [q \in Requests |-> NoRequest]

Finish(q) == req' = [req EXCEPT ![q] = NoRequest]

-----------------------------------------------------------------------------
\* The assignee an address stands for, if the user may name it: an agent only
\* himself, compared without case (403); the row is looked up with case (404)
\* and must be active (400).
ResolvesTo(user, email, u) ==
  /\ IsAgent(user) => LowerCase[email] = LowerCase[EmailOf[user]]
  /\ EmailOf[u] = email
  /\ IsActive[u]

\* Mutant: no 403
MayAccessAny(user, t) == TicketExists(t)

\* Mutant: no 404
MayAccessAbsent(user, t) == IsAgent(user) => tickets[t].assigned_to = user

\* get_ticket: 404, and 403 for an agent on a ticket not assigned to him
MayAccess(user, t) ==
  /\ TicketExists(t)
  /\ IsAgent(user) => tickets[t].assigned_to = user

\* POST /tickets: the INSERT is the only statement that reads or writes a
\* table that changes, so the handler is one step
CreateTicket(user, t, email) ==
  /\ IsActive[user]
  /\ \E u \in Users : /\ IF email = None THEN u = user
                                         ELSE ResolvesTo(user, email, u)
                      /\ InsertTicket(t, u)
  /\ UNCHANGED req

\* RoleMiddleware admits an active user, get_ticket's SELECT and checks pass,
\* and the handler goes on to its own statement
Admit(q, op, user, t, status, assignee) ==
  /\ req[q].pc = "idle"
  /\ IsActive[user]
  /\ MayAccess(user, t)
  /\ req' = [req EXCEPT ![q] =
               [pc |-> "write", op |-> op, user |-> user, ticket |-> t,
                status |-> status, assignee |-> assignee]]
  /\ UNCHANGED dbVars

\* PATCH /tickets/{id}.  A body that sets neither column kept here writes
\* nothing that is modelled (or returns early): Patches need not hold it.
StartUpdate(q, user, t, patch) ==
  /\ patch.status # None \/ patch.email # None
  /\ \E u \in Users \cup {None} :
       /\ IF patch.email = None THEN u = None
          ELSE u \in Users /\ ResolvesTo(user, patch.email, u)
       /\ Admit(q, "update", user, t, patch.status, u)

\* POST /tickets/{id}/notes
StartNote(q, user, t) == Admit(q, "note", user, t, None, None)

\* POST /tickets/{id}/reminders.  Bound: starts only while an id is left for it
StartReminder(q, user, t) ==
  /\ Cardinality({p \in Requests : req[p].op = "reminder"})
       < Cardinality({r \in Reminders : reminders[r].status = "absent"})
  /\ Admit(q, "reminder", user, t, None, None)

\* Mutant: only closing a ticket cancels its reminders
CancelOnCloseOnly(q) ==
  /\ req[q].pc = "write"
  /\ req[q].op = "update"
  /\ UpdateTicketRow(req[q].ticket, req[q].status, req[q].assignee)
  /\ IF req[q].status = "closed" THEN req' = [req EXCEPT ![q].pc = "cancel"]
                                 ELSE Finish(q)

\* update_ticket: the UPDATE goes by id alone, whatever happened to the row
UpdateTicket(q) ==
  /\ req[q].pc = "write"
  /\ req[q].op = "update"
  /\ UpdateTicketRow(req[q].ticket, req[q].status, req[q].assignee)
  /\ IF req[q].status \in Done THEN req' = [req EXCEPT ![q].pc = "cancel"]
                               ELSE Finish(q)

\* update_ticket's second statement
CancelReminders(q) ==
  /\ req[q].pc = "cancel"
  /\ CancelPending(req[q].ticket)
  /\ Finish(q)

\* create_note
CreateNote(q) ==
  /\ req[q].pc = "write"
  /\ req[q].op = "note"
  /\ InsertNote(req[q].ticket, req[q].user)
  /\ Finish(q)

\* create_reminder: nothing asks whether the ticket is still active
CreateReminder(q, r) ==
  /\ req[q].pc = "write"
  /\ req[q].op = "reminder"
  /\ InsertReminder(r, req[q].ticket, req[q].user)
  /\ Finish(q)

\* The process, the connection or the statement dies before the next step
AbortRequest(q) ==
  /\ req[q].pc # "idle"
  /\ Fault
  /\ Finish(q)

HandlerStep(q) ==
  \/ UpdateTicket(q)
  \/ CancelReminders(q)
  \/ CreateNote(q)
  \/ \E r \in Reminders : CreateReminder(q, r)

RequestNext ==
  \/ \E u \in Users, t \in Tickets, e \in Emails \cup {None} : CreateTicket(u, t, e)
  \/ \E q \in Requests, u \in Users, t \in Tickets :
       \/ \E patch \in Patches : StartUpdate(q, u, t, patch)
       \/ StartNote(q, u, t)
       \/ StartReminder(q, u, t)
  \/ \E q \in Requests :
       \/ UpdateTicket(q)
       \/ CancelReminders(q)
       \/ CreateNote(q)
       \/ \E r \in Reminders : CreateReminder(q, r)
       \/ AbortRequest(q)
=============================================================================
