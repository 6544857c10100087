-------------------------- MODULE LifecycleProofs ---------------------------
(***************************************************************************)
(* The desk implements ReminderLifecycle: each of its steps schedules,     *)
(* settles or delivers reminders as the lifecycle allows, or changes no    *)
(* reminder.  The bound on deliveries comes from the desk's invariant.     *)
(* And SettledForGood, of the desk itself: no step takes back a reminder   *)
(* that has fired or been cancelled, moves one to another ticket, or drops *)
(* a notification.                                                         *)
(***************************************************************************)
EXTENDS TicketDeskProofs

\* The stage of a reminder is its status with fired and cancelled made one.
LEMMA StageValues ==
  ASSUME NEW r \in Reminders
  PROVE  /\ reminders[r].status = "absent"  => stageOf[r] = "absent"
         /\ reminders[r].status = "pending" => stageOf[r] = "pending"
         /\ reminders[r].status \notin {"absent", "pending"} => stageOf[r] = "settled"
         /\ reminders'[r].status = "absent"  => stageOf'[r] = "absent"
         /\ reminders'[r].status = "pending" => stageOf'[r] = "pending"
         /\ reminders'[r].status \notin {"absent", "pending"} => stageOf'[r] = "settled"
BY DEF stageOf

\* stageOf and the counts are functions of Reminders, determined pointwise.
LEMMA StageFunction ==
  /\ stageOf = [r \in Reminders |-> stageOf[r]]
  /\ stageOf' = [r \in Reminders |-> stageOf'[r]]
BY DEF stageOf

\* Where no status and no notification changes, the lifecycle stutters.
LEMMA LifecycleStutters ==
  ASSUME UNCHANGED notifications,
         \A r \in Reminders : reminders'[r].status = reminders[r].status
  PROVE  UNCHANGED Lifecycle!lifecycleVars
<1>1. stageOf' = stageOf
  BY DEF stageOf
<1> QED
  BY <1>1 DEF Lifecycle!lifecycleVars

\* Where a set of pending reminders is marked fired or cancelled, they settle.
LEMMA LifecycleSettles ==
  ASSUME UNCHANGED notifications, NEW S \in SUBSET Reminders, S # {},
         \A r \in S : /\ reminders[r].status = "pending"
                      /\ reminders'[r].status \in {"fired", "cancelled"},
         \A r \in Reminders \ S : reminders'[r].status = reminders[r].status
  PROVE  Lifecycle!LifecycleNext
<1>1. \A r \in S : stageOf[r] = "pending" /\ stageOf'[r] = "settled"
  BY StageValues
<1>2. \A r \in Reminders \ S : stageOf'[r] = stageOf[r]
  BY DEF stageOf
<1>3. stageOf' = [r \in Reminders |-> IF r \in S THEN "settled" ELSE stageOf[r]]
  BY <1>1, <1>2, StageFunction
<1>4. Lifecycle!Settle(S)
  BY <1>1, <1>3 DEF Lifecycle!Settle
<1> QED
  BY <1>4 DEF Lifecycle!LifecycleNext

\* Marking one reminder by id settles it, or finds it settled.
LEMMA LifecycleMarks ==
  ASSUME IInv, NEW r \in Reminders, NEW status \in {"fired", "cancelled"},
         SetReminderStatus(r, status), reminders[r].status # "absent",
         reminders[r].due, UNCHANGED req
  PROVE  [Lifecycle!LifecycleNext]_(Lifecycle!lifecycleVars)
<1>1. /\ UNCHANGED notifications
      /\ \A x \in Reminders \ {r} : reminders'[x] = reminders[x]
      /\ reminders'[r].status = status
  BY SetStatusStep
<1>2. CASE reminders[r].status = "pending"
  <2>1. {r} \in SUBSET Reminders /\ {r} # {}
    OBVIOUS
  <2> QED
    BY <1>1, <1>2, <2>1, LifecycleSettles
<1>3. CASE reminders[r].status # "pending"
  <2>1. stageOf' = stageOf
    <3>1. stageOf[r] = "settled" /\ stageOf'[r] = "settled"
      BY <1>1, <1>3, StageValues
    <3>2. \A x \in Reminders \ {r} : stageOf'[x] = stageOf[x]
      BY <1>1 DEF stageOf
    <3>3. \A x \in Reminders : stageOf'[x] = stageOf[x]
      BY <3>1, <3>2
    <3> QED
      BY <3>3, StageFunction
  <2> QED
    BY <1>1, <2>1 DEF Lifecycle!lifecycleVars
<1> QED
  BY <1>2, <1>3

\* A step of the API schedules one reminder, settles a ticket's, or none.
LEMMA RequestLifecycle ==
  ASSUME IInv, RequestNext
  PROVE  [Lifecycle!LifecycleNext]_(Lifecycle!lifecycleVars)
<1> USE DEF IInv
<1>1. ASSUME NEW q \in Requests, NEW r \in Reminders, CreateReminder(q, r)
      PROVE  Lifecycle!LifecycleNext
  <2>1. /\ reminders[r].status = "absent"
        /\ UNCHANGED notifications
        /\ reminders'[r].status = "pending"
        /\ \A x \in Reminders \ {r} : reminders'[x] = reminders[x]
    BY <1>1 DEF CreateReminder, InsertReminder, TypeOK, DBTypeOK
  <2>2. /\ stageOf[r] = "absent"
        /\ stageOf'[r] = "pending"
        /\ \A x \in Reminders \ {r} : stageOf'[x] = stageOf[x]
    BY <2>1, StageValues DEF stageOf
  <2>3. stageOf' = [stageOf EXCEPT ![r] = "pending"]
    BY <2>2, StageFunction
  <2>4. Lifecycle!Schedule(r)
    BY <2>1, <2>2, <2>3 DEF Lifecycle!Schedule
  <2> QED
    BY <2>4 DEF Lifecycle!LifecycleNext
<1>2. ASSUME NEW q \in Requests, CancelReminders(q)
      PROVE  [Lifecycle!LifecycleNext]_(Lifecycle!lifecycleVars)
  <2> DEFINE S == PendingOf(req[q].ticket)
  <2>1. /\ UNCHANGED notifications
        /\ \A r \in S : reminders'[r] = [reminders[r] EXCEPT !.status = "cancelled"]
        /\ \A r \in Reminders \ S : reminders'[r] = reminders[r]
        /\ S \in SUBSET Reminders
        /\ \A r \in S : reminders[r].status = "pending"
    BY <1>2 DEF CancelReminders, CancelPending, PendingOf, RemindersOf
  <2>2. \A r \in S : reminders'[r].status = "cancelled"
    <3> TAKE r \in S
    <3>1. reminders[r] \in ReminderRow
      BY <2>1 DEF TypeOK, DBTypeOK
    <3>2. reminders'[r] = [reminders[r] EXCEPT !.status = "cancelled"]
      BY <2>1
    <3> QED
      BY <3>1, <3>2, StatusColumn
  <2>3. CASE S = {}
    BY <2>1, <2>3, LifecycleStutters
  <2>4. CASE S # {}
    BY <2>1, <2>2, <2>4, LifecycleSettles
  <2> QED
    BY <2>3, <2>4
<1>3. ASSUME UNCHANGED reminders, UNCHANGED notifications
      PROVE  UNCHANGED Lifecycle!lifecycleVars
  BY <1>3, LifecycleStutters
<1>4. ASSUME NEW u \in Users, NEW t \in Tickets, NEW e \in Emails \cup {None},
             CreateTicket(u, t, e)
      PROVE  UNCHANGED reminders /\ UNCHANGED notifications
  BY <1>4 DEF CreateTicket, InsertTicket
<1>5. ASSUME NEW q \in Requests, NEW u \in Users, NEW t \in Tickets,
             (\E patch \in Patches : StartUpdate(q, u, t, patch))
               \/ StartNote(q, u, t) \/ StartReminder(q, u, t)
      PROVE  UNCHANGED reminders /\ UNCHANGED notifications
  BY <1>5 DEF StartUpdate, StartNote, StartReminder, Admit, dbVars
<1>6. ASSUME NEW q \in Requests, UpdateTicket(q) \/ CreateNote(q) \/ AbortRequest(q)
      PROVE  UNCHANGED reminders /\ UNCHANGED notifications
  BY <1>6 DEF UpdateTicket, UpdateTicketRow, CreateNote, InsertNote, AbortRequest,
              Fault, dbTables
<1> QED
  BY <1>1, <1>2, <1>3, <1>4, <1>5, <1>6 DEF RequestNext

\* A step of the scheduler settles one reminder, delivers one, or none.
LEMMA CheckerLifecycle ==
  ASSUME IInv, TypeOK', CheckerNext, UNCHANGED req
  PROVE  [Lifecycle!LifecycleNext]_(Lifecycle!lifecycleVars)
<1> USE DEF IInv
<1>1. ASSUME NEW r \in Reminders, ComeDue(r)
      PROVE  UNCHANGED Lifecycle!lifecycleVars
  <2>1. UNCHANGED notifications
        /\ \A x \in Reminders : reminders'[x].status = reminders[x].status
    <3>1. reminders \in [Reminders -> ReminderRow]
      BY DEF TypeOK, DBTypeOK
    <3> QED
      BY <1>1, <3>1 DEF ComeDue, PassDueTime, ReminderRow
  <2> QED
    BY <2>1, LifecycleStutters
<1>2. ASSUME NEW s \in Slots, StartCheck(s) \/ AbortCheck(s)
      PROVE  UNCHANGED Lifecycle!lifecycleVars
  <2>1. UNCHANGED reminders /\ UNCHANGED notifications
    BY <1>2 DEF StartCheck, AbortCheck, dbVars, Fault, dbTables
  <2> QED
    BY <2>1, LifecycleStutters
<1>3. ASSUME NEW s \in Slots, NEW r \in Reminders, CancelRow(s, r) \/ FireRow(s, r)
      PROVE  [Lifecycle!LifecycleNext]_(Lifecycle!lifecycleVars)
  <2>1. Holds(s, r)
    BY <1>3 DEF CancelRow, FireRow, Holds
  <2>2. reminders[r].status # "absent" /\ reminders[r].due
    BY <2>1 DEF ChecksInv
  <2>3. SetReminderStatus(r, "cancelled") \/ SetReminderStatus(r, "fired")
    BY <1>3 DEF CancelRow, FireRow
  <2> QED
    BY <2>2, <2>3, LifecycleMarks
<1>4. ASSUME NEW s \in Slots, NEW r \in Reminders, NotifyRow(s, r)
      PROVE  Lifecycle!LifecycleNext
  <2> DEFINE n == [x \in Reminders |-> Len(notifications[x])]
  <2>1. /\ Holds(s, r)
        /\ run[s][r].stage = "fired"
        /\ UNCHANGED reminders
        /\ notifications' = [notifications EXCEPT ![r] = Append(@, Recipient(s, r))]
        /\ Release(s, r)
    BY <1>4 DEF NotifyRow, InsertNotification, Holds
  <2>2. stageOf[r] = "settled" /\ stageOf' = stageOf
    <3>1. reminders[r].status \notin {"absent", "pending"}
      BY <2>1 DEF ChecksInv
    <3> QED
      BY <2>1, <3>1, StageValues DEF stageOf
  <2>3. n[r] < Cardinality(Slots)
    <3>1. Cardinality(Holding(r)') = Cardinality(Holding(r)) - 1
      BY <2>1, ReleaseRow
    <3>2. Cardinality(Holding(r)) >= 1
      BY <3>1, HoldingFinite
    <3>3. Len(notifications[r]) \in Nat
      BY DEF TypeOK, DBTypeOK
    <3> QED
      BY <3>2, <3>3, HoldingFinite DEF NotifyBound
  <2>4. n' = [n EXCEPT ![r] = @ + 1]
    <3>1. /\ \A x \in Reminders \ {r} : notifications'[x] = notifications[x]
          /\ Len(notifications'[r]) = Len(notifications[r]) + 1
      <4>1. notifications \in [Reminders -> Seq(Users)] /\ notifications'[r] \in Seq(Users)
        BY DEF TypeOK, DBTypeOK
      <4> QED
        BY <2>1, <4>1
    <3> QED
      BY <3>1
  <2>5. Lifecycle!Deliver(r)
    BY <2>2, <2>3, <2>4 DEF Lifecycle!Deliver
  <2> QED
    BY <2>5 DEF Lifecycle!LifecycleNext
<1> QED
  BY <1>1, <1>2, <1>3, <1>4 DEF CheckerNext

\* Reminders of the desk follow the abstract lifecycle.
THEOREM DeskImplementsLifecycle == Spec => LifecycleSafety
<1>1. Init => Lifecycle!LifecycleInit
  BY DEF Init, DBInit, Lifecycle!LifecycleInit, stageOf, NoReminder
<1>2. IInv /\ IInv' /\ [Next]_vars => [Lifecycle!LifecycleNext]_(Lifecycle!lifecycleVars)
  <2> SUFFICES ASSUME IInv, IInv', [Next]_vars
               PROVE  [Lifecycle!LifecycleNext]_(Lifecycle!lifecycleVars)
    OBVIOUS
  <2>1. CASE UNCHANGED vars
    BY <2>1, LifecycleStutters DEF vars
  <2>2. CASE Next
    BY <2>2, RequestLifecycle, CheckerLifecycle DEF Next, IInv
  <2> QED
    BY <2>1, <2>2
<1> QED
  BY <1>1, <1>2, DeskInvariant, PTL DEF Spec, LifecycleSafety, Lifecycle!LifecycleSpec

-----------------------------------------------------------------------------
\* What SettledForGood asks of one reminder and one step.
Kept(r) ==
  /\ reminders[r].status \in {"fired", "cancelled"}
       => reminders'[r].status \in {"fired", "cancelled"}
  /\ reminders[r].status # "absent"
       => reminders'[r].ticket_id = reminders[r].ticket_id
  /\ Len(notifications'[r]) >= Len(notifications[r])

\* A log of notifications has a length, so a log left alone is long enough.
LEMMA LogLength ==
  ASSUME TypeOK, NEW r \in Reminders
  PROVE  /\ notifications[r] \in Seq(Users)
         /\ Len(notifications[r]) \in Nat
         /\ Len(notifications[r]) >= Len(notifications[r])
<1>1. notifications[r] \in Seq(Users)
  BY DEF TypeOK, DBTypeOK
<1>2. Len(notifications[r]) \in Nat
  BY <1>1
<1> QED
  BY <1>1, <1>2

\* A step that leaves both columns alone keeps them.
LEMMA UntouchedKept ==
  ASSUME TypeOK, NEW r \in Reminders,
         reminders'[r].status = reminders[r].status,
         reminders'[r].ticket_id = reminders[r].ticket_id,
         notifications'[r] = notifications[r]
  PROVE  Kept(r)
BY LogLength DEF Kept

\* A step of the API inserts one reminder or cancels pending ones.
LEMMA RequestKeeps ==
  ASSUME IInv, RequestNext, NEW r \in Reminders
  PROVE  Kept(r)
<1> USE DEF IInv
<1>1. ASSUME NEW q \in Requests, NEW x \in Reminders, CreateReminder(q, x)
      PROVE  Kept(r)
  <2>1. /\ UNCHANGED notifications
        /\ reminders[x].status = "absent"
        /\ \A y \in Reminders \ {x} : reminders'[y] = reminders[y]
    BY <1>1 DEF CreateReminder, InsertReminder, TypeOK, DBTypeOK
  <2>2. CASE r = x
    BY <2>1, <2>2, LogLength DEF Kept
  <2>3. CASE r # x
    BY <2>1, <2>3, UntouchedKept
  <2> QED
    BY <2>2, <2>3
<1>2. ASSUME NEW q \in Requests, CancelReminders(q)
      PROVE  Kept(r)
  <2> DEFINE S == PendingOf(req[q].ticket)
  <2>1. /\ UNCHANGED notifications
        /\ r \in S => reminders'[r] = [reminders[r] EXCEPT !.status = "cancelled"]
        /\ r \notin S => reminders'[r] = reminders[r]
        /\ r \in S => reminders[r].status = "pending"
    BY <1>2 DEF CancelReminders, CancelPending, PendingOf
  <2>2. CASE r \in S
    <3>1. reminders[r] \in ReminderRow
      BY DEF TypeOK, DBTypeOK
    <3>2. reminders'[r] = [reminders[r] EXCEPT !.status = "cancelled"]
      BY <2>1, <2>2
    <3>3. /\ reminders'[r].status = "cancelled"
          /\ reminders'[r].ticket_id = reminders[r].ticket_id
      BY <3>1, <3>2, StatusColumn
    <3> QED
      BY <2>1, <3>3, LogLength DEF Kept
  <2>3. CASE r \notin S
    BY <2>1, <2>3, UntouchedKept
  <2> QED
    BY <2>2, <2>3
<1>3. ASSUME UNCHANGED reminders, UNCHANGED notifications
      PROVE  Kept(r)
  BY <1>3, UntouchedKept
<1>4. ASSUME NEW u \in Users, NEW t \in Tickets, NEW e \in Emails \cup {None},
             CreateTicket(u, t, e)
      PROVE  UNCHANGED reminders /\ UNCHANGED notifications
  BY <1>4 DEF CreateTicket, InsertTicket
<1>5. ASSUME NEW q \in Requests, NEW u \in Users, NEW t \in Tickets,
             (\E patch \in Patches : StartUpdate(q, u, t, patch))
               \/ StartNote(q, u, t) \/ StartReminder(q, u, t)
      PROVE  UNCHANGED reminders /\ UNCHANGED notifications
  BY <1>5 DEF StartUpdate, StartNote, StartReminder, Admit, dbVars
<1>6. ASSUME NEW q \in Requests, UpdateTicket(q) \/ CreateNote(q) \/ AbortRequest(q)
      PROVE  UNCHANGED reminders /\ UNCHANGED notifications
  BY <1>6 DEF UpdateTicket, UpdateTicketRow, CreateNote, InsertNote, AbortRequest,
              Fault, dbTables
<1> QED
  BY <1>1, <1>2, <1>3, <1>4, <1>5, <1>6 DEF RequestNext

\* A step of the scheduler marks one reminder fired or cancelled, or appends to
\* its log.
LEMMA CheckerKeeps ==
  ASSUME IInv, CheckerNext, UNCHANGED req, NEW r \in Reminders
  PROVE  Kept(r)
<1> USE DEF IInv
<1>1. ASSUME NEW x \in Reminders, ComeDue(x)
      PROVE  Kept(r)
  <2>1. /\ UNCHANGED notifications
        /\ reminders'[r].status = reminders[r].status
        /\ reminders'[r].ticket_id = reminders[r].ticket_id
    <3>1. reminders \in [Reminders -> ReminderRow]
      BY DEF TypeOK, DBTypeOK
    <3> QED
      BY <1>1, <3>1 DEF ComeDue, PassDueTime, ReminderRow
  <2> QED
    BY <2>1, UntouchedKept
<1>2. ASSUME NEW s \in Slots, StartCheck(s) \/ AbortCheck(s)
      PROVE  Kept(r)
  <2>1. UNCHANGED reminders /\ UNCHANGED notifications
    BY <1>2 DEF StartCheck, AbortCheck, dbVars, Fault, dbTables
  <2> QED
    BY <2>1, UntouchedKept
<1>3. ASSUME NEW s \in Slots, NEW x \in Reminders, CancelRow(s, x) \/ FireRow(s, x)
      PROVE  Kept(r)
  <2>1. reminders[x].status # "absent" /\ reminders[x].due
    BY <1>3 DEF CancelRow, FireRow, Holds, ChecksInv
  <2>2. PICK status \in {"cancelled", "fired"} : SetReminderStatus(x, status)
    BY <1>3 DEF CancelRow, FireRow
  <2>3. /\ UNCHANGED notifications
        /\ reminders'[x].status = status
        /\ \A y \in Reminders \ {x} : reminders'[y] = reminders[y]
        /\ reminders'[r].ticket_id = reminders[r].ticket_id
    BY <2>1, <2>2, SetStatusStep
  <2>4. CASE r = x
    BY <2>3, <2>4, LogLength DEF Kept
  <2>5. CASE r # x
    BY <2>3, <2>5, UntouchedKept
  <2> QED
    BY <2>4, <2>5
<1>4. ASSUME NEW s \in Slots, NEW x \in Reminders, NotifyRow(s, x)
      PROVE  Kept(r)
  <2>1. /\ UNCHANGED reminders
        /\ notifications' = [notifications EXCEPT ![x] = Append(@, Recipient(s, x))]
    BY <1>4 DEF NotifyRow, InsertNotification
  <2>2. Len(notifications'[r]) >= Len(notifications[r])
    <3>1. CASE r = x
      <4>1. notifications'[r] = Append(notifications[r], Recipient(s, x))
        BY <2>1, <3>1 DEF TypeOK, DBTypeOK
      <4>2. Len(notifications'[r]) = Len(notifications[r]) + 1
        BY <4>1, LogLength
      <4> QED
        BY <4>2, LogLength
    <3>2. CASE r # x
      BY <2>1, <3>2, LogLength DEF TypeOK, DBTypeOK
    <3> QED
      BY <3>1, <3>2
  <2> QED
    BY <2>1, <2>2 DEF Kept
<1> QED
  BY <1>1, <1>2, <1>3, <1>4 DEF CheckerNext

\* A reminder that has fired or been cancelled is never pending again, keeps
\* its ticket, and keeps its notifications, whatever handlers and checks do.
THEOREM SettledStaysSettled == Spec => SettledForGood
<1>1. IInv /\ [Next]_vars => [\A r \in Reminders : Kept(r)]_vars
  <2>1. ASSUME IInv, Next
        PROVE  \A r \in Reminders : Kept(r)
    BY <2>1, RequestKeeps, CheckerKeeps DEF Next
  <2> QED
    BY <2>1
<1>2. [\A r \in Reminders : Kept(r)]_vars
        => [\A r \in Reminders :
              /\ reminders[r].status \in {"fired", "cancelled"}
                   => reminders'[r].status \in {"fired", "cancelled"}
              /\ reminders[r].status # "absent"
                   => reminders'[r].ticket_id = reminders[r].ticket_id
              /\ Len(notifications'[r]) >= Len(notifications[r])]_vars
  BY DEF Kept
<1> QED
  BY <1>1, <1>2, DeskInvariant, PTL DEF Spec, SettledForGood
=============================================================================
