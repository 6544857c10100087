\* Two handlers and two overlapping checks on one ticket with one reminder.
CONSTANTS
  None = None
  ann = ann
  bob = bob
  annMail = annMail
  bobMail = bobMail
  bobMailUpper = bobMailUpper
  Users <- MCUsers
  Role <- MCRole
  IsActive <- MCIsActive
  Emails <- MCEmails
  EmailOf <- MCEmailOf
  LowerCase <- MCLower
  Patches <- MCPatches
  Tickets = {t1}
  Reminders = {r1}
  Requests = {q1, q2}
  Slots = {s1, s2}
  MaxFaults = 1
SYMMETRY MCSymmetry
SPECIFICATION Spec
INVARIANTS
  TypeOK
  NotifyBound
  QuietNeverFires
  ResolvedLeavesNonePending
  CancelledHadDoneTicket
  RecipientsHeldTicket
  AgentsHeldTicket
  FiredIsAnnounced
PROPERTIES
  SettledForGood
  LifecycleSafety
