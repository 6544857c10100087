\* A check is interrupted between its two statements.
CONSTANTS
  None = None
  ann = ann
  bob = bob
  annMail = annMail
  bobMail = bobMail
  bobMailUpper = bobMailUpper
  Users <- MCUsers
  Role <- MCRole
  IsActive <- MCIsActive
  Emails <- MCEmails
  EmailOf <- MCEmailOf
  LowerCase <- MCLower
  Patches <- MCStatusPatches
  Tickets = {t1}
  Reminders = {r1}
  Requests = {q1}
  Slots = {s1}
  MaxFaults = 1
SPECIFICATION FairSpec
CHECK_DEADLOCK FALSE
PROPERTY FiredReminderIsAnnounced
