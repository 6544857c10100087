\* One check holds a row while the ticket is resolved under it.
CONSTANTS
  None = None
  ann = ann
  bob = bob
  annMail = annMail
  bobMail = bobMail
  bobMailUpper = bobMailUpper
  Users <- MCUsers
  Role <- MCRole
  IsActive <- MCIsActive
  Emails <- MCEmails
  EmailOf <- MCEmailOf
  LowerCase <- MCLower
  Patches <- MCStatusPatches
  Tickets = {t1}
  Reminders = {r1}
  Requests = {q1}
  Slots = {s1}
  MaxFaults = 0
SPECIFICATION Spec
CHECK_DEADLOCK FALSE
PROPERTY CancelledNeverFires
