\* The task is lost before or after it reaches a worker.
CONSTANTS
  None = None
  Check = Check
  Tickets = {t1}
  Workers = {w1}
  Replies <- MCReplies
  Patches <- MCPatches
  Opening <- MCOpening
  MaxFaults = 1
  MaxChecks = 1
SPECIFICATION WFairSpec
PROPERTY Handled
