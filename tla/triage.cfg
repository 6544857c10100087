\* One process for two tickets, their updates and Beat's checks; one fault.
CONSTANTS
  None = None
  Check = Check
  Tickets = {t1, t2}
  Workers = {w1}
  Replies <- MCReplies
  Patches <- MCPatches
  Opening <- MCOpening
  MaxFaults = 1
  MaxChecks = 1
SPECIFICATION WFairSpec
INVARIANTS
  TypeOK
  PoolTypeOK
  AttemptsBounded
  FlaggedOnlyWhenExhausted
  JobsAccounted
PROPERTIES
  ServesTriage
  CheckRuns
  OutcomeSafety
  OutcomeFair
  ChoicesSurviveTriage
