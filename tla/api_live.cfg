\* Two requests on a pool of one connection, with a failing database.
\* A stopped process does nothing more.
CONSTANTS
  Requests = {r1, r2}
  Traffic <- MCTraffic
  MaxPool = 1
  MaxUses = 2
  MaxFaults = 1
SPECIFICATION FairSpec
CHECK_DEADLOCK FALSE
INVARIANTS
  TypeOK
  NoHoldAndWait
  OnlyActiveServed
  HealthTruth
PROPERTIES
  EventuallyAnswered
  StopCompletes
