\* Two handlers, two accounts, four refresh tokens.
CONSTANTS
  None = None
  Emails = {e1, e2}
  UserIds = {u1, u2}
  Tokens = {k1, k2, k3, k4}
  Requests = {q1, q2}
  MaxFaults = 1
SYMMETRY MCSymmetry
SPECIFICATION Spec
INVARIANTS
  TypeOK
  UniqueEmail
  OneSessionPerLogin
  ParentRevoked
  SessionKeepsItsUser
  NoReuse
PROPERTIES
  SessionSafety
