\* Two rotations of one refresh token overlap.
CONSTANTS
  None = None
  Emails = {e1}
  UserIds = {u1, u2}
  Tokens = {k1, k2, k3, k4}
  Requests = {q1, q2}
  MaxFaults = 0
SYMMETRY MCSymmetry
SPECIFICATION Spec
INVARIANT OnePairPerToken
