\* The agent walks through his tickets; the administrator's id in the query
\* must make no difference.
CONSTANTS
  None = None
  ann = ann
  bob = bob
  Users <- MCUsers
  Role <- MCRole
  Caller = bob
  Asked = ann
  Items = {i1, i2, i3}
  Places = 3
  PageSize = 2
SYMMETRY MCSymmetry
SPECIFICATION Spec
INVARIANTS
  TypeOK
  WalkExact
  WalkComplete
  AgentSeesOwn
