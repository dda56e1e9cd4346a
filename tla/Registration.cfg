SPECIFICATION Spec
CONSTANTS
  Device = {d1, d2}
  Email = {e1, e2}
  Password = {p1, p2}
  Uid = {u1, u2}
  Call = {c1, c2}
  None = None
  Unanswered = Unanswered
INVARIANTS
  SuccessKeepsProfile
  ExclusiveRegistration
  ProfileBelongsToAccount
PROPERTIES
  ProfileArrives
