CONSTANTS
  User = {u1, u2}
  Root = u1
  Session = {s1, s2}
  Invite = {i1, i2}
  Request = {r1, r2}
SYMMETRY SlotSymmetry
CONSTRAINT FewRows
SPECIFICATION Spec
INVARIANTS TypeOK OldSessionsAreRevoked OneLiveLink SpentLinksAreConsumed
PROPERTIES AdminLockHolds LastAdminStays
CHECK_DEADLOCK FALSE
