SPECIFICATION MCSpec
CONSTANTS
  o1 = o1
  r1 = r1
  l1 = l1
  b1 = b1
  u1 = u1
  u2 = u2
  f1 = f1
  id1 = id1
  Objects = {o1, r1, l1, b1, u1, u2, f1}
  Collection <- Kinds
  Owner <- Owners
  Ids = {id1}
  NoId = NoId
  MaxCalls = 3
  Turns = {m1, m2}
  CallIds = {1, 2}
  MaxTurns = 2
  MaxRows = 3
INVARIANTS
  WritesInvalidateUsers
CHECK_DEADLOCK FALSE
