SPECIFICATION Spec
CONSTANTS
  c1 = c1
  c2 = c2
  c3 = c3
  v1 = v1
  v2 = v2
  n1 = n1
  Clients = {c1, c2, c3}
  Names = {n1}
  Versions = {v1, v2}
  Size <- MCSize
  Absent = Absent
  MaxOps = 4
INVARIANTS
  TypeOK
  AloneIsExact
  MixNeedsCollision
  MetaNeverAhead
  OneDeletePerFile
CHECK_DEADLOCK FALSE
