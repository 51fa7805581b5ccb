SPECIFICATION Spec
CONSTANTS
  A = A
  B = B
  Conns = {c1, c2}
  Tasks = {1, 2}
  Budgets <- SomeFaults
INVARIANTS
  TypeOK
  PeersAgree
PROPERTY
  Settles
CHECK_DEADLOCK FALSE
