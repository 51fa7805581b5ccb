SPECIFICATION Spec
CONSTANTS
  A = A
  B = B
  Opens = {o1}
  Coins = {c1}
  Deadline = 2
  Public = TRUE
  MayRefuse = TRUE
  Restarters = {A}
  Budgets <- TwoFaults
CHECK_DEADLOCK FALSE
INVARIANTS
  TypeOK
  FundedIsWatched
  ManagerLoads
  ReadyIsConfirmed
  AnnouncedOnce
  EndsAgree
