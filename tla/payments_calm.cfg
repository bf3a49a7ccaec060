SPECIFICATION FairSpec
CONSTANTS
  Payments = {p1, p2}
  Requests = {r1, r2, r3, r4}
  Users = {u1}
  Stores = {s1}
  Amounts = {54, 105}
  FeePercent = 10
  MaxAttempts = 1
  None = None
  IsProduction = TRUE
  Overlap = FALSE
  MayFail = FALSE
  Ordered = TRUE
  Redelivers = FALSE
CHECK_DEADLOCK FALSE
INVARIANTS
  FlagFollowsMoney
PROPERTIES
  ImplementsEscrow
  ChargeIsReported
