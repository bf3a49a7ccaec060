SPECIFICATION Spec
CONSTANTS
  Payments = {p1, p2}
  Requests = {r1, r2, r3, r4}
  Users = {u1}
  Stores = {s1, s2}
  Amounts = {105}
  FeePercent = 10
  MaxAttempts = 1
  None = None
  IsProduction = FALSE
  Overlap = TRUE
  MayFail = TRUE
  Ordered = FALSE
  Redelivers = TRUE
CHECK_DEADLOCK FALSE
SYMMETRY Symmetry
INVARIANTS
  TypeOK
  PayoutsAreCollected
  TransferOnRecord
  ChargesHaveRecord
  SummaryIsSound
