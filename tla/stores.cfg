SPECIFICATION Spec
CONSTANTS
  Providers = {u1, u2}
  Phones = {f1, f2}
  Requests = {1, 2, 3, 4, 5}
  MaxEvents = 2
  Budget <- EachFault
  None = None
VIEW Live
SYMMETRY Symmetry
CHECK_DEADLOCK FALSE
INVARIANTS
  OwnersAndPhonesAreUnique
  PayoutAccountWasReady
  OneAccountPerStore
  CopyIsCurrent
PROPERTIES
  DeliveryHalvesAreIndependent
