SPECIFICATION Spec
CONSTANTS
  i1 = i1
  i2 = i2
  i3 = i3
  s1 = s1
  s2 = s2
  Items = {i1, i2, i3}
  Bundles = {i3}
  StoreOf <- SmallStoreOf
  Requests = {1, 2, 3, 4, 5, 6}
  Budget <- EachFault
  None = None
VIEW Live
CHECK_DEADLOCK FALSE
INVARIANTS
  OneLinePerItem
  CartIsWhatWasAsked
PROPERTIES
  HandoffsStand
