SPECIFICATION Spec
CONSTANTS
  s1 = s1
  s2 = s2
  bundle = bundle
  stroller = stroller
  crib = crib
  light = light
  large = large
  rain = rain
  es = es
  nl = nl
  madrid = madrid
  Products = {1, 2, 4}
  Bundles = {3}
  Members <- SmallMembers
  Category <- SmallCategory
  BundleCategory = bundle
  Types <- SmallTypes
  Accessories <- SmallAccessories
  ReadTypes <- SmallReadTypes
  ReadAccessories <- SmallAccessories
  StoreOf <- SmallStoreOf
  Country <- SmallCountry
  Cities <- SmallCities
  Bodies <- SmallBodies
  Openings <- SmallOpenings
  Queries <- SmallQueries
  Limit = 1
  MaxChanges = 2
  MaxPickupIntervals = 2
  MaxDeliveryIntervals = 3
  Absent = Absent
CHECK_DEADLOCK FALSE
INVARIANTS
  WalkMissesNothing
  WalkRepeatsNothing
  ShownStoresAreOpen
  NarrowingShowsNoMore
