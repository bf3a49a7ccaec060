SPECIFICATION QuoteSpec
CONSTANTS
  p1 = p1
  p2 = p2
  p3 = p3
  b1 = b1
  s1 = s1
  s2 = s2
  Products = {p1, p2, p3}
  Bundles = {b1}
  Members <- SmallMembers
  StoreOf <- SmallStoreOf
  Priced = {b1}
  Prices = {0, 334, 1990}
  BasePrice <- SmallBasePrice
  Dates = {1, 2}
  Editors = {e1, e2}
  MaxChanges = 2
  Absent = Absent
  Null = Null
SYMMETRY Symmetry
INVARIANTS
  
  TotalsAddUp
  OffersAreBargains
