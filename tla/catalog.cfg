SPECIFICATION Spec
CONSTANTS
  Products = {p1, p2, p3}
  Requests = {r1, r2, r3, r4}
  Budget <- EachFault
  None = None
SYMMETRY Symmetry
CHECK_DEADLOCK FALSE
INVARIANTS
  OpenBundlesAreReviewed
  BundlesAreWhole
  OnlyReviewedContentIsLive
PROPERTIES
  RentedProductsStay
  LoneAdminSparesClosedBundles
