\* Two customers with one browser each, two products with two units each,
\* statements that fail and requests that die at any point.
SPECIFICATION Spec
CONSTANTS
  s1 = s1  s2 = s2  u1 = u1  p1 = p1  p2 = p2
  Sessions = {s1, s2}
  Users = {s1, s2}
  UserOf <- OwnUser
  Products = {p1, p2}
  PostedIds = {p1, p2}
  NoProduct = NoProduct
  InitStock <- Stock2
  Quantities <- ZeroTwo
  MaxQuantity = 3
  MaxCarts = 3
  Failures = TRUE
SYMMETRY Symmetry
INVARIANTS
  TypeOK OneLinePerProduct StockAccounted TakenWithinSnapshot
PROPERTIES
  OversoldOnlyByStaleRead SaleEmptiesCart
  AddNeverLowersQuantity FailedCheckoutSellsNothing ImplementsShop
CHECK_DEADLOCK FALSE
