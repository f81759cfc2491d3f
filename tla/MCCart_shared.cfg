\* One customer in two browsers; p2 is posted but is not a product.
SPECIFICATION Spec
CONSTANTS
  s1 = s1  s2 = s2  u1 = u1  p1 = p1  p2 = p2
  Sessions = {s1, s2}
  Users = {u1}
  UserOf <- SameUser
  Products = {p1}
  PostedIds = {p1, p2}
  NoProduct = NoProduct
  InitStock <- Stock2
  Quantities <- ZeroTwo
  MaxQuantity = 2
  MaxCarts = 2
  Failures = TRUE
SYMMETRY SessionSymmetry
INVARIANTS
  LinesHaveCarts OrphansAreAbandoned
CHECK_DEADLOCK FALSE
