\* Two customers compete for the last unit.
SPECIFICATION Spec
CONSTANTS
  s1 = s1  s2 = s2  u1 = u1  p1 = p1  p2 = p2
  Sessions = {s1, s2}
  Users = {s1, s2}
  UserOf <- OwnUser
  Products = {p1}
  PostedIds = {p1}
  NoProduct = NoProduct
  InitStock <- Stock1
  Quantities <- One
  MaxQuantity = 1
  MaxCarts = 2
  Failures = FALSE
INVARIANTS
  NeverOversold
CHECK_DEADLOCK FALSE
