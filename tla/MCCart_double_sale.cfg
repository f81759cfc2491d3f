\* One customer checks out in two browsers.
SPECIFICATION Spec
CONSTANTS
  s1 = s1  s2 = s2  u1 = u1  p1 = p1  p2 = p2
  Sessions = {s1, s2}
  Users = {u1}
  UserOf <- SameUser
  Products = {p1}
  PostedIds = {p1}
  NoProduct = NoProduct
  InitStock <- Stock2
  Quantities <- One
  MaxQuantity = 1
  MaxCarts = 1
  Failures = FALSE
INVARIANTS
  StockAccounted
CHECK_DEADLOCK FALSE
