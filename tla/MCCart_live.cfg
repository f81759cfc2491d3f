\* Two customers whose carts hold both products.
SPECIFICATION FairSpec
CONSTANTS
  s1 = s1  s2 = s2  u1 = u1  p1 = p1  p2 = p2
  Sessions = {s1, s2}
  Users = {s1, s2}
  UserOf <- OwnUser
  Products = {p1, p2}
  PostedIds = {p1, p2}
  NoProduct = NoProduct
  InitStock <- Stock1
  Quantities <- One
  MaxQuantity = 1
  MaxCarts = 4
  Failures = FALSE
PROPERTIES
  RequestsEnd
CHECK_DEADLOCK FALSE
