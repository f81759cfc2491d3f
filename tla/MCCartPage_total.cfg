\* The two platforms of the game have different prices.
SPECIFICATION PageSpec
CONSTANTS
  s1 = s1  s2 = s2  u1 = u1  p1 = p1  p2 = p2  game = game
  Tabs = {t1}
  NoTab = NoTab
  Sessions = {s1}
  Users = {u1}
  UserOf <- SameUser
  Products = {p1, p2}
  PostedIds = {p1, p2, undefined}
  Undefined = undefined
  NoProduct = NoProduct
  NameOf <- SameName
  PriceOf <- TwoPrices
  InitStock <- Stock1
  Quantities <- UpTo3
  MaxQuantity = 2
  MaxCarts = 2
  MaxClicks = 2
  Failures = FALSE
INVARIANTS
  FreshTotalIsCharge
CHECK_DEADLOCK FALSE
