\* One customer with two tabs, in one browser or in two; p1 and p2 are two
\* platforms of one game.
SPECIFICATION PageSpec
CONSTANTS
  s1 = s1  s2 = s2  u1 = u1  p1 = p1  p2 = p2  game = game
  Tabs = {t1, t2}
  NoTab = NoTab
  Sessions = {s1, s2}
  Users = {u1}
  UserOf <- SameUser
  Products = {p1, p2}
  PostedIds = {p1, p2, undefined}
  Undefined = undefined
  NoProduct = NoProduct
  NameOf <- SameName
  PriceOf <- SamePrice
  InitStock <- Stock1
  Quantities <- UpTo3
  MaxQuantity = 2
  MaxCarts = 2
  MaxClicks = 4
  Failures = TRUE
SYMMETRY Symmetry
INVARIANTS
  PageTypeOK TotalIsCharge UnitsWereAskedFor ConfirmationWaits
PROPERTIES
  ClickCountsOnce SuccessIsASale
CHECK_DEADLOCK FALSE
