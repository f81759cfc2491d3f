\* u1 is logged in with two browsers, u2 with one.
SPECIFICATION Spec
CONSTANTS
  s1 = s1  s2 = s2  s3 = s3  u1 = u1  u2 = u2
  Sessions = {s1, s2, s3}
  Users = {u1, u2}
  UserOf <- OneUserInTwoBrowsers
  MaxImages = 4
SYMMETRY SwapBrowsers
INVARIANTS
  TypeOK ProfileImageExists ProfileImageIsOwn UnusedImagesAreTransient
  ShownImageExists
CHECK_DEADLOCK FALSE
