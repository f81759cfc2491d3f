\* One user in two browsers, two administrators; two games on up to two
\* platforms; one game per page.
SPECIFICATION Spec
CONSTANTS
  u1 = u1
  Sessions = {s1, s2}
  Users = {u1}
  UserOf <- OneUser
  Admins = {a1, a2}
  Names = {portal, doom}
  Platforms = {1, 2}
  Categories = {c1, c2}
  Unset = Unset
  PerPage = 1
  TopCategories = 1
  Suggestions = 1
  MaxProducts = 2
  MaxBoxes = 2
  MaxVisits = 2
SYMMETRY Symmetry
CONSTRAINT TogetherOnProducts
INVARIANTS
  TypeOK EveryGameHasAPage LinksStayInRange LinksNameTheirGame
  SubmissionsAccounted SuggestedAreRelated FirstVisitIsNotHistory
CHECK_DEADLOCK FALSE
