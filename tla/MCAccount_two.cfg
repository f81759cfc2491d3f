\* Two browsers, two names, two rows.
SPECIFICATION Spec
CONSTANTS
  Sessions = {s1, s2}
  Names = {ann, bob}
  Passwords = {p1, p2}
  Emails = {e1, e2}
  Codes = {1, 2}
  NoName = NoName
  MaxRows = 2
SYMMETRY Symmetry
INVARIANTS
  TypeOK LoggedInIsVerified DuplicateOnlyByRace VerifiedByItsCode
  SettingsAreOwn
CHECK_DEADLOCK FALSE
