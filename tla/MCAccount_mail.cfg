\* One browser, one name: the mail server may be down.
SPECIFICATION Spec
CONSTANTS
  Sessions = {s1}
  Names = {ann}
  Passwords = {p1}
  Emails = {e1}
  Codes = {1}
  NoName = NoName
  MaxRows = 1
INVARIANTS
  CodeIsInMailbox
CHECK_DEADLOCK FALSE
