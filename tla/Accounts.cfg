\* One user or two admins, two requests at a time, of which one may die.
SPECIFICATION Spec
CONSTANTS
  x1 = x1  x2 = x2  q1 = q1  q2 = q2  p1 = p1  p2 = p2
  Admins = {x1, x2}
  User = User
  Requests = {q1, q2}
  Passwords = {p1, p2}
  Unused = Unused
  NoRow = NoRow
  MaxAttempts = 1
  MaxCodes = 2
  MaxTokens = 3
  MaxOverlaps = 1
  MaxDeaths = 1
SYMMETRY Symmetry
CHECK_DEADLOCK FALSE
INVARIANTS
  CodesBounded
  SessionsBounded
  OldPasswordDropped
  SomeAdminActive
PROPERTIES
  BlockKept
