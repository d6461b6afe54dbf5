\* Two requests at a time on one booking, one of which may die half way.
SPECIFICATION Spec
CONSTANTS
  b1 = b1  b2 = b2  a1 = a1  a2 = a2  q1 = q1  q2 = q2  s1 = s1  s2 = s2
  Bookings = {b1}
  Agents = {a1, a2}
  Slots = {s1}
  Requests = {q1, q2}
  NoAgent = NoAgent
  MaxUpsets = 2
SYMMETRY Symmetry
INVARIANTS
  OtpBeforeWork
  NoPhantomMoney
  LedgerExplainsPayment
  AuditTrailComplete
  EarningsOnlyForCompleted
PROPERTIES
  NoStatusSkipped
