\* One request at a time: is the captured payment of a cancelled job refunded?
SPECIFICATION Spec
CONSTANTS
  b1 = b1  b2 = b2  a1 = a1  a2 = a2  q1 = q1  q2 = q2  s1 = s1  s2 = s2
  Bookings = {b1}
  Agents = {a1, a2}
  Slots = {s1, s2}
  Requests = {q1}
  NoAgent = NoAgent
  MaxUpsets = 1
INVARIANTS
  CancelledIsRefunded
