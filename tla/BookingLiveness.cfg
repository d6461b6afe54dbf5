\* Liveness: two requests at a time, one agent, every upset allowed once.
SPECIFICATION FairSpec
CONSTANTS
  b1 = b1  b2 = b2  a1 = a1  a2 = a2  q1 = q1  q2 = q2  s1 = s1  s2 = s2
  Bookings = {b1}
  Agents = {a1}
  Slots = {s1}
  Requests = {q1, q2}
  NoAgent = NoAgent
  MaxUpsets = 1
PROPERTIES
  CaptureReachesLedger
  CompletedIsPaidOut
