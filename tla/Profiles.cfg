\* Two agents, of whom one's row changes, and two jobs; or one customer with
\* up to three addresses.  Two requests at a time, of which one may die.
SPECIFICATION MCSpec
CONSTANTS
  a1 = a1  a2 = a2  q1 = q1  q2 = q2  b1 = b1  b2 = b2
  h1 = h1  h2 = h2  h3 = h3  z1 = z1  z2 = z2
  Agent = {a1, a2}
  Me = a1
  Followed = {a1}
  Bookings = {b1, b2}
  Starts = {1, 2}
  Duration = 2
  DayEnd = 4
  MaxRows = 2
  None = None
  Address = {h1, h2, h3}
  Places <- MCPlaces
  Coverages <- MCCoverages
  Unknown = Unknown
  NoZone = NoZone
  Requests = {q1, q2}
  MaxOverlaps = 1
  MaxDeaths = 1
SYMMETRY Symmetry
CHECK_DEADLOCK FALSE
INVARIANTS
  DecisionsKept
  SuspendedIdle
  OneRowEach
  OneDefault
PROPERTIES
  AssignmentFits
