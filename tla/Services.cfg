\* One booking with three items; one service in up to two categories with
\* three prices; a card of the home screen and what it links to; one area, two
\* built-in zones; one phone and two users.  Two requests at a time, of which one may die.
SPECIFICATION MCSpec
CONSTANTS
  i1 = i1  i2 = i2  i3 = i3  q1 = q1  q2 = q2  k1 = k1  k2 = k2  z1 = z1
  u1 = u1  u2 = u2  p1 = p1
  Items = {i1, i2, i3}
  PhaseOf <- MCPhaseOf
  Seeds <- MCSeeds
  Requests = {q1, q2}
  MaxMilestones = 2
  MaxIds <- MCMaxIds
  PriceArea = {z1}
  NoId = NoId
  Codes <- MCCodes
  NoCode = NoCode
  MaxAreas = 1
  MaxListings = 3
  Users = {u1, u2}
  Phones = {p1}
  Nobody = Nobody
  MaxNotices = 2
  MaxOverlaps = 1
  MaxDeaths = 1
SYMMETRY Symmetry
CHECK_DEADLOCK FALSE
INVARIANTS
  OncePerBooking
  ChecklistWhole
  MilestonesKept
  OneActivePrice
  OneListing
  ListingKept
  NoticesFollowUsers
PROPERTIES
  DeletionsSound
