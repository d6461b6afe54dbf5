\* Two requests at a time, three bookings, a coupon for one redemption.
SPECIFICATION Spec
CONSTANTS
  b1 = b1  b2 = b2  b3 = b3  q1 = q1  q2 = q2  n1 = n1  n2 = n2  n3 = n3
  Bookings = {b1, b2, b3}
  Requests = {q1, q2}
  Numbers = {n1, n2, n3}
  Lines <- MCLines
  Plans <- MCPlans
  Offers <- MCOffers
  Limits = {1}
  TaxRate = 1800
  NoCap = NoCap
  NoRow = NoRow
  NoCoupon = NoCoupon
  NoBooking = NoBooking
  MaxUpsets = 2
SYMMETRY Symmetry
CHECK_DEADLOCK FALSE
INVARIANTS
  RedeemedCouponKept
  CountNeverAhead
  CouponDriftBounded
  HistoryMeansComplete
  LeftoversBounded
  BillsAddUp
