\* One agent, two requests at a time, of which one may die.
SPECIFICATION Spec
CONSTANTS
  a1 = a1  a2 = a2  q1 = q1  q2 = q2
  Agents = {a1}
  Requests = {q1, q2}
  Earnings = {30}
  MaxRevenue = 30
  Thresholds = {20, 10}
  Salaries = {12}
  Deductions = {0, 15}
  Decisions = {"PAID"}
  Percent = 1000
  None = None
  MaxOverlaps = 1
  MaxDeaths = 1
SYMMETRY Symmetry
INVARIANTS
  RowsBounded
  CommittedKept
  TotalsAddUp
  EditInForce
