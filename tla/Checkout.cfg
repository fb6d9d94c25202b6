CONSTANTS
  c1 = c1
  c2 = c2
  c3 = c3
  p1 = p1
  p2 = p2
  Checkouts = {c1, c2, c3}
  Cod = {c2, c3}
  Products = {p1, p2}
  Items <- MCItems
  Points <- MCPoints
  Stock <- MCStock
  Balance = 3
  Workers = {"v", "w"}
  Settlers = {"v"}
  MaxFaults = 1
SPECIFICATION FairSpec
CHECK_DEADLOCK FALSE
INVARIANT OrdersAddUp
INVARIANT PointsCovered
INVARIANT OneCashOrderPerKey
PROPERTY PaymentsAreSettled
