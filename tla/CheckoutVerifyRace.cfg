CONSTANTS
  c1 = c1
  c2 = c2
  c3 = c3
  p1 = p1
  p2 = p2
  Checkouts = {c1}
  Cod = {}
  Products = {p1}
  Items <- MCOneItem
  Points <- MCOnePoints
  Stock <- MCOneStock
  Balance = 3
  Workers = {"v", "w"}
  Settlers = {"v", "w"}
  MaxFaults = 0
SPECIFICATION Spec
CHECK_DEADLOCK FALSE
INVARIANT OneOrderPerPayment
