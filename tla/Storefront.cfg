CONSTANTS
  u1 = u1
  w1 = w1
  w2 = w2
  Users = {u1}
  Workers = {w1, w2}
  Prices = {10000, 10550}
  FirstPrice = 10000
  Coupons <- MCCoupons
  UsageLimit = 1
  PerUserLimit = 1
  PointsChoices = {40}
  Balance = 40
  MaxUnits = 2
  MaxOrders = 2
  MaxVisits = 2
  MaxQuotes = 2
  MaxAsked = 3
  MaxEdits = 1
  DeliveryCharge = 1000
  PointValue = 100
  MinRedeem = 20
  SharePercent = 50
  PerOrder = 500
  PerProduct = 30
SYMMETRY MCSymmetry
SPECIFICATION MCSpec
CHECK_DEADLOCK FALSE
INVARIANT DiscountsAreAllowed
INVARIANT ChargedAsShown
INVARIANT InvoicedAsPaid
