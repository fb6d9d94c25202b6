CONSTANTS
  Reviews = {"r1", "r2"}
  MaxRequests = 2
  MaxLosses = 1
  Products = {"p1", "p2"}
  MaxStock = 1
  MaxSaves = 1
  MaxLost = 1
  Slots = 3
  Images = {1, 2}
  Sizes = {"S", "M"}
  Templates <- MCTemplates
SPECIFICATION BackofficeSpec
CHECK_DEADLOCK FALSE
INVARIANT RewardOnce
INVARIANT CardsCountRows
INVARIANT TypedIsKept
