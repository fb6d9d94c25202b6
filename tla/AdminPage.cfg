CONSTANTS
  PageOrders = {"o1"}
  Amount = 2
  MaxWrites = 2
  MaxMisses = 1
  MaxStarts = 2
  MaxLostPolls = 2
  ListedProducts = {"p1"}
  ListStatuses = {"active", "draft"}
  MaxConfirms = 2
  MaxChanges = 1
SPECIFICATION AdminSpec
CHECK_DEADLOCK FALSE
INVARIANT OneRefundPerDialog
INVARIANT RowsAreReal
PROPERTY PagesCatchUp
