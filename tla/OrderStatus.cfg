CONSTANTS
  o1 = o1
  o2 = o2
  w1 = w1
  w2 = w2
  Orders = {o1, o2}
  Cod = {o1}
  Synced = {o1}
  Points <- MCPoints
  Balance = 2
  Reward = 1
  Workers = {w1, w2}
  MaxRequests = 3
  MaxFaults = 1
SPECIFICATION FairSpec
CHECK_DEADLOCK FALSE
INVARIANT RewardsFollowDelivery
INVARIANT ReferralOnce
INVARIANT OrdersSettled
PROPERTY FinalIsKept
PROPERTY DeliveredIsRewarded
