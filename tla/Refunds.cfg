CONSTANTS
  k1 = k1
  k2 = k2
  k3 = k3
  k4 = k4
  Keys = {k1, k2, k3, k4}
  Amount = 5
  AmountOf <- MCPartial
  Channels = {"razorpay", "bank_transfer"}
  Initiators = {"a1", "a2", "r"}
  Listeners = {"a1", "h", "j", "r"}
  Reconcilers = {"r"}
  RetryJobs = {"j"}
  RetryAdmins = {"j"}
  Markers = {"r"}
  EventKinds = {"created", "processed", "failed"}
  MaxRetries = 1
  MaxFaults = 1
SPECIFICATION MCSpec
CHECK_DEADLOCK FALSE
INVARIANT BucketConserved
INVARIANT AttemptsAreCounted
INVARIANT RefundsAgree
PROPERTY StatesFollowMachine
PROPERTY PendingIsResolved
