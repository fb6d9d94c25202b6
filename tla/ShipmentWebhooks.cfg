CONSTANTS
  o1 = o1
  e1 = e1
  e2 = e2
  w1 = w1
  w2 = w2
  Orders = {o1}
  Events = {e1, e2}
  Workers = {w1, w2}
  About <- MCAbout
  Says <- MCSays
  Invalid = {}
  Late = {o1}
  MaxAttempts = 2
  Batch = 2
  MaxTries = 2
  MaxFaults = 1
SPECIFICATION FairSpec
INVARIANT OneProcessor
INVARIANT EffectsOnce
INVARIANT OneMessage
PROPERTY SettledStays
PROPERTY FinalIsKept
PROPERTY EventsSettle
