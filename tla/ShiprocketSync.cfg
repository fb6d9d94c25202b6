CONSTANTS
  o1 = o1
  w1 = w1
  w2 = w2
  Orders = {o1}
  Workers = {w1, w2}
  MaxMade = 3
  MaxTrouble = 3
  MaxFaults = 1
SPECIFICATION MCSpec
INVARIANT RetriesWithAnother
INVARIANT OneShownShipment
PROPERTY RequestsEnd
