CONSTANTS
  w1 = w1
  w2 = w2
  product = product
  scan = scan
  Workers = {w1, w2}
  Keys = {product, scan}
  Scans = {scan}
  Threshold = 2
  MaxEntries = 1
SPECIFICATION FitSpec
INVARIANT CircuitMatchesCount
PROPERTY RequestsAreServed
