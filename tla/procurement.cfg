\* A cheap and a dear vendor, four runs with up to four trace ids, a failure and a midnight.
CONSTANTS
  v1 = v1
  v2 = v2
  a1 = a1
  a2 = a2
  a3 = a3
  a4 = a4
  None = None
  Vendors = {v1, v2}
  Traces = {a1, a2, a3, a4}
  Expect <- Prices
  Reports = {2, 5}
  Excess = 3
  Scores = {3, 8}
  DailyCap = 12
  VendorCap = 7
  Threshold = 3
  MaxRuns = 4
  MaxFailures = 1
  MaxDays = 1
SPECIFICATION Spec
INVARIANTS
  TypeOK
  SpendBound
  EveryPaymentBooked
  ProfileFollows
  MindraAgrees
SYMMETRY AnyTrace
CHECK_DEADLOCK FALSE
