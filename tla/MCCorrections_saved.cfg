SPECIFICATION Spec
CONSTANTS
  w1 = w1
  w2 = w2
  Workers <- TwoWorkers
  NumJobs = 1
  LeaseTime = 1
  MaxFaults = 0
  MaxSwitches = 0
  MaxStops = 0
INVARIANTS SavedIsPublished
CHECK_DEADLOCK FALSE
