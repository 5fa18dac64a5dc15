CONSTANTS
  Families = {FALSE, TRUE}
  MaxJobs = 2
  MaxFaults = 0
  MaxStale = 1
SPECIFICATION Spec
INVARIANT PinHolds
CHECK_DEADLOCK FALSE
