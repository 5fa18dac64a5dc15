CONSTANTS
  Families = {FALSE, TRUE}
  MaxJobs = 2
  MaxFaults = 2
  MaxStale = 2
SPECIFICATION FairSpec
INVARIANTS TypeOK DeletesOnlyVetted ExecutedMeansGone
PROPERTY PlaybookEnds
CHECK_DEADLOCK FALSE
