CONSTANTS
  CrossNamespace = {FALSE, TRUE}
  Stdin = {FALSE, TRUE}
  Sidecar = {TRUE}
  MaxFaults = 1
SPECIFICATION FairSpec
INVARIANTS NoOrphanWorkload OwnResult OutcomeReported
PROPERTIES NoReplayOnceRecorded ApprovedTerminates DeletionCompletes
CHECK_DEADLOCK FALSE
