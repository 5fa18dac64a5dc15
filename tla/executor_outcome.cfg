CONSTANTS
  CrossNamespace = {FALSE}
  Stdin = {FALSE}
  Sidecar = {TRUE}
  MaxFaults = 1
SPECIFICATION Spec
PROPERTY RecordedOutcomeKept
CHECK_DEADLOCK FALSE
