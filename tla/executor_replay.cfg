CONSTANTS
  CrossNamespace = {FALSE}
  Stdin = {FALSE}
  Sidecar = {FALSE}
  MaxFaults = 1
SPECIFICATION Spec
INVARIANT RunsAtMostOnce
CHECK_DEADLOCK FALSE
