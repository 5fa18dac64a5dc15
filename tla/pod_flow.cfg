CONSTANTS
  Specs <- MCSpecs
  Configs <- MCConfigs
  Secrets = {"s1", "s2"}
  MaxRestarts = 1
  MaxSwaps = 2
SPECIFICATION Spec
INVARIANTS ApprovedIsExecuted ValidatedIsAdmitted ScratchStepsAside SecretsReviewed AutoApprovedIsPlain PreflightSound
PROPERTY NoTokenExposed
CHECK_DEADLOCK FALSE
