CONSTANTS
  Kinds = {"command", "rejected", "auto"}
  Handlers = {h1, h2}
  Summarize = TRUE
  MaxRetries = 1
  MaxFaults = 1
  MaxStale = 1
SPECIFICATION Spec
INVARIANTS TypeOK LinkIntegrity NotStranded AcknowledgedDecisionStands
PROPERTY FollowsLifecycle
SYMMETRY Symmetry
