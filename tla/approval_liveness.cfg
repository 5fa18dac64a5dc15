CONSTANTS
  Kinds = {"playbook"}
  Handlers = {h1}
  Summarize = FALSE
  MaxRetries = 1
  MaxFaults = 1
  MaxStale = 1
SPECIFICATION FairSpec
PROPERTIES PendingResolves NotifiedOrDecided SecretsSwept
