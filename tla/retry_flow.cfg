CONSTANTS
  Replicas = {r1}
  Handlers = {h1, h2}
  Direct = TRUE
  MaxRequests = 2
  MaxRetries = 1
  MaxFaults = 1
SPECIFICATION FairSpec
INVARIANTS LinkedToSuccessor AnswerIsLinked NoActiveDuplicate
PROPERTY LinkRepaired
CHECK_DEADLOCK FALSE
