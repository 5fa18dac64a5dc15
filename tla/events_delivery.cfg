CONSTANTS
  Streams = {s1}
  Watchers = {w1}
  Slow = {w1}
  StreamCapacity = 2
  GlobalCapacity = 1
  Explored = {"Pending", "Approved", "Denied"}
  Playbook = TRUE
  MaxFaults = 1
  MaxStale = 1
SPECIFICATION FairSpec
INVARIANTS ClosesWithOutcome StreamsDropOnlyRepeats
PROPERTIES PublishCompletes FreshStreamEnds WatchersTold
CHECK_DEADLOCK FALSE
