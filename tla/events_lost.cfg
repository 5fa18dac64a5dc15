CONSTANTS
  Streams = {s1}
  Watchers = {w1}
  Slow = {}
  StreamCapacity = 8
  GlobalCapacity = 1
  Explored = {"Approved", "Executed"}
  Playbook = FALSE
  MaxFaults = 1
  MaxStale = 0
SPECIFICATION FairSpec
PROPERTY StreamEnds
CHECK_DEADLOCK FALSE
