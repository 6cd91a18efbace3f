CONSTANTS
  mutator = mutator
  collector = collector
  Threads = {mutator, collector}
  Scanners = {collector}
  MaxDepth <- MCDepth
  Stacks <- MCStacks
  StackSize = 8
  RedZone = 1
SPECIFICATION FairSpec
INVARIANTS AnnouncedFound FaultOnlyAfterEnd
PROPERTY CallsReturn
CHECK_DEADLOCK FALSE
