CONSTANTS
  mutator = mutator
  collector = collector
  Threads = {mutator, collector}
  Scanners = {collector}
  MaxDepth <- MCDepth
  Stacks <- MCStacks
  StackSize = 8
  RedZone = 1
SPECIFICATION Spec
INVARIANT ScanReadable
CHECK_DEADLOCK FALSE
