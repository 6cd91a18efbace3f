CONSTANTS
  mutator = mutator
  collector = collector
  NoRequest = NoRequest
  Callers = {mutator}
  Requests <- MCWideRequests
  Limit <- MCLimit
  MaxAlloc = 3
  HeapSize = 6
  PadModulus = 256
SPECIFICATION FairSpec
PROPERTY EveryCallReturns
