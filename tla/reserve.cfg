CONSTANTS
  mutator = mutator
  collector = collector
  NoRequest = NoRequest
  Callers = {mutator, collector}
  Requests <- MCRequests
  Limit <- MCLimit
  MaxAlloc = 3
  HeapSize = 6
  PadModulus = 256
SPECIFICATION FairSpec
INVARIANTS TypeOK ReservationsDisjoint ReservationsPlaced
PROPERTIES ReserveIsAtomic EveryCallReturns
