CONSTANTS
  Threads = {t1}
  Slots = {1, 2}
  HeapSize = 6
  MaxAlloc = 3
  Word = 2
  Requests <- MCSerialRequests
  Serial = TRUE
  FrontEnd = FALSE
  Ops = {"copy", "data"}
  Null = Null
  Data = {d1, d2}
  Raw = Raw
  Fresh = {d1}
SPECIFICATION Spec
INVARIANTS TypeOK NoHeapCorruption OldSpaceEmptied
PROPERTIES CollectionInvisible WritesKept
