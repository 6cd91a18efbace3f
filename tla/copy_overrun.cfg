CONSTANTS
  Threads = {t1}
  Slots = {1, 2}
  HeapSize = 4
  MaxAlloc = 2
  Word = 2
  Requests <- MCUnits
  Serial = FALSE
  FrontEnd = FALSE
  Ops = {}
  Null = Null
  Data = {d1, d2}
  Raw = Raw
  Fresh = {d1, d2}
SPECIFICATION Spec
PROPERTY CopyTouchesOnlyCopy
