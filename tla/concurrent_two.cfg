CONSTANTS
  Threads = {t1, t2}
  Slots = {1}
  HeapSize = 3
  MaxAlloc = 1
  Word = 1
  Requests <- MCUnits
  Serial = FALSE
  FrontEnd = FALSE
  Ops = {}
  Null = Null
  Data = {d1, d2}
  Raw = Raw
  Fresh = {d1}
SPECIFICATION Spec
INVARIANTS SingleCollection InactiveSpaceReset
PROPERTY CurrentSpaceKept
