CONSTANTS
  Threads = {t1}
  Slots = {1, 2}
  HeapSize = 8
  MaxAlloc = 4
  Word = 1
  Requests <- MCPairs
  Serial = TRUE
  FrontEnd = FALSE
  Ops = {"field"}
  Null = Null
  Data = {d1, d2}
  Raw = Raw
  Fresh = {Null}
SPECIFICATION Spec
INVARIANT TraversalComplete
