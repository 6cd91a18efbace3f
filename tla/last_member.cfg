CONSTANTS
  Threads = {t1}
  Slots = {1, 2}
  HeapSize = 4
  MaxAlloc = 2
  Word = 1
  Requests <- MCUnits
  Serial = TRUE
  FrontEnd = FALSE
  Ops = {"field"}
  Null = Null
  Data = {d1, d2}
  Raw = Raw
  Fresh = {Null}
SPECIFICATION Spec
INVARIANT MembersSurvive
