CONSTANTS
  Threads = {t1}
  Slots = {1}
  HeapSize = 4
  MaxAlloc = 2
  Word = 2
  Requests <- MCMixed
  Serial = FALSE
  FrontEnd = TRUE
  Ops = {}
  Null = Null
  Data = {d1, d2}
  Raw = Raw
  Fresh = {d1}
SPECIFICATION FairSpec
INVARIANTS RootsManaged MetadataDisjoint
PROPERTIES OnlyOverrunShows CollectionEnds CallsReturn
