CONSTANTS
  Capacity = 2
  Behind <- MCBehind
  PageSize = 4
  Heaps <- MCHeaps
  Registrars = {r1, r2}
  MaxCalls = 3
  Writers = {w1}
  Addresses <- MCAddresses
  Objects = {o1, o2}
  Regions <- MCRegions
  Asserts = TRUE
SPECIFICATION Spec
INVARIANT SharedPagesProtected
CHECK_DEADLOCK FALSE
