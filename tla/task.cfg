CONSTANTS
  Pushers = {p1, p2}
  Jobs = {j1, j2, j3}
SPECIFICATION TeardownSpec
INVARIANTS TypeOK NoSleepOnWork MembersAlive
PROPERTIES TasksInOrder FuturesSettle StopsOutsideWindow
CHECK_DEADLOCK FALSE
