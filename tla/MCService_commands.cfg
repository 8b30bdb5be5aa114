SPECIFICATION FairSpec
CONSTANTS
  Operators = {o1, o2}
  Pids = {p1, p2}
  Absent = absent
  Empty = empty
  Interrupts = TRUE
INVARIANTS TypeOK TrackedInOrder OneServer
PROPERTIES StopStops CommandsEnd
