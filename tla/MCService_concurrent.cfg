SPECIFICATION Spec
CONSTANTS
  Operators = {o1, o2}
  Pids = {p1, p2, p3, p4}
  Absent = absent
  Empty = empty
  Interrupts = FALSE
INVARIANT Tracked
